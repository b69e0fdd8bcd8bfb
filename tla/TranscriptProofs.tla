-------------------------- MODULE TranscriptProofs --------------------------
(***************************************************************************)
(* For any messages, budgets, tools and turns: what compression keeps of a *)
(* conversation fits its budget, has the recent questions and the newest   *)
(* exchange, and tears no call from its result.                            *)
(*                                                                         *)
(* Weight, Fit and Only are recursive functions on the indices of a        *)
(* conversation.  What they compute is proved by induction on the index;   *)
(* the induction is that of the well-founded order of the numbers, and     *)
(* each function is shown to exist before anything is said of it.          *)
(***************************************************************************)
EXTENDS Transcripts, FiniteSetTheorems, SequenceTheorems, WellFoundedInduction, TLAPS

-----------------------------------------------------------------------------
(* Induction                                                               *)

\* Induction: a set of numbers that has 0 and the successor of each member has them
\* all, for the least number it does not have would follow a member.
LEMMA NatInduct ==
  ASSUME NEW T \in SUBSET Nat, 0 \in T, \A n \in T : n + 1 \in T
  PROVE  T = Nat
<1>1. SUFFICES ASSUME Nat \ T # {} PROVE FALSE  OBVIOUS
<1>2. PICK n \in Nat \ T : \A m \in Nat \ T : <<m, n>> \notin OpToRel(<, Nat)
  <2>1. IsWellFoundedOn(OpToRel(<, Nat), Nat)  BY NatLessThanWellFounded
  <2>2. QED  BY <1>1, <2>1, WFMin
<1>a. n \in Nat /\ n # 0  BY <1>2
<1>3. n # 0 /\ n - 1 \in Nat /\ n = (n - 1) + 1  BY <1>a
<1>4. n - 1 \notin T  BY <1>3
<1>5. <<n - 1, n>> \in OpToRel(<, Nat)  BY <1>2, <1>3 DEF OpToRel
<1>6. QED  BY <1>2, <1>3, <1>4, <1>5

\* The same from 0 up to n, and from hi down to lo.
LEMMA UpToInduct ==
  ASSUME NEW n \in Nat, NEW T, T \subseteq 0..n, 0 \in T,
         \A m \in T : m < n => m + 1 \in T
  PROVE  T = 0..n
<1> DEFINE U == T \cup {m \in Nat : m > n}
<1>1. U \in SUBSET Nat /\ 0 \in U
  <2>1. 0..n \subseteq Nat  OBVIOUS
  <2>2. QED  BY <2>1
<1>2. ASSUME NEW m \in U PROVE m + 1 \in U
  <2>1. CASE m \in T /\ m < n  BY <2>1
  <2>2. CASE ~(m \in T /\ m < n)
    <3>1. m \in Nat /\ m >= n  BY <1>2, <2>2
    <3>2. m + 1 \in Nat /\ m + 1 > n  BY <3>1
    <3>3. QED  BY <3>2
  <2>3. QED  BY <2>1, <2>2
<1>3. U = Nat
  <2> HIDE DEF U
  <2>1. QED  BY <1>1, <1>2, NatInduct
<1>4. ASSUME NEW m \in 0..n PROVE m \in T
  <2>1. m \in U /\ ~(m > n)  BY <1>3
  <2>2. QED  BY <2>1
<1>5. QED  BY <1>4

LEMMA DownInduct ==
  ASSUME NEW lo \in Nat, NEW hi \in Nat, lo <= hi, NEW T, T \subseteq lo..hi, hi \in T,
         \A m \in T : m > lo => m - 1 \in T
  PROVE  T = lo..hi
<1> DEFINE U == {k \in 0..(hi - lo) : hi - k \in T}
<1>1. 0 \in U /\ U \subseteq 0..(hi - lo) /\ hi - lo \in Nat  OBVIOUS
<1>2. ASSUME NEW k \in U, k < hi - lo PROVE k + 1 \in U
  <2>1. hi - k \in T /\ hi - k > lo  BY <1>2
  <2>2. (hi - k) - 1 \in T  BY <2>1
  <2>3. hi - (k + 1) = (hi - k) - 1 /\ k + 1 \in 0..(hi - lo)  BY <1>2
  <2>4. QED  BY <2>2, <2>3
<1> HIDE DEF U
<1>3. U = 0..(hi - lo)  BY <1>1, <1>2, UpToInduct
<1>4. ASSUME NEW m \in lo..hi PROVE m \in T
  <2>1. hi - m \in 0..(hi - lo) /\ hi - (hi - m) = m  OBVIOUS
  <2>2. QED  BY <1>3, <2>1 DEF U
<1>5. QED  BY <1>4

\* A finite set of numbers has a largest and a smallest member, and Max and Min are they.
LEMMA MaxIn ==
  ASSUME NEW n \in Nat, NEW S, S \subseteq 0..n, S # {}
  PROVE  Max(S) \in S /\ \A x \in S : x <= Max(S)
<1> DEFINE T == {k \in 0..n : (\E x \in S : x <= k) => \E m \in S : \A x \in S : x <= k => x <= m}
<1>1. 0 \in T
  <2>1. ASSUME NEW y \in S, y <= 0 PROVE \E m \in S : \A x \in S : x <= 0 => x <= m
    <3>1. \A x \in S : x <= 0 => x <= y  BY <2>1
    <3>2. QED  BY <3>1
  <2>2. QED  BY <2>1
<1>2. ASSUME NEW k \in T, k < n PROVE k + 1 \in T
  <2>0. k \in 0..n /\ k + 1 \in 0..n  BY <1>2
  <2>1. ASSUME NEW y \in S, y <= k + 1
        PROVE \E m \in S : \A x \in S : x <= k + 1 => x <= m
    <3>1. CASE k + 1 \in S
      <4>1. \A x \in S : x <= k + 1 => x <= k + 1  OBVIOUS
      <4>2. QED  BY <3>1, <4>1
    <3>2. CASE k + 1 \notin S
      <4>1. \A x \in S : x <= k + 1 => x <= k  BY <3>2, <2>0
      <4>2. PICK m \in S : \A x \in S : x <= k => x <= m  BY <2>1, <4>1
      <4>3. \A x \in S : x <= k + 1 => x <= m  BY <4>1, <4>2
      <4>4. QED  BY <4>3
    <3>3. QED  BY <3>1, <3>2
  <2>2. QED  BY <2>0, <2>1
<1>3. T \subseteq 0..n  OBVIOUS
<1> HIDE DEF T
<1>4. T = 0..n  BY <1>1, <1>2, <1>3, UpToInduct
<1>5. n \in T  BY <1>4
<1>6. PICK m \in S : \A x \in S : x <= n => x <= m  BY <1>5 DEF T
<1>7. \A x \in S : m >= x  BY <1>6
<1>8. Max(S) \in S /\ \A x \in S : Max(S) >= x  BY <1>7 DEF Max
<1>9. QED  BY <1>8

LEMMA MinIn ==
  ASSUME NEW S, S \subseteq Nat, S # {}
  PROVE  Min(S) \in S /\ \A x \in S : Min(S) <= x
<1>1. PICK m \in S : \A x \in S : <<x, m>> \notin OpToRel(<, Nat)
  <2>1. IsWellFoundedOn(OpToRel(<, Nat), Nat)  BY NatLessThanWellFounded
  <2>2. QED  BY <2>1, WFMin
<1>2. ASSUME NEW x \in S PROVE m <= x
  <2>1. m \in Nat /\ x \in Nat  OBVIOUS
  <2>2. <<x, m>> \notin OpToRel(<, Nat)  BY <1>1
  <2>3. ~(x < m)  BY <2>1, <2>2 DEF OpToRel
  <2>4. QED  BY <2>1, <2>3
<1>3. QED  BY <1>2 DEF Min

-----------------------------------------------------------------------------
(* The weight of messages                                                  *)

\* A running sum exists, so the function that Weight chooses is one.
LEMMA SumUpTo ==
  ASSUME NEW n \in Nat, NEW s \in [1..n -> Nat]
  PROVE  \E g : g = [i \in 0..n |-> IF i = 0 THEN 0 ELSE g[i - 1] + s[i]]
<1> DEFINE T == {m \in Nat : \E g : g = [i \in 0..m |-> IF i = 0 THEN 0 ELSE g[i - 1] + s[i]]}
<1>1. 0 \in T
  <2>1. [i \in 0..0 |-> 0] = [i \in 0..0 |-> IF i = 0 THEN 0 ELSE [j \in 0..0 |-> 0][i - 1] + s[i]]  OBVIOUS
  <2>2. QED  BY <2>1
<1>2. ASSUME NEW m \in T PROVE m + 1 \in T
  <2>1. PICK g : g = [i \in 0..m |-> IF i = 0 THEN 0 ELSE g[i - 1] + s[i]]  BY <1>2
  <2> DEFINE h == [i \in 0..(m + 1) |-> IF i = m + 1 THEN g[m] + s[m + 1] ELSE g[i]]
  <2>2. ASSUME NEW i \in 0..(m + 1)
        PROVE h[i] = IF i = 0 THEN 0 ELSE h[i - 1] + s[i]
    <3>1. CASE i = m + 1
      <4>1. h[i] = g[m] + s[m + 1] /\ h[i - 1] = g[m]  BY <3>1
      <4>2. QED  BY <3>1, <4>1
    <3>2. CASE i # m + 1
      <4>1. i \in 0..m /\ h[i] = g[i]  BY <3>2
      <4>2. i # 0 => h[i - 1] = g[i - 1]  BY <4>1
      <4>3. g[i] = IF i = 0 THEN 0 ELSE g[i - 1] + s[i]  BY <2>1, <4>1
      <4>4. QED  BY <4>1, <4>2, <4>3
    <3>3. QED  BY <3>1, <3>2
  <2>3. h = [i \in 0..(m + 1) |-> IF i = 0 THEN 0 ELSE h[i - 1] + s[i]]  BY <2>2
  <2>4. m + 1 \in Nat  BY <1>2
  <2> HIDE DEF h
  <2>5. QED  BY <2>3, <2>4
<1>3. T = Nat  BY <1>1, <1>2, NatInduct
<1>4. QED  BY <1>3

\* Weight is what its running sum comes to.
LEMMA WeightIs ==
  ASSUME NEW ms, NEW S, Len(ms) \in Nat, \A i \in 1..Len(ms) : ms[i].size \in Nat
  PROVE  \E g : /\ g = [i \in 0..Len(ms) |-> IF i = 0 THEN 0 ELSE g[i - 1] + IF i \in S THEN ms[i].size ELSE 0]
                /\ Weight(ms, S) = g[Len(ms)]
<1> DEFINE s == [i \in 1..Len(ms) |-> IF i \in S THEN ms[i].size ELSE 0]
<1>1. PICK g : g = [i \in 0..Len(ms) |-> IF i = 0 THEN 0 ELSE g[i - 1] + s[i]]  BY SumUpTo
<1>2. g = [i \in 0..Len(ms) |-> IF i = 0 THEN 0 ELSE g[i - 1] + IF i \in S THEN ms[i].size ELSE 0]
  <2>1. \A i \in 0..Len(ms) : i # 0 => s[i] = IF i \in S THEN ms[i].size ELSE 0  OBVIOUS
  <2> HIDE DEF s
  <2>2. QED  BY <1>1, <2>1
<1>3. QED  BY <1>2 DEF Weight

\* A conversation of messages that measure something.
Sized(ms) == Len(ms) \in Nat /\ \A i \in 1..Len(ms) : ms[i].size \in Nat \ {0}

\* The same, step by step and in numbers.
IsSumOf(g, ms, S) ==
  /\ g \in [0..Len(ms) -> Nat] /\ g[0] = 0
  /\ \A i \in 1..Len(ms) : g[i] = g[i - 1] + (IF i \in S THEN ms[i].size ELSE 0)
  /\ Weight(ms, S) = g[Len(ms)]

LEMMA WeightSums ==
  ASSUME NEW ms, NEW S, Sized(ms)
  PROVE  \E g : IsSumOf(g, ms, S)
<1> DEFINE n == Len(ms)
<1>1. n \in Nat /\ \A i \in 1..n : ms[i].size \in Nat  BY DEF Sized
<1>2. PICK g : /\ g = [i \in 0..n |-> IF i = 0 THEN 0 ELSE g[i - 1] + IF i \in S THEN ms[i].size ELSE 0]
               /\ Weight(ms, S) = g[n]
  BY <1>1, WeightIs
<1> HIDE DEF n
<1>3. g[0] = 0 /\ \A i \in 1..n : g[i] = g[i - 1] + (IF i \in S THEN ms[i].size ELSE 0)
  <2>1. 0 \in 0..n /\ \A i \in 1..n : i \in 0..n /\ i # 0  BY <1>1
  <2>2. QED  BY <1>2, <2>1
<1>4. {i \in 0..n : g[i] \in Nat} = 0..n
  <2> DEFINE T == {i \in 0..n : g[i] \in Nat}
  <2>1. 0 \in T  BY <1>1, <1>3
  <2>2. ASSUME NEW i \in T, i < n PROVE i + 1 \in T
    <3>1. i + 1 \in 1..n /\ (i + 1) - 1 = i  BY <1>1, <2>2
    <3>2. g[i + 1] = g[i] + (IF i + 1 \in S THEN ms[i + 1].size ELSE 0)  BY <1>3, <3>1
    <3>3. g[i] \in Nat /\ ms[i + 1].size \in Nat  BY <1>1, <3>1
    <3>4. g[i + 1] \in Nat  BY <3>2, <3>3
    <3>5. QED  BY <1>1, <3>1, <3>4
  <2>3. T \subseteq 0..n  OBVIOUS
  <2> HIDE DEF T
  <2>4. T = 0..n  BY <1>1, <2>1, <2>2, <2>3, UpToInduct
  <2>5. QED  BY <2>4 DEF T
<1>5. g \in [0..n -> Nat]  BY <1>2, <1>4
<1>6. QED  BY <1>2, <1>3, <1>5 DEF IsSumOf, n

\* What a set of messages weighs: a number, the sum of its parts, nothing only if it is empty.
LEMMA WeightNat ==
  ASSUME NEW ms, NEW S, Sized(ms)
  PROVE  Weight(ms, S) \in Nat
<1>1. PICK g : IsSumOf(g, ms, S)  BY WeightSums
<1>2. Len(ms) \in 0..Len(ms)  BY DEF Sized
<1>3. QED  BY <1>1, <1>2 DEF IsSumOf

LEMMA WeightAdds ==
  ASSUME NEW ms, NEW A, NEW B, Sized(ms), A \cap B = {}
  PROVE  Weight(ms, A \cup B) = Weight(ms, A) + Weight(ms, B)
<1> DEFINE n == Len(ms)
<1>n. n \in Nat  BY DEF Sized
<1>1. PICK a : IsSumOf(a, ms, A)  BY WeightSums
<1>2. PICK b : IsSumOf(b, ms, B)  BY WeightSums
<1>3. PICK c : IsSumOf(c, ms, A \cup B)  BY WeightSums
<1> DEFINE T == {i \in 0..n : c[i] = a[i] + b[i]}
<1>4. 0 \in T  BY <1>1, <1>2, <1>3, <1>n DEF IsSumOf
<1>5. ASSUME NEW i \in T, i < n PROVE i + 1 \in T
  <2>1. i \in 0..n /\ i + 1 \in 0..n /\ i + 1 \in 1..n /\ (i + 1) - 1 = i  BY <1>5, <1>n
  <2>2. PICK z : z = ms[i + 1].size  OBVIOUS
  <2>3. z \in Nat  BY <2>1, <2>2 DEF Sized
  <2>4. /\ a[i + 1] = a[i] + (IF i + 1 \in A THEN z ELSE 0)
        /\ b[i + 1] = b[i] + (IF i + 1 \in B THEN z ELSE 0)
        /\ c[i + 1] = c[i] + (IF i + 1 \in A \cup B THEN z ELSE 0)
    BY <1>1, <1>2, <1>3, <2>1, <2>2 DEF IsSumOf
  <2>5. a[i] \in Nat /\ b[i] \in Nat /\ c[i] = a[i] + b[i]
    BY <1>1, <1>2, <2>1 DEF IsSumOf
  <2>6. c[i + 1] = a[i + 1] + b[i + 1]
    <3>1. CASE i + 1 \in A  BY <2>3, <2>4, <2>5, <3>1
    <3>2. CASE i + 1 \in B  BY <2>3, <2>4, <2>5, <3>2
    <3>3. CASE i + 1 \notin A \cup B  BY <2>3, <2>4, <2>5, <3>3
    <3>4. QED  BY <3>1, <3>2, <3>3
  <2>7. QED  BY <2>1, <2>6
<1>6. T \subseteq 0..n  OBVIOUS
<1> HIDE DEF T
<1>7. T = 0..n  BY <1>n, <1>4, <1>5, <1>6, UpToInduct
<1>8. n \in T  BY <1>7, <1>n
<1>9. QED  BY <1>8, <1>1, <1>2, <1>3 DEF T, IsSumOf

LEMMA WeightGrows ==
  ASSUME NEW ms, NEW A, NEW B, Sized(ms), A \subseteq B
  PROVE  Weight(ms, A) <= Weight(ms, B)
<1>1. Weight(ms, A \cup (B \ A)) = Weight(ms, A) + Weight(ms, B \ A)  BY WeightAdds
<1>2. A \cup (B \ A) = B  OBVIOUS
<1>3. Weight(ms, A) \in Nat /\ Weight(ms, B \ A) \in Nat  BY WeightNat
<1>4. Weight(ms, B) = Weight(ms, A) + Weight(ms, B \ A)  BY <1>1, <1>2
<1>5. QED  BY <1>3, <1>4

LEMMA WeightOfNone ==
  ASSUME NEW ms, Sized(ms)
  PROVE  Weight(ms, {}) = 0
<1>1. Weight(ms, {} \cup {}) = Weight(ms, {}) + Weight(ms, {})  BY WeightAdds
<1>2. {} \cup {} = {}  OBVIOUS
<1>3. PICK w : w = Weight(ms, {})  OBVIOUS
<1>4. w \in Nat  BY <1>3, WeightNat
<1>5. w = w + w  BY <1>1, <1>2, <1>3
<1>6. w = 0  BY <1>4, <1>5
<1>7. QED  BY <1>3, <1>6

LEMMA NothingWeighsNothing ==
  ASSUME NEW ms, NEW S, Sized(ms), S \subseteq 1..Len(ms), S # {}
  PROVE  Weight(ms, S) > 0
<1> DEFINE n == Len(ms)
<1>n. n \in Nat  BY DEF Sized
<1>1. PICK k \in S : TRUE  OBVIOUS
<1>2. k \in 1..n  OBVIOUS
<1>3. PICK g : IsSumOf(g, ms, S)  BY WeightSums
<1> DEFINE T == {i \in 0..n : i >= k => g[i] > 0}
<1>4. 0 \in T  BY <1>2, <1>n
<1>5. ASSUME NEW i \in T, i < n PROVE i + 1 \in T
  <2>1. i \in 0..n /\ i + 1 \in 0..n /\ i + 1 \in 1..n /\ (i + 1) - 1 = i  BY <1>5, <1>n
  <2>2. PICK z : z = ms[i + 1].size  OBVIOUS
  <2>3. z \in Nat \ {0}  BY <2>1, <2>2 DEF Sized
  <2>4. g[i + 1] = g[i] + (IF i + 1 \in S THEN z ELSE 0) /\ g[i] \in Nat
    BY <1>3, <2>1, <2>2 DEF IsSumOf
  <2>5. CASE i + 1 = k
    <3>1. g[i + 1] = g[i] + z  BY <2>4, <2>5, <1>1
    <3>2. g[i + 1] > 0  BY <3>1, <2>3, <2>4
    <3>3. QED  BY <3>2, <2>1
  <2>6. CASE i >= k
    <3>1. g[i] > 0  BY <2>6
    <3>2. g[i + 1] > 0  BY <3>1, <2>3, <2>4
    <3>3. QED  BY <3>2, <2>1
  <2>7. CASE i + 1 < k  BY <2>7, <2>1, <1>2
  <2>8. QED  BY <2>5, <2>6, <2>7, <2>1, <1>2
<1>6. T \subseteq 0..n  OBVIOUS
<1> HIDE DEF T
<1>7. T = 0..n  BY <1>n, <1>4, <1>5, <1>6, UpToInduct
<1>8. n \in T /\ n >= k  BY <1>7, <1>n, <1>2
<1>9. g[n] > 0  BY <1>8 DEF T
<1>10. QED  BY <1>9, <1>3 DEF IsSumOf

-----------------------------------------------------------------------------
(* The messages chosen                                                     *)

\* The chosen messages exist, and are messages.
IsChoiceOf(g, n, ms, S) ==
  g = [i \in 0..n |-> IF i = 0 THEN <<>>
                      ELSE IF i \in S THEN Append(g[i - 1], ms[i]) ELSE g[i - 1]]

LEMMA OnlyUpTo ==
  ASSUME NEW n \in Nat, NEW ms, NEW S
  PROVE  \E g : IsChoiceOf(g, n, ms, S)
<1> DEFINE T == {k \in 0..n : \E g : g = [i \in 0..k |-> IF i = 0 THEN <<>>
                                  ELSE IF i \in S THEN Append(g[i - 1], ms[i]) ELSE g[i - 1]]}
<1>1. 0 \in T
  <2> DEFINE g == [i \in 0..0 |-> <<>>]
  <2>1. g = [i \in 0..0 |-> IF i = 0 THEN <<>>
                  ELSE IF i \in S THEN Append(g[i - 1], ms[i]) ELSE g[i - 1]]  OBVIOUS
  <2> HIDE DEF g
  <2>2. QED  BY <2>1
<1>2. ASSUME NEW k \in T, k < n PROVE k + 1 \in T
  <2>0. k \in 0..n /\ k + 1 \in 0..n  BY <1>2
  <2>1. PICK g : g = [i \in 0..k |-> IF i = 0 THEN <<>>
                         ELSE IF i \in S THEN Append(g[i - 1], ms[i]) ELSE g[i - 1]]
    BY <1>2
  <2>2. PICK new : new = IF k + 1 \in S THEN Append(g[k], ms[k + 1]) ELSE g[k]  OBVIOUS
  <2> DEFINE h == [i \in 0..(k + 1) |-> IF i = k + 1 THEN new ELSE g[i]]
  <2>3. ASSUME NEW i \in 0..(k + 1)
        PROVE  h[i] = IF i = 0 THEN <<>>
                      ELSE IF i \in S THEN Append(h[i - 1], ms[i]) ELSE h[i - 1]
    <3>1. CASE i = k + 1
      <4>1. h[i] = new /\ h[i - 1] = g[k] /\ i # 0  BY <3>1, <2>0
      <4>2. QED  BY <3>1, <4>1, <2>2
    <3>2. CASE i # k + 1
      <4>1. i \in 0..k /\ h[i] = g[i]  BY <3>2, <2>0
      <4>2. i # 0 => h[i - 1] = g[i - 1]  BY <4>1, <2>0
      <4>3. g[i] = IF i = 0 THEN <<>>
                   ELSE IF i \in S THEN Append(g[i - 1], ms[i]) ELSE g[i - 1]  BY <2>1, <4>1
      <4>4. QED  BY <4>1, <4>2, <4>3
    <3>3. QED  BY <3>1, <3>2
  <2>4. h = [i \in 0..(k + 1) |-> IF i = 0 THEN <<>>
                  ELSE IF i \in S THEN Append(h[i - 1], ms[i]) ELSE h[i - 1]]  BY <2>3
  <2> HIDE DEF h
  <2>5. QED  BY <2>0, <2>4
<1>3. T \subseteq 0..n  OBVIOUS
<1> HIDE DEF T
<1>4. T = 0..n  BY <1>1, <1>2, <1>3, UpToInduct
<1>5. n \in T  BY <1>4
<1>6. QED  BY <1>5 DEF T, IsChoiceOf

LEMMA OnlySeq ==
  ASSUME NEW M, NEW ms \in Seq(M), NEW S
  PROVE  Only(ms, S) \in Seq(M)
<1> DEFINE n == Len(ms)
<1>n. n \in Nat  OBVIOUS
<1>0. \E g : IsChoiceOf(g, Len(ms), ms, S)
  <2>1. Len(ms) \in Nat  OBVIOUS
  <2>2. QED  BY <2>1, OnlyUpTo
<1> DEFINE upTo[i \in 0..Len(ms)] == IF i = 0 THEN <<>>
                          ELSE IF i \in S THEN Append(upTo[i - 1], ms[i]) ELSE upTo[i - 1]
<1>a. upTo = [i \in 0..Len(ms) |-> IF i = 0 THEN <<>>
                          ELSE IF i \in S THEN Append(upTo[i - 1], ms[i]) ELSE upTo[i - 1]]
  BY <1>0 DEF IsChoiceOf
<1>b. Only(ms, S) = upTo[Len(ms)]  BY DEF Only
<1> HIDE DEF upTo
<1>1. PICK g : /\ g = [i \in 0..n |-> IF i = 0 THEN <<>>
                          ELSE IF i \in S THEN Append(g[i - 1], ms[i]) ELSE g[i - 1]]
               /\ Only(ms, S) = g[n]
  BY <1>a, <1>b
<1> HIDE DEF n
<1> DEFINE T == {i \in 0..n : g[i] \in Seq(M)}
<1>2. 0 \in T  BY <1>1, <1>n
<1>3. ASSUME NEW i \in T, i < n PROVE i + 1 \in T
  <2>1. i + 1 \in 0..n /\ i + 1 # 0 /\ (i + 1) - 1 = i /\ i + 1 \in 1..n  BY <1>3, <1>n
  <2>2. g[i + 1] = IF i + 1 \in S THEN Append(g[i], ms[i + 1]) ELSE g[i]  BY <1>1, <2>1
  <2>3. g[i] \in Seq(M) /\ ms[i + 1] \in M  BY <1>3, <2>1 DEF n
  <2>4. g[i + 1] \in Seq(M)  BY <2>2, <2>3
  <2>5. QED  BY <2>1, <2>4
<1>4. T \subseteq 0..n  OBVIOUS
<1> HIDE DEF T
<1>5. T = 0..n  BY <1>n, <1>2, <1>3, <1>4, UpToInduct
<1>6. g[n] \in Seq(M)  BY <1>5, <1>n DEF T
<1>7. QED  BY <1>1, <1>6

-----------------------------------------------------------------------------
(* The pass over groups of messages                                        *)

\* A result has the caller that alone has its id; any caller is an assistant message that calls.
LEMMA OwnerOne ==
  ASSUME NEW ms, NEW from \in Nat, NEW j, NEW a \in 1..Len(ms), Len(ms) \in Nat,
         {b \in Callers(ms, from) : IdsOf(ms[j]) \subseteq IdsOf(ms[b])} = {a}
  PROVE  Owner(ms, from, j) = a
<1>1. PICK A : A = {b \in Callers(ms, from) : IdsOf(ms[j]) \subseteq IdsOf(ms[b])}  OBVIOUS
<1>2. A \subseteq 0..Len(ms) /\ A # {} /\ A = {a}  BY <1>1
<1>3. Max(A) = a  BY <1>2, MaxIn
<1>4. Owner(ms, from, j) = Max(A)  BY <1>1, <1>2 DEF Owner
<1>5. QED  BY <1>3, <1>4

LEMMA OwnerType ==
  ASSUME NEW ms, NEW from \in Nat, NEW j, Len(ms) \in Nat
  PROVE  Owner(ms, from, j) \in Callers(ms, from) \cup {0}
<1>1. PICK A : A = {b \in Callers(ms, from) : IdsOf(ms[j]) \subseteq IdsOf(ms[b])}  OBVIOUS
<1>2. A \subseteq 0..Len(ms)  BY <1>1 DEF Callers, Indices
<1>3. CASE A # {}
  <2>1. Max(A) \in A  BY <1>2, <1>3, MaxIn
  <2>2. Owner(ms, from, j) = Max(A)  BY <1>1, <1>3 DEF Owner
  <2>3. QED  BY <2>1, <2>2, <1>1
<1>4. CASE A = {}
  <2>1. Owner(ms, from, j) = IF j - 1 \in Callers(ms, from) THEN j - 1 ELSE 0  BY <1>1, <1>4 DEF Owner
  <2>2. QED  BY <2>1
<1>5. QED  BY <1>3, <1>4

\* The results and their callers.
Owners(ms, from) == [j \in Indices(ms, "tool") |-> Owner(ms, from, j)]

\* What message i decides, after acc.
Decides(ms, from, room, i, acc) ==
  LET g == Group(ms, from, Owners(ms, from), i)
      fits == g # {} /\ Weight(ms, acc.keep \cup g) <= room
  IN  IF ms[i].role = "user" \/ i \in acc.done THEN acc
      ELSE [done |-> acc.done \cup g,
            keep |-> IF fits THEN acc.keep \cup g ELSE acc.keep]

IsPass(p, ms, from, room, first) ==
  p = [i \in first..(Len(ms) + 1) |->
         IF i > Len(ms) THEN [done |-> {}, keep |-> {}]
         ELSE Decides(ms, from, room, i, p[i + 1])]

\* The pass over the messages exists, and Fit is what it keeps.
LEMMA PassExists ==
  ASSUME NEW ms, NEW from, NEW room, Len(ms) \in Nat, NEW first \in 0..(Len(ms) + 1)
  PROVE  \E p : IsPass(p, ms, from, room, first)
<1> DEFINE n == Len(ms) + 1
           T == {k \in 0..n : \E p : IsPass(p, ms, from, room, n - k)}
<1>n. n \in Nat /\ Len(ms) < n  OBVIOUS
<1>1. 0 \in T
  <2> DEFINE p == [i \in n..n |-> [done |-> {}, keep |-> {}]]
  <2>1. p = [i \in n..n |-> IF i > Len(ms) THEN [done |-> {}, keep |-> {}]
                              ELSE Decides(ms, from, room, i, p[i + 1])]
    OBVIOUS
  <2>2. n - 0 = n  BY <1>n
  <2> HIDE DEF p
  <2>3. QED  BY <1>n, <2>1, <2>2 DEF IsPass
<1>2. ASSUME NEW k \in T, k < n PROVE k + 1 \in T
  <2>0. k \in 0..n /\ k + 1 \in 0..n  BY <1>2, <1>n
  <2>1. PICK p : IsPass(p, ms, from, room, n - k)  BY <1>2
  <2>2. PICK m \in Nat : m = n - (k + 1)  BY <2>0, <1>n
  <2>3. n - k = m + 1 /\ m < n /\ m <= Len(ms) /\ m \in Nat  BY <2>0, <2>2, <1>n
  <2>4. PICK new : new = Decides(ms, from, room, m, p[m + 1])  OBVIOUS
  <2> DEFINE q == [i \in m..n |-> IF i = m THEN new ELSE p[i]]
  <2> HIDE DEF n
  <2>5. ASSUME NEW i \in m..n
        PROVE  q[i] = IF i > Len(ms) THEN [done |-> {}, keep |-> {}]
                      ELSE Decides(ms, from, room, i, q[i + 1])
    <3>1. CASE i = m
      <4>1. m + 1 \in m..n /\ m + 1 # m /\ ~(m > Len(ms)) /\ m \in m..n  BY <2>3, <1>n
      <4>2. q[i] = new /\ q[i + 1] = p[m + 1]  BY <3>1, <4>1
      <4>3. QED  BY <3>1, <4>1, <4>2, <2>4
    <3>2. CASE i # m
      <4>1. i \in (m + 1)..n /\ q[i] = p[i]  BY <3>2, <2>3, <1>n
      <4>2. ~(i > Len(ms)) => i + 1 \in m..n /\ i + 1 # m  BY <4>1, <2>3, <1>n DEF n
      <4>3. ~(i > Len(ms)) => q[i + 1] = p[i + 1]  BY <4>2
      <4>4. p[i] = IF i > Len(ms) THEN [done |-> {}, keep |-> {}]
                   ELSE Decides(ms, from, room, i, p[i + 1])
        BY <2>1, <2>3, <4>1 DEF IsPass, n
      <4>5. QED  BY <4>1, <4>3, <4>4
    <3>3. QED  BY <3>1, <3>2
  <2>6. q = [i \in m..n |-> IF i > Len(ms) THEN [done |-> {}, keep |-> {}]
                            ELSE Decides(ms, from, room, i, q[i + 1])]
    BY <2>5
  <2> HIDE DEF q
  <2>7. IsPass(q, ms, from, room, m)  BY <2>6 DEF IsPass, n
  <2>8. QED  BY <2>0, <2>2, <2>7 DEF n
<1>3. T \subseteq 0..n  OBVIOUS
<1> HIDE DEF T, n
<1>4. T = 0..n  BY <1>n, <1>1, <1>2, <1>3, UpToInduct
<1>5. PICK k \in 0..n : n - k = first
  <2>1. n - first \in 0..n /\ n - (n - first) = first  BY <1>n DEF n
  <2>2. QED  BY <2>1
<1>6. QED  BY <1>4, <1>5 DEF T

LEMMA FitIs ==
  ASSUME NEW ms, NEW room, Len(ms) \in Nat, NEW from \in 0..(Len(ms) + 1)
  PROVE  \E p : IsPass(p, ms, from, room, from) /\ Fit(ms, from, room) = p[from].keep
<1>0. \E p : IsPass(p, ms, from, room, from)  BY PassExists
<1> DEFINE owner == [j \in Indices(ms, "tool") |-> Owner(ms, from, j)]
           passed[i \in from..(Len(ms) + 1)] ==
            IF i > Len(ms) THEN [done |-> {}, keep |-> {}]
            ELSE LET acc == passed[i + 1]
                     g == Group(ms, from, owner, i)
                     fits == g # {} /\ Weight(ms, acc.keep \cup g) <= room
                 IN  IF ms[i].role = "user" \/ i \in acc.done THEN acc
                     ELSE [done |-> acc.done \cup g,
                           keep |-> IF fits THEN acc.keep \cup g ELSE acc.keep]
<1>1. IsPass(passed, ms, from, room, from)  BY <1>0 DEF IsPass, Decides, Owners
<1>2. Fit(ms, from, room) = passed[from].keep  BY DEF Fit
<1> HIDE DEF passed
<1>3. QED  BY <1>1, <1>2

\* Message j is a result that the rewriter takes for one of message a's calls.
Joined(ms, from, a, j) ==
  /\ j \in Indices(ms, "tool") /\ j >= from
  /\ a \in Callers(ms, from) /\ Owner(ms, from, j) = a

\* A group has a call with all its results or has nothing of them, and has no question.
LEMMA GroupWhole ==
  ASSUME NEW ms, Len(ms) \in Nat, NEW from \in Nat, from >= 1,
         NEW i \in from..Len(ms), ms[i].role # "user",
         NEW g, g = Group(ms, from, Owners(ms, from), i)
  PROVE  /\ g \subseteq from..Len(ms) /\ \A k \in g : ms[k].role # "user"
         /\ \A a, j : Joined(ms, from, a, j) => (a \in g <=> j \in g)
<1>1. PICK caller : caller = IF ms[i].role = "tool" THEN Owners(ms, from)[i] ELSE i  OBVIOUS
<1>2. PICK answers : answers = {j \in DOMAIN Owners(ms, from) : j >= from /\ Owners(ms, from)[j] = caller}
  OBVIOUS
<1>3. g = CASE caller = 0 -> {}
            [] caller \in Callers(ms, from) /\ answers = {} -> {}
            [] caller \in Callers(ms, from) /\ answers # {} -> {caller} \cup answers
            [] OTHER -> {i}
  BY <1>1, <1>2 DEF Group
<1>4. DOMAIN Owners(ms, from) = Indices(ms, "tool")
      /\ \A j \in Indices(ms, "tool") : Owners(ms, from)[j] = Owner(ms, from, j)
  BY DEF Owners
<1>5. answers = {j \in Indices(ms, "tool") : j >= from /\ Owner(ms, from, j) = caller}
  BY <1>2, <1>4
<1>6. i \in 1..Len(ms)  OBVIOUS
<1>7. ms[i].role = "tool" => i \in Indices(ms, "tool")  BY <1>6 DEF Indices
<1>8. caller # 0 => caller \in Callers(ms, from) \/ (ms[i].role # "tool" /\ caller = i)
  <2>1. CASE ms[i].role = "tool"
    <3>1. caller = Owner(ms, from, i)  BY <2>1, <1>1, <1>4, <1>7
    <3>2. QED  BY <3>1, OwnerType
  <2>2. CASE ms[i].role # "tool"  BY <2>2, <1>1
  <2>3. QED  BY <2>1, <2>2
<1>9. \A a \in Callers(ms, from) : a \in from..Len(ms) /\ ms[a].role = "assistant" /\ a # 0
  BY DEF Callers, Indices
<1>10. \A j \in Indices(ms, "tool") : j \in 1..Len(ms) /\ ms[j].role = "tool"  BY DEF Indices
<1>11. CASE g = {}  BY <1>11
<1>12. CASE caller \in Callers(ms, from) /\ g = {caller} \cup answers
  <2>1. g \subseteq from..Len(ms) /\ \A k \in g : ms[k].role # "user"
    BY <1>12, <1>5, <1>9, <1>10
  <2>2. ASSUME NEW a, NEW j, Joined(ms, from, a, j) PROVE a \in g <=> j \in g
    <3>1. ms[a].role = "assistant" /\ ms[j].role = "tool"  BY <2>2, <1>9, <1>10 DEF Joined
    <3>2. a \in g <=> a = caller  BY <3>1, <1>12, <1>5, <1>10
    <3>3. j \in g <=> Owner(ms, from, j) = caller  BY <3>1, <1>12, <1>5, <1>9, <2>2 DEF Joined
    <3>4. QED  BY <3>2, <3>3, <2>2 DEF Joined
  <2>3. QED  BY <2>1, <2>2
<1>13. CASE g = {i} /\ caller # 0 /\ caller \notin Callers(ms, from)
  <2>1. ms[i].role # "tool" /\ caller = i  BY <1>8, <1>13
  <2>2. ASSUME NEW a, NEW j, Joined(ms, from, a, j) PROVE a \notin g /\ j \notin g
    BY <2>1, <2>2, <1>13, <1>10 DEF Joined
  <2>3. QED  BY <2>2, <1>13
<1>14. QED  BY <1>3, <1>11, <1>12, <1>13

\* So has what the pass keeps, which weighs no more than the room.
LEMMA FitInv ==
  ASSUME NEW ms, Sized(ms), NEW from \in Nat, from >= 1, from <= Len(ms) + 1, NEW room \in Nat,
         NEW p, IsPass(p, ms, from, room, from), NEW i \in from..(Len(ms) + 1)
  PROVE  /\ p[i].keep \subseteq p[i].done /\ p[i].done \subseteq from..Len(ms)
         /\ \A k \in p[i].done : ms[k].role # "user"
         /\ Weight(ms, p[i].keep) <= room
         /\ \A a, j : Joined(ms, from, a, j) =>
              (a \in p[i].done <=> j \in p[i].done) /\ (a \in p[i].keep <=> j \in p[i].keep)
<1> DEFINE n == Len(ms) + 1
           Good(acc) ==
             /\ acc.keep \subseteq acc.done /\ acc.done \subseteq from..Len(ms)
             /\ \A k \in acc.done : ms[k].role # "user"
             /\ Weight(ms, acc.keep) <= room
             /\ \A a, j : Joined(ms, from, a, j) =>
                  (a \in acc.done <=> j \in acc.done) /\ (a \in acc.keep <=> j \in acc.keep)
           T == {k \in from..n : Good(p[k])}
<1>n. Len(ms) \in Nat /\ n \in Nat /\ from <= n  BY DEF Sized
<1>1. n \in T
  <2>1. p[n] = [done |-> {}, keep |-> {}]
    <3>1. n \in from..n /\ n > Len(ms)  BY <1>n
    <3>2. QED  BY <3>1 DEF IsPass
  <2>2. p[n].done = {} /\ p[n].keep = {}  BY <2>1
  <2>3. Weight(ms, {}) <= room
    <3>1. Weight(ms, {}) = 0  BY WeightOfNone
    <3>2. 0 <= room  OBVIOUS
    <3>3. QED  BY <3>1, <3>2
  <2>4. Weight(ms, p[n].keep) <= room  BY <2>2, <2>3
  <2>5. Good(p[n])  BY <2>2, <2>4
  <2>6. n \in from..n  BY <1>n
  <2>7. QED  BY <2>5, <2>6
<1>2. ASSUME NEW k \in T, k > from PROVE k - 1 \in T
  <2>1. PICK m : m = k - 1  OBVIOUS
  <2>2. m \in from..Len(ms) /\ m + 1 = k /\ m \in from..n /\ ~(m > Len(ms))
    BY <1>2, <1>n, <2>1
  <2>3. PICK acc : acc = p[m + 1]  OBVIOUS
  <2>4. Good(acc)  BY <1>2, <2>2, <2>3
  <2>5. p[m] = Decides(ms, from, room, m, acc)  BY <2>2, <2>3 DEF IsPass
  <2>6. PICK g : g = Group(ms, from, Owners(ms, from), m)  OBVIOUS
  <2>7. CASE ms[m].role = "user" \/ m \in acc.done
    <3>1. p[m] = acc  BY <2>5, <2>7 DEF Decides
    <3>2. QED  BY <3>1, <2>4, <2>2, <2>1
  <2>8. CASE ~(ms[m].role = "user" \/ m \in acc.done)
    <3>1. /\ g \subseteq from..Len(ms) /\ \A x \in g : ms[x].role # "user"
          /\ \A a, j : Joined(ms, from, a, j) => (a \in g <=> j \in g)
      BY <2>2, <2>6, <2>8, <1>n, GroupWhole
    <3>2. PICK keep : keep = IF g # {} /\ Weight(ms, acc.keep \cup g) <= room
                             THEN acc.keep \cup g ELSE acc.keep
      OBVIOUS
    <3>3. p[m] = [done |-> acc.done \cup g, keep |-> keep]
      BY <2>5, <2>6, <2>8, <3>2 DEF Decides
    <3>4. p[m].done = acc.done \cup g /\ p[m].keep = keep  BY <3>3
    <3>5. keep = acc.keep \/ keep = acc.keep \cup g  BY <3>2
    <3>6. Weight(ms, keep) <= room  BY <3>2, <2>4
    <3>7. keep \subseteq acc.done \cup g /\ acc.done \cup g \subseteq from..Len(ms)
      BY <3>1, <3>5, <2>4
    <3>8. \A x \in acc.done \cup g : ms[x].role # "user"  BY <3>1, <2>4
    <3>9. ASSUME NEW a, NEW j, Joined(ms, from, a, j)
          PROVE  (a \in acc.done \cup g <=> j \in acc.done \cup g) /\ (a \in keep <=> j \in keep)
      BY <3>1, <3>5, <3>9, <2>4
    <3>10. Good(p[m])  BY <3>4, <3>6, <3>7, <3>8, <3>9
    <3>11. QED  BY <3>10, <2>2, <2>1
  <2>9. QED  BY <2>7, <2>8
<1>3. T \subseteq from..n  OBVIOUS
<1> HIDE DEF T
<1>4. T = from..n  BY <1>n, <1>1, <1>2, <1>3, DownInduct
<1>5. QED  BY <1>4 DEF T

\* What the pass has kept stays kept.
LEMMA PassKeeps ==
  ASSUME NEW ms, Len(ms) \in Nat, NEW room, NEW from \in Nat, from <= Len(ms),
         NEW p, IsPass(p, ms, from, room, from), NEW k \in from..Len(ms)
  PROVE  p[k].keep \subseteq p[from].keep
<1> DEFINE T == {m \in from..k : p[k].keep \subseteq p[m].keep}
<1>1. k \in T /\ k \in Nat /\ from <= k /\ T \subseteq from..k  OBVIOUS
<1>2. ASSUME NEW m \in T, m > from PROVE m - 1 \in T
  <2>1. PICK l : l = m - 1  OBVIOUS
  <2>2. l \in from..(Len(ms) + 1) /\ ~(l > Len(ms)) /\ l + 1 = m /\ l \in from..k
    BY <1>2, <2>1
  <2>3. p[l] = Decides(ms, from, room, l, p[m])  BY <2>2 DEF IsPass
  <2>4. p[m].keep \subseteq p[l].keep
    <3>1. PICK acc : acc = p[m]  OBVIOUS
    <3>2. PICK g : g = Group(ms, from, Owners(ms, from), l)  OBVIOUS
    <3>3. PICK fits \in BOOLEAN : fits <=> g # {} /\ Weight(ms, acc.keep \cup g) <= room  OBVIOUS
    <3>4. CASE ms[l].role = "user" \/ l \in acc.done
      <4>1. p[l] = acc  BY <2>3, <3>1, <3>4 DEF Decides
      <4>2. QED  BY <3>1, <4>1
    <3>5. CASE ~(ms[l].role = "user" \/ l \in acc.done)
      <4>1. PICK keep : keep = IF g # {} /\ Weight(ms, acc.keep \cup g) <= room
                               THEN acc.keep \cup g ELSE acc.keep  OBVIOUS
      <4>2. p[l] = [done |-> acc.done \cup g, keep |-> keep]
        BY <2>3, <3>1, <3>2, <3>5, <4>1 DEF Decides
      <4>3. p[l].keep = keep  BY <4>2
      <4>4. QED  BY <3>1, <4>1, <4>3
    <3>6. QED  BY <3>4, <3>5
  <2>5. p[k].keep \subseteq p[m].keep  BY <1>2
  <2>6. QED  BY <2>1, <2>2, <2>4, <2>5
<1> HIDE DEF T
<1>3. T = from..k  BY <1>1, <1>2, DownInduct
<1>4. from \in T  BY <1>1, <1>3
<1>5. QED  BY <1>4 DEF T

-----------------------------------------------------------------------------
(* What survives                                                           *)

\* The first message kept is a question: the last one, or the oldest that fits with the newer ones.
LEMMA FirstKeptIs ==
  ASSUME NEW ms, Sized(ms), NEW budget \in Nat,
         NEW users, users = UserMessages(ms), users # {}
  PROVE  /\ Max(users) \in users /\ \A i \in users : i <= Max(users)
         /\ FirstKept(ms, budget) \in users
         /\ \/ FirstKept(ms, budget) = Max(users)
            \/ Weight(ms, {j \in users : j >= FirstKept(ms, budget)}) <= budget
         /\ \A i \in users : Weight(ms, {j \in users : j >= i}) <= budget
                             => FirstKept(ms, budget) <= i
<1>1. Len(ms) \in Nat /\ users \subseteq 1..Len(ms)  BY DEF Sized, UserMessages, Indices
<1>2. 1..Len(ms) \subseteq 0..Len(ms) /\ 1..Len(ms) \subseteq Nat  OBVIOUS
<1>3. Max(users) \in users /\ \A i \in users : i <= Max(users)  BY <1>1, <1>2, MaxIn
<1>4. PICK F : F = {Max(users)} \cup {i \in users : Weight(ms, {j \in users : j >= i}) <= budget}
  OBVIOUS
<1>5. F \subseteq users /\ F # {} /\ F \subseteq Nat  BY <1>1, <1>2, <1>3, <1>4
<1>6. Min(F) \in F /\ \A x \in F : Min(F) <= x  BY <1>5, MinIn
<1>7. FirstKept(ms, budget) = Min(F)  BY <1>4 DEF FirstKept
<1>8. QED  BY <1>3, <1>4, <1>5, <1>6, <1>7

LEMMA FirstKeptIn ==
  ASSUME NEW ms, Sized(ms), NEW budget \in Nat
  PROVE  /\ FirstKept(ms, budget) \in Nat
         /\ FirstKept(ms, budget) >= 1 /\ FirstKept(ms, budget) <= Len(ms) + 1
<1>1. Len(ms) \in Nat  BY DEF Sized
<1>2. PICK users : users = UserMessages(ms)  OBVIOUS
<1>3. users \subseteq 1..Len(ms)  BY <1>2 DEF UserMessages, Indices
<1>4. CASE users = {}
  <2>1. FirstKept(ms, budget) = 1  BY <1>2, <1>4 DEF FirstKept
  <2>2. QED  BY <1>1, <2>1
<1>5. CASE users # {}
  <2>1. PICK from : from = FirstKept(ms, budget)  OBVIOUS
  <2>2. from \in users  BY <1>2, <1>5, <2>1, FirstKeptIs
  <2>3. from \in Nat /\ from >= 1 /\ from <= Len(ms) + 1  BY <1>1, <1>3, <2>2
  <2>4. QED  BY <2>1, <2>3
<1>6. QED  BY <1>4, <1>5

\* The room for the rest is what the questions leave of the budget.
LEMMA RoomIs ==
  ASSUME NEW ms, Sized(ms), NEW users, NEW budget \in Nat
  PROVE  /\ Room(ms, users, budget) \in Nat
         /\ Weight(ms, users) <= budget => Weight(ms, users) + Room(ms, users, budget) = budget
         /\ Weight(ms, users) > budget => Room(ms, users, budget) = 0
<1>1. PICK used : used = Weight(ms, users)  OBVIOUS
<1>2. used \in Nat  BY <1>1, WeightNat
<1>3. Room(ms, users, budget) = IF used < budget THEN budget - used ELSE 0  BY <1>1 DEF Room
<1>4. CASE used < budget  BY <1>1, <1>2, <1>3, <1>4
<1>5. CASE ~(used < budget)  BY <1>1, <1>2, <1>3, <1>5
<1>6. QED  BY <1>4, <1>5

\* What the rewriter keeps of a conversation that does not fit: the users' messages from
\* some point on, and as much of the rest as has room.
LEMMA SurvivorsAre ==
  ASSUME NEW ms, Sized(ms), NEW budget \in Nat, ~(Weight(ms, 1..Len(ms)) <= budget),
         NEW from, from = FirstKept(ms, budget),
         NEW users, users = {i \in UserMessages(ms) : i >= from},
         NEW room, room = Room(ms, users, budget),
         NEW rest, rest = Fit(ms, from, room)
  PROVE  /\ Survivors(ms, budget) = users \cup rest
         /\ rest \subseteq from..Len(ms)
         /\ \A k \in rest : ms[k].role # "user"
         /\ Weight(ms, rest) <= room
         /\ \A a, j : Joined(ms, from, a, j) => (a \in rest <=> j \in rest)
<1>1. Len(ms) \in Nat  BY DEF Sized
<1>2. from \in Nat /\ from >= 1 /\ from <= Len(ms) + 1  BY FirstKeptIn
<1>4. room \in Nat  BY RoomIs
<1>5. from \in 0..(Len(ms) + 1) /\ from \in from..(Len(ms) + 1)  BY <1>1, <1>2
<1>6. PICK p : IsPass(p, ms, from, room, from) /\ Fit(ms, from, room) = p[from].keep
  <2>1. from \in 0..(Len(ms) + 1)  BY <1>5
  <2>2. QED  BY ONLY <1>1, <2>1, FitIs
<1>7. /\ p[from].keep \subseteq p[from].done /\ p[from].done \subseteq from..Len(ms)
      /\ \A k \in p[from].done : ms[k].role # "user"
      /\ Weight(ms, p[from].keep) <= room
      /\ \A a, j : Joined(ms, from, a, j) =>
           (a \in p[from].done <=> j \in p[from].done) /\ (a \in p[from].keep <=> j \in p[from].keep)
  BY <1>2, <1>4, <1>5, <1>6, FitInv
<1>9. Survivors(ms, budget) = users \cup rest  BY DEF Survivors
<1>10. rest \subseteq from..Len(ms) /\ \A k \in rest : ms[k].role # "user"  BY <1>6, <1>7
<1>11. Weight(ms, rest) <= room  BY <1>6, <1>7
<1>12. \A a, j : Joined(ms, from, a, j) => (a \in rest <=> j \in rest)  BY <1>6, <1>7
<1>13. QED  BY <1>9, <1>10, <1>11, <1>12

\* compressMessages fits the budget, or keeps the last question alone.
LEMMA BudgetHolds ==
  ASSUME NEW ms, Sized(ms), NEW budget \in Nat
  PROVE  \/ Weight(ms, Survivors(ms, budget)) <= budget
         \/ Survivors(ms, budget) = {Max(UserMessages(ms))}
<1>1. Len(ms) \in Nat  BY DEF Sized
<1>2. CASE Weight(ms, 1..Len(ms)) <= budget  BY <1>2 DEF Survivors
<1>3. CASE ~(Weight(ms, 1..Len(ms)) <= budget)
  <2>1. PICK from : from = FirstKept(ms, budget)  OBVIOUS
  <2>2. PICK users : users = {i \in UserMessages(ms) : i >= from}  OBVIOUS
  <2>10. PICK room : room = Room(ms, users, budget)  OBVIOUS
  <2>a. PICK rest : rest = Fit(ms, from, room)  OBVIOUS
  <2>3. /\ Survivors(ms, budget) = users \cup rest
        /\ rest \subseteq from..Len(ms)
        /\ \A k \in rest : ms[k].role # "user"
        /\ Weight(ms, rest) <= room
    BY <1>3, <2>1, <2>2, <2>10, <2>a, SurvivorsAre
  <2>4. from \in Nat /\ from >= 1  BY <2>1, FirstKeptIn
  <2>5. users \cap rest = {}  BY <2>2, <2>3 DEF UserMessages, Indices
  <2>6. Weight(ms, users \cup rest) = Weight(ms, users) + Weight(ms, rest)  BY <2>5, WeightAdds
  <2>7. PICK u : u = Weight(ms, users)  OBVIOUS
  <2>8. PICK r : r = Weight(ms, rest)  OBVIOUS
  <2>9. u \in Nat /\ r \in Nat  BY <2>7, <2>8, WeightNat
  <2>11. room \in Nat /\ (u <= budget => u + room = budget) /\ (u > budget => room = 0)
    BY <2>7, <2>10, RoomIs
  <2>12. r <= room  BY <2>3, <2>8, <2>10
  <2>13. CASE u <= budget
    <3>1. u + r <= budget  BY <2>9, <2>11, <2>12, <2>13
    <3>2. QED  BY <3>1, <2>3, <2>6, <2>7, <2>8
  <2>14. CASE ~(u <= budget)
    <3>1. r = 0  BY <2>9, <2>11, <2>12, <2>14
    <3>2. rest = {}
      <4>1. rest \subseteq 1..Len(ms)  BY <2>3, <2>4
      <4>2. rest # {} => r > 0  BY <4>1, <2>8, NothingWeighsNothing
      <4>3. QED  BY <3>1, <4>2
    <3>3. PICK all : all = UserMessages(ms)  OBVIOUS
    <3>4. all # {}
      <4>1. CASE all = {}
        <5>1. users = {}  BY <4>1, <3>3, <2>2
        <5>2. u = 0  BY <5>1, <2>7, WeightOfNone
        <5>3. QED  BY <5>2, <2>14
      <4>2. QED  BY <4>1
    <3>5. /\ Max(all) \in all /\ \A i \in all : i <= Max(all)
          /\ from \in all
          /\ from = Max(all) \/ Weight(ms, {j \in all : j >= from}) <= budget
      BY <3>3, <3>4, <2>1, FirstKeptIs
    <3>6. from = Max(all)
      <4>1. {j \in all : j >= from} = users  BY <3>3, <2>2
      <4>2. QED  BY <4>1, <3>5, <2>7, <2>14
    <3>7. all \subseteq Nat  BY <1>1, <3>3 DEF UserMessages, Indices
    <3>8. users = {from}
      <4>1. \A i \in all : i >= from => i = from  BY <3>5, <3>6, <3>7
      <4>2. from >= from  BY <2>4
      <4>3. QED  BY <4>1, <4>2, <3>3, <3>5, <2>2
    <3>9. QED  BY <3>2, <3>3, <3>6, <3>8, <2>3
  <2>15. QED  BY <2>13, <2>14
<1>4. QED  BY <1>2, <1>3

\* The last question survives, a question survives with all newer ones, and one that does
\* not is too much together with them.
LEMMA QuestionsKept ==
  ASSUME NEW ms, Sized(ms), NEW budget \in Nat, NEW all, all = UserMessages(ms),
         NEW q \in all
  PROVE  /\ q = Max(all) => q \in Survivors(ms, budget)
         /\ q \in Survivors(ms, budget) => {j \in all : j >= q} \subseteq Survivors(ms, budget)
         /\ q \notin Survivors(ms, budget) => Weight(ms, {j \in all : j >= q}) > budget
<1>1. Len(ms) \in Nat /\ all \subseteq 1..Len(ms)  BY DEF Sized, UserMessages, Indices
<1>2. CASE Weight(ms, 1..Len(ms)) <= budget
  <2>1. Survivors(ms, budget) = 1..Len(ms)  BY <1>2 DEF Survivors
  <2>2. QED  BY <1>1, <2>1
<1>3. CASE ~(Weight(ms, 1..Len(ms)) <= budget)
  <2>1. PICK from : from = FirstKept(ms, budget)  OBVIOUS
  <2>2. PICK users : users = {i \in all : i >= from}  OBVIOUS
  <2>3. PICK rest : Survivors(ms, budget) = users \cup rest /\ \A k \in rest : ms[k].role # "user"
    <3>1. PICK room : room = Room(ms, users, budget)  OBVIOUS
    <3>2. PICK rest : rest = Fit(ms, from, room)  OBVIOUS
    <3>3. users = {i \in UserMessages(ms) : i >= from}  BY <2>2
    <3>4. Survivors(ms, budget) = users \cup rest /\ \A k \in rest : ms[k].role # "user"
      BY <1>3, <2>1, <3>1, <3>2, <3>3, SurvivorsAre
    <3>5. QED  BY <3>4
  <2>4. /\ Max(all) \in all /\ \A k \in all : k <= Max(all)
        /\ from \in all
        /\ \A k \in all : Weight(ms, {j \in all : j >= k}) <= budget => from <= k
    BY <2>1, FirstKeptIs
  <2>5. \A k \in all : ms[k].role = "user" /\ k \in Nat  BY <1>1 DEF UserMessages, Indices
  <2>6. \A k \in all : k \in Survivors(ms, budget) <=> k >= from  BY <2>2, <2>3, <2>5
  <2>7. PICK w : w = Weight(ms, {j \in all : j >= q})  OBVIOUS
  <2>8. w \in Nat  BY <2>7, WeightNat
  <2>9. q = Max(all) => q \in Survivors(ms, budget)  BY <2>4, <2>5, <2>6
  <2>10. ASSUME q \in Survivors(ms, budget), NEW j \in all, j >= q PROVE j \in Survivors(ms, budget)
    <3>1. q \in Nat /\ j \in Nat /\ from \in Nat /\ q >= from  BY <2>4, <2>5, <2>6, <2>10
    <3>2. j >= from  BY <3>1, <2>10
    <3>3. QED  BY <3>2, <2>6
  <2>11. ASSUME q \notin Survivors(ms, budget) PROVE w > budget
    <3>1. ~(q >= from) /\ q \in Nat /\ from \in Nat  BY <2>4, <2>5, <2>6, <2>11
    <3>2. ~(from <= q)  BY <3>1
    <3>3. ~(w <= budget)  BY <3>2, <2>4, <2>7
    <3>4. QED  BY <3>3, <2>8
  <2>12. QED  BY <2>7, <2>9, <2>10, <2>11
<1>4. QED  BY <1>2, <1>3

\* A call and its result survive together.
LEMMA WholeExchange ==
  ASSUME NEW ms, Sized(ms), NEW budget \in Nat,
         NEW c \in 1..Len(ms), NEW j \in Indices(ms, "tool"),
         \A x \in 1..Len(ms) : x = c <=> ms[x].role = "assistant" /\ IdsOf(ms[j]) \subseteq IdsOf(ms[x]),
         ms[c].ids # <<>>,
         \A k \in UserMessages(ms) : k <= c <=> k <= j
  PROVE  c \in Survivors(ms, budget) <=> j \in Survivors(ms, budget)
<1>1. Len(ms) \in Nat /\ j \in 1..Len(ms) /\ ms[j].role = "tool" /\ ms[c].role = "assistant"
  BY DEF Sized, Indices
<1>2. CASE Weight(ms, 1..Len(ms)) <= budget
  <2>1. Survivors(ms, budget) = 1..Len(ms)  BY <1>2 DEF Survivors
  <2>2. QED  BY <1>1, <2>1
<1>3. CASE ~(Weight(ms, 1..Len(ms)) <= budget)
  <2>1. PICK from : from = FirstKept(ms, budget)  OBVIOUS
  <2>2. PICK users : users = {i \in UserMessages(ms) : i >= from}  OBVIOUS
  <2>3. PICK room : room = Room(ms, users, budget)  OBVIOUS
  <2>4. PICK rest : rest = Fit(ms, from, room)  OBVIOUS
  <2>5. /\ Survivors(ms, budget) = users \cup rest
        /\ rest \subseteq from..Len(ms)
        /\ \A a, k : Joined(ms, from, a, k) => (a \in rest <=> k \in rest)
    BY <1>3, <2>1, <2>2, <2>3, <2>4, SurvivorsAre
  <2>6. from \in Nat /\ from >= 1  BY <2>1, FirstKeptIn
  <2>7. c \notin users /\ j \notin users  BY <1>1, <2>2 DEF UserMessages, Indices
  <2>8. from <= c <=> from <= j
    <3>1. CASE UserMessages(ms) = {}
      <4>1. from = 1  BY <2>1, <3>1 DEF FirstKept
      <4>2. QED  BY <4>1, <1>1
    <3>2. CASE UserMessages(ms) # {}
      <4>1. from \in UserMessages(ms)  BY <2>1, <3>2, FirstKeptIs
      <4>2. QED  BY <4>1
    <3>3. QED  BY <3>1, <3>2
  <2>9. CASE ~(from <= c)
    <3>1. c \notin rest /\ j \notin rest  BY <1>1, <2>5, <2>6, <2>8, <2>9
    <3>2. QED  BY <2>5, <2>7, <3>1
  <2>10. CASE from <= c
    <3>1. c \in Callers(ms, from)  BY <1>1, <2>6, <2>10 DEF Callers, Indices
    <3>2. \A b \in Callers(ms, from) : b \in 1..Len(ms) /\ ms[b].role = "assistant"
      BY DEF Callers, Indices
    <3>3. {b \in Callers(ms, from) : IdsOf(ms[j]) \subseteq IdsOf(ms[b])} = {c}
      BY <3>1, <3>2
    <3>4. Owner(ms, from, j) = c  BY <1>1, <2>6, <3>3, OwnerOne
    <3>5. j >= from  BY <1>1, <2>6, <2>8, <2>10
    <3>6. Joined(ms, from, c, j)  BY <3>1, <3>4, <3>5 DEF Joined
    <3>7. QED  BY <2>5, <2>7, <3>6
  <2>11. QED  BY <2>9, <2>10
<1>4. QED  BY <1>2, <1>3

\* The last call with all its results survives if there is room for it: it is the first
\* group the pass meets.
LEMMA NewestExchange ==
  ASSUME NEW ms, Sized(ms), NEW budget \in Nat, NEW c \in 1..Len(ms), c < Len(ms),
         ms[c].role = "assistant", ms[c].ids # <<>>,
         \A k \in (c + 1)..Len(ms) : ms[k].role = "tool",
         \A k \in Indices(ms, "tool") : k > c <=> IdsOf(ms[k]) \subseteq IdsOf(ms[c]),
         \A x \in 1..Len(ms) : \A k \in (c + 1)..Len(ms) :
           ms[x].role = "assistant" /\ IdsOf(ms[k]) \subseteq IdsOf(ms[x]) => x = c,
         Weight(ms, (c..Len(ms)) \cup (Survivors(ms, budget) \cap UserMessages(ms))) <= budget
  PROVE  c..Len(ms) \subseteq Survivors(ms, budget)
<1>1. Len(ms) \in Nat  BY DEF Sized
<1>2. CASE Weight(ms, 1..Len(ms)) <= budget
  <2>1. Survivors(ms, budget) = 1..Len(ms)  BY <1>2 DEF Survivors
  <2>2. QED  BY <1>1, <2>1
<1>3. CASE ~(Weight(ms, 1..Len(ms)) <= budget)
  <2>1. PICK from : from = FirstKept(ms, budget)  OBVIOUS
  <2>2. PICK users : users = {i \in UserMessages(ms) : i >= from}  OBVIOUS
  <2>3. PICK room : room = Room(ms, users, budget)  OBVIOUS
  <2>4. PICK rest : rest = Fit(ms, from, room)  OBVIOUS
  <2>5. /\ Survivors(ms, budget) = users \cup rest
        /\ \A k \in rest : ms[k].role # "user"
    BY <1>3, <2>1, <2>2, <2>3, <2>4, SurvivorsAre
  <2>6. from \in Nat /\ from >= 1  BY <2>1, FirstKeptIn
  <2>7. PICK exchange : exchange = c..Len(ms)  OBVIOUS
  <2>8. from <= c
    <3>1. CASE UserMessages(ms) = {}
      <4>1. from = 1  BY <2>1, <3>1 DEF FirstKept
      <4>2. QED  BY <4>1
    <3>2. CASE UserMessages(ms) # {}
      <4>1. from \in UserMessages(ms)  BY <2>1, <3>2, FirstKeptIs
      <4>2. from \in 1..Len(ms) /\ ms[from].role = "user"  BY <4>1 DEF UserMessages, Indices
      <4>3. from \notin (c + 1)..Len(ms)  BY <4>2
      <4>4. QED  BY <4>2, <4>3, <1>1
    <3>3. QED  BY <3>1, <3>2
  <2>9. c \in Callers(ms, from)  BY <2>6, <2>8 DEF Callers, Indices
  <2>10. \A b \in Callers(ms, from) : b \in 1..Len(ms) /\ ms[b].role = "assistant"
    BY DEF Callers, Indices
  <2>11. ASSUME NEW k \in (c + 1)..Len(ms)
         PROVE  k \in Indices(ms, "tool") /\ k >= from /\ Owner(ms, from, k) = c
    <3>1. k \in 1..Len(ms) /\ ms[k].role = "tool" /\ k > c /\ k >= from  BY <2>6, <2>8, <2>11
    <3>2. k \in Indices(ms, "tool")  BY <3>1 DEF Indices
    <3>3. IdsOf(ms[k]) \subseteq IdsOf(ms[c])  BY <3>1, <3>2
    <3>4. {b \in Callers(ms, from) : IdsOf(ms[k]) \subseteq IdsOf(ms[b])} = {c}
      BY <2>9, <2>10, <3>3
    <3>5. Owner(ms, from, k) = c  BY <1>1, <2>6, <3>4, OwnerOne
    <3>6. QED  BY <3>1, <3>2, <3>5
  <2>12. ASSUME NEW k \in Indices(ms, "tool"), Owner(ms, from, k) = c PROVE k \in (c + 1)..Len(ms)
    <3>1. k \in 1..Len(ms)  BY DEF Indices
    <3>2. PICK A : A = {b \in Callers(ms, from) : IdsOf(ms[k]) \subseteq IdsOf(ms[b])}  OBVIOUS
    <3>3. CASE A # {}
      <4>1. A \subseteq 0..Len(ms)  BY <2>10, <3>2
      <4>2. Max(A) \in A  BY <1>1, <3>3, <4>1, MaxIn
      <4>3. Owner(ms, from, k) = Max(A)  BY <3>2, <3>3 DEF Owner
      <4>4. IdsOf(ms[k]) \subseteq IdsOf(ms[c])  BY <2>12, <3>2, <4>2, <4>3
      <4>5. k > c  BY <4>4
      <4>6. QED  BY <3>1, <4>5
    <3>4. CASE A = {}
      <4>1. Owner(ms, from, k) = IF k - 1 \in Callers(ms, from) THEN k - 1 ELSE 0
        BY <3>2, <3>4 DEF Owner
      <4>2. k - 1 = c  BY <2>12, <4>1
      <4>3. QED  BY <3>1, <4>2
    <3>5. QED  BY <3>3, <3>4
  <2>13. PICK last : last = Len(ms)  OBVIOUS
  <2>14. /\ last \in (c + 1)..Len(ms) /\ last \in from..Len(ms) /\ last \in from..(Len(ms) + 1)
         /\ ~(last > Len(ms)) /\ last + 1 \in from..(Len(ms) + 1) /\ last + 1 > Len(ms)
    BY <1>1, <2>6, <2>8, <2>13
  <2>15. Group(ms, from, Owners(ms, from), last) = exchange
    <3>1. DOMAIN Owners(ms, from) = Indices(ms, "tool")
          /\ \A k \in Indices(ms, "tool") : Owners(ms, from)[k] = Owner(ms, from, k)
      BY DEF Owners
    <3>2. ms[last].role = "tool" /\ Owners(ms, from)[last] = c  BY <2>11, <2>14, <3>1
    <3>3. PICK answers : answers = {k \in DOMAIN Owners(ms, from) : k >= from /\ Owners(ms, from)[k] = c}
      OBVIOUS
    <3>4. answers = (c + 1)..Len(ms)  BY <2>11, <2>12, <3>1, <3>3
    <3>5. answers # {} /\ c # 0  BY <2>14, <3>4
    <3>6. Group(ms, from, Owners(ms, from), last) =
            CASE c = 0 -> {}
              [] c \in Callers(ms, from) /\ answers = {} -> {}
              [] c \in Callers(ms, from) /\ answers # {} -> {c} \cup answers
              [] OTHER -> {last}
      BY <3>2, <3>3 DEF Group
    <3>7. Group(ms, from, Owners(ms, from), last) = {c} \cup answers  BY <2>9, <3>5, <3>6
    <3>8. {c} \cup ((c + 1)..Len(ms)) = c..Len(ms)  BY <1>1
    <3>9. QED  BY <2>7, <3>4, <3>7, <3>8
  <2>16. Weight(ms, exchange) <= room
    <3>1. Survivors(ms, budget) \cap UserMessages(ms) = users
      BY <2>2, <2>5 DEF UserMessages, Indices
    <3>2. exchange \cap users = {}
      <4>1. \A k \in exchange : ms[k].role # "user"  BY <2>7, <1>1
      <4>2. QED  BY <4>1, <2>2 DEF UserMessages, Indices
    <3>3. Weight(ms, exchange \cup users) = Weight(ms, exchange) + Weight(ms, users)
      BY <3>2, WeightAdds
    <3>4. Weight(ms, exchange \cup users) <= budget  BY <2>7, <3>1
    <3>5. PICK e : e = Weight(ms, exchange)  OBVIOUS
    <3>6. PICK u : u = Weight(ms, users)  OBVIOUS
    <3>7. e \in Nat /\ u \in Nat  BY <3>5, <3>6, WeightNat
    <3>8. room \in Nat /\ (u <= budget => u + room = budget)  BY <2>3, <3>6, RoomIs
    <3>9. e + u <= budget  BY <3>3, <3>4, <3>5, <3>6
    <3>10. e <= room  BY <3>7, <3>8, <3>9
    <3>11. QED  BY <3>5, <3>10
  <2>17. PICK p : IsPass(p, ms, from, room, from) /\ Fit(ms, from, room) = p[from].keep
    <3>1. from \in 0..(Len(ms) + 1)  BY <1>1, <2>6, <2>8
    <3>2. QED  BY ONLY <1>1, <3>1, FitIs
  <2>18. p[last + 1] = [done |-> {}, keep |-> {}]  BY <2>14, <2>17 DEF IsPass
  <2>19. p[last].keep = exchange
    <3>1. p[last] = Decides(ms, from, room, last, p[last + 1])  BY <2>14, <2>17 DEF IsPass
    <3>2. PICK acc : acc = p[last + 1]  OBVIOUS
    <3>3. acc.done = {} /\ acc.keep = {}  BY <2>18, <3>2
    <3>4. ms[last].role # "user"  BY <2>14
    <3>5. exchange # {} /\ acc.keep \cup exchange = exchange  BY <2>7, <2>14, <3>3, <1>1
    <3>6. p[last] = [done |-> acc.done \cup exchange, keep |-> acc.keep \cup exchange]
      BY <2>15, <2>16, <3>1, <3>2, <3>3, <3>4, <3>5 DEF Decides
    <3>7. QED  BY <3>5, <3>6
  <2>20. p[last].keep \subseteq p[from].keep
    <3>1. from <= Len(ms)  BY <1>1, <2>6, <2>8
    <3>2. QED  BY <1>1, <2>6, <2>14, <2>17, <3>1, PassKeeps
  <2>21. QED  BY <2>4, <2>5, <2>7, <2>17, <2>19, <2>20
<1>4. QED  BY <1>2, <1>3

-----------------------------------------------------------------------------
(* The invariant                                                           *)

\* What messages and calls are.
AllIds == ({"live"} \X Nat \X Nat \X Nat) \cup (ToolsCalled \X Nat)

Messages ==
  {m \in [role : {"user", "assistant", "tool"}, ids : Seq(AllIds), size : Nat \ {0}] :
     /\ m.role = "user" => m.ids = <<>>
     /\ m.role = "tool" => Len(m.ids) = 1}

Calls == [tool : ToolsCalled, live : AllIds, at : {"waiting", "running", "done"}, size : Nat]

\* The newest exchange of a conversation, if nothing followed it, is complete.
NewestAnswered(ms) ==
  \A c \in 1..Len(ms) :
    /\ ms[c].role = "assistant" /\ ms[c].ids # <<>>
    /\ \A k \in (c + 1)..Len(ms) : ms[k].role = "tool" /\ IdsOf(ms[k]) \subseteq IdsOf(ms[c])
    => \A id \in IdsOf(ms[c]) : \E k \in (c + 1)..Len(ms) : id \in IdsOf(ms[k])

TranscriptTypes ==
  /\ mode \in Modes /\ phase \in {"idle", "model", "tools"}
  /\ turn \in 0..MaxTurns /\ round \in 0..MaxRounds
  /\ history \in Seq(Messages) /\ live \in Seq(Messages) /\ collected \in Seq(Messages)
  /\ pendingCall \in {None} \cup (ToolsCalled \X Nat)
  /\ results \in Nat /\ counter \in Nat
  /\ calls \in Seq(Calls)
  /\ \A i \in 1..Len(calls) : calls[i].at = "done" => calls[i].size # 0

\* What the collector has: the question, one call a message, and a call that is not
\* answered yet runs.
CollectedInv ==
  /\ phase = "idle" => collected = <<>>
  /\ phase # "idle" => collected # <<>> /\ collected[1].role = "user"
  /\ results = Cardinality(Indices(collected, "tool"))
  /\ \A i \in 1..Len(collected) : collected[i].role = "assistant" => Len(collected[i].ids) = 1
  /\ collected # <<>> /\ collected[Len(collected)].role = "assistant"
       => \E k \in 1..Len(calls) : calls[k].at = "running"
  /\ phase = "tools" <=> calls # <<>>

\* What the model is sent next, and what it asked for while the tools run.
LiveInv ==
  /\ phase = "model" => NewestAnswered(live)
  /\ phase = "tools" =>
       /\ live # <<>> /\ live[Len(live)].role = "assistant"
       /\ Len(live[Len(live)].ids) = Len(calls)
       /\ \A k \in 1..Len(calls) : live[Len(live)].ids[k] = calls[k].live

\* One tool at a time: the running call is the pending one and was noted last.
SequentialInv ==
  mode = "sequential" =>
    /\ \A i \in 1..Len(calls), k \in 1..Len(calls) :
         calls[i].at # "waiting" /\ k < i => calls[k].at = "done"
    /\ \A i \in 1..Len(calls) :
         calls[i].at = "running" =>
           /\ pendingCall # None /\ pendingCall[1] = calls[i].tool
           /\ collected # <<>> /\ collected[Len(collected)].ids = <<pendingCall>>
    /\ \A j \in 1..Len(collected) :
         collected[j].role = "tool" => j > 1 /\ collected[j - 1].ids = collected[j].ids

\* A compression was of a well-formed conversation and kept what survives its budget.
ShrunkInv ==
  /\ shrunk.given \in Seq(Messages) /\ shrunk.budget \in Nat
  /\ shrunk.kept = Survivors(shrunk.given, shrunk.budget)
  /\ NewestAnswered(shrunk.given)

TranscriptInv == TranscriptTypes /\ CollectedInv /\ LiveInv /\ SequentialInv /\ ShrunkInv

-----------------------------------------------------------------------------
(* What follows from it                                                    *)

\* A transcript measures something.
LEMMA MessagesSized ==
  ASSUME NEW ms \in Seq(Messages)
  PROVE  Sized(ms) /\ Len(ms) \in Nat /\ \A i \in 1..Len(ms) : ms[i] \in Messages
<1>1. Len(ms) \in Nat /\ \A i \in 1..Len(ms) : ms[i] \in Messages  BY ElementOfSeq
<1>2. \A i \in 1..Len(ms) : ms[i].size \in Nat \ {0}  BY <1>1 DEF Messages
<1>3. QED  BY <1>1, <1>2 DEF Sized

\* A result has one id.
LEMMA IdsOfTool ==
  ASSUME NEW m \in Messages, m.role = "tool"
  PROVE  IdsOf(m) = {m.ids[1]} /\ m.ids = <<m.ids[1]>>
<1>1. m.ids \in Seq(AllIds) /\ Len(m.ids) = 1  BY DEF Messages
<1>2. PICK ids \in Seq(AllIds) : ids = m.ids  BY <1>1
<1>3. {ids[k] : k \in 1..1} = {ids[1]}  OBVIOUS
<1>4. ids = <<ids[1]>>  BY <1>1, <1>2
<1>5. QED  BY <1>1, <1>2, <1>3, <1>4 DEF IdsOf

\* What the rewriter does with the conversations that the loop and the collector build.
LEMMA CompressionKeeps ==
  ASSUME ShrunkInv
  PROVE  ContextFits /\ RecentQuestionsKept /\ NewestExchangeKept /\ ExchangesStayWhole
<1>1. PICK ms \in Seq(Messages) : ms = shrunk.given  BY DEF ShrunkInv
<1>2. PICK budget \in Nat : budget = shrunk.budget  BY DEF ShrunkInv
<1>3. Kept = Survivors(ms, budget) /\ NewestAnswered(ms)  BY <1>1, <1>2 DEF ShrunkInv, Kept
<1>4. Sized(ms) /\ Len(ms) \in Nat /\ \A i \in 1..Len(ms) : ms[i] \in Messages
  BY MessagesSized
<1>5. ContextFits  BY <1>1, <1>2, <1>3, <1>4, BudgetHolds DEF ContextFits
<1>6. RecentQuestionsKept
  <2>1. PICK users : users = UserMessages(ms)  OBVIOUS
  <2>2. ASSUME NEW i \in users
        PROVE  /\ i = Max(users) => i \in Kept
               /\ i \in Kept => {j \in users : j >= i} \subseteq Kept
               /\ i \notin Kept => Weight(ms, {j \in users : j >= i}) > budget
    BY <1>3, <1>4, <2>1, QuestionsKept
  <2>3. QED  BY <1>1, <1>2, <2>1, <2>2 DEF RecentQuestionsKept
<1>7. ASSUME NEW id PROVE Calling(id) = {i \in 1..Len(ms) : ms[i].role = "assistant" /\ id \in IdsOf(ms[i])}
                      /\ Answering(id) = {i \in Indices(ms, "tool") : id \in IdsOf(ms[i])}
  BY <1>1 DEF Calling, Answering
<1>8. NewestExchangeKept
  <2>1. PICK callers : callers = {0} \cup {i \in Indices(ms, "assistant") : ms[i].ids # <<>>}  OBVIOUS
  <2>2. PICK c : c = Max(callers)  OBVIOUS
  <2>3. callers \subseteq 0..Len(ms) /\ callers # {}  BY <1>4, <2>1 DEF Indices
  <2>4. c \in callers  BY <1>4, <2>2, <2>3, MaxIn
  <2>5. SUFFICES ASSUME c > 0, OwnNames(c),
                        \A i \in (c + 1)..Len(ms) : ms[i].role = "tool" /\ IdsOf(ms[i]) \subseteq IdsOf(ms[c]),
                        Weight(ms, (c..Len(ms)) \cup (Kept \cap UserMessages(ms))) <= budget
                 PROVE  c..Len(ms) \subseteq Kept
    BY <1>1, <1>2, <2>1, <2>2 DEF NewestExchangeKept
  <2>6. c \in 1..Len(ms) /\ ms[c].role = "assistant" /\ ms[c].ids # <<>>
    BY <2>1, <2>4, <2>5 DEF Indices
  <2>7. \A id \in IdsOf(ms[c]) : \E k \in (c + 1)..Len(ms) : id \in IdsOf(ms[k])
    BY <1>3, <2>5, <2>6 DEF NewestAnswered
  <2>8. IdsOf(ms[c]) # {}
    <3>1. PICK ids \in Seq(AllIds) : ids = ms[c].ids  BY <1>4, <2>6 DEF Messages
    <3>2. 1 \in 1..Len(ids)  BY <2>6, <3>1
    <3>3. ids[1] \in IdsOf(ms[c])  BY <3>1, <3>2 DEF IdsOf
    <3>4. QED  BY <3>3
  <2>9. c < Len(ms)
    <3>1. PICK k \in (c + 1)..Len(ms) : TRUE  BY <2>7, <2>8
    <3>2. QED  BY <3>1, <2>6, <1>4
  <2>10. \A k \in (c + 1)..Len(ms) : k \in 1..Len(ms) /\ k > c /\ k \in Indices(ms, "tool")
    BY <2>5, <2>6, <1>4 DEF Indices
  <2>11. ASSUME NEW k \in Indices(ms, "tool"), IdsOf(ms[k]) \subseteq IdsOf(ms[c]) PROVE k > c
    <3>1. k \in 1..Len(ms) /\ ms[k].role = "tool"  BY DEF Indices
    <3>2. PICK id : id = ms[k].ids[1]  OBVIOUS
    <3>3. IdsOf(ms[k]) = {id}  BY <1>4, <3>1, <3>2, IdsOfTool
    <3>4. id \in IdsOf(ms[c]) /\ k \in Answering(id)  BY <2>11, <3>3, <1>7
    <3>5. PICK l \in (c + 1)..Len(ms) : id \in IdsOf(ms[l])  BY <2>7, <3>4
    <3>6. l \in Answering(id) /\ l > c  BY <2>10, <3>5, <1>7
    <3>7. IsFiniteSet(Answering(id)) /\ Cardinality(Answering(id)) = 1
      <4>1. IsFiniteSet(1..Len(ms))  BY <1>4, FS_Interval
      <4>2. Answering(id) \subseteq 1..Len(ms)  BY <1>7 DEF Indices
      <4>3. IsFiniteSet(Answering(id))  BY <4>1, <4>2, FS_Subset
      <4>4. QED  BY <4>3, <2>5, <3>4, <1>1 DEF OwnNames
    <3>8. PICK x : Answering(id) = {x}  BY <3>7, FS_Singleton
    <3>9. k = l  BY <3>4, <3>6, <3>8
    <3>10. QED  BY <3>6, <3>9
  <2>12. ASSUME NEW x \in 1..Len(ms), NEW k \in (c + 1)..Len(ms),
                ms[x].role = "assistant", IdsOf(ms[k]) \subseteq IdsOf(ms[x])
         PROVE  x = c
    <3>1. k \in 1..Len(ms) /\ ms[k].role = "tool"  BY <2>5, <2>10
    <3>2. PICK id : id = ms[k].ids[1]  OBVIOUS
    <3>3. IdsOf(ms[k]) = {id}  BY <1>4, <3>1, <3>2, IdsOfTool
    <3>4. id \in IdsOf(ms[c]) /\ id \in IdsOf(ms[x])  BY <2>5, <2>12, <3>3
    <3>5. x \in Calling(id)  BY <2>12, <3>4, <1>7
    <3>6. Calling(id) = {c}  BY <2>5, <3>4, <1>1 DEF OwnNames
    <3>7. QED  BY <3>5, <3>6
  <2>13. \A k \in Indices(ms, "tool") : k > c <=> IdsOf(ms[k]) \subseteq IdsOf(ms[c])
    <3>1. ASSUME NEW k \in Indices(ms, "tool"), k > c PROVE IdsOf(ms[k]) \subseteq IdsOf(ms[c])
      <4>1. k \in (c + 1)..Len(ms)  BY <3>1, <2>6, <1>4 DEF Indices
      <4>2. QED  BY <4>1, <2>5
    <3>2. QED  BY <3>1, <2>11
  <2>14. Weight(ms, (c..Len(ms)) \cup (Survivors(ms, budget) \cap UserMessages(ms))) <= budget
    BY <2>5, <1>3
  <2>15. c..Len(ms) \subseteq Survivors(ms, budget)
    BY <1>4, <2>5, <2>6, <2>9, <2>12, <2>13, <2>14, NewestExchange
  <2>16. QED  BY <2>15, <1>3
<1>9. ExchangesStayWhole
  <2>1. SUFFICES ASSUME NEW i \in 1..Len(ms), NEW j \in Indices(ms, "tool"),
                        Calling(ms[j].ids[1]) = {i},
                        \A k \in UserMessages(ms) : k <= i <=> k <= j
                 PROVE  i \in Kept <=> j \in Kept
    BY <1>1 DEF ExchangesStayWhole
  <2>2. j \in 1..Len(ms) /\ ms[j].role = "tool"  BY DEF Indices
  <2>3. PICK id : id = ms[j].ids[1]  OBVIOUS
  <2>4. IdsOf(ms[j]) = {id}  BY <1>4, <2>2, <2>3, IdsOfTool
  <2>5. \A x \in 1..Len(ms) : x = i <=> ms[x].role = "assistant" /\ IdsOf(ms[j]) \subseteq IdsOf(ms[x])
    BY <2>1, <2>3, <2>4, <1>7
  <2>6. ms[i].ids # <<>>
    <3>1. IdsOf(ms[j]) \subseteq IdsOf(ms[i])  BY <2>5
    <3>2. id \in IdsOf(ms[i])  BY <2>4, <3>1
    <3>3. PICK k \in 1..Len(ms[i].ids) : TRUE  BY <3>2 DEF IdsOf
    <3>4. ms[i].ids \in Seq(AllIds)  BY <1>4 DEF Messages
    <3>5. QED  BY <3>3, <3>4
  <2>7. QED  BY <1>3, <1>4, <2>1, <2>5, <2>6, WholeExchange
<1>10. QED  BY <1>5, <1>6, <1>8, <1>9

\* One tool at a time, results follow their calls.
LEMMA ResultsOwned ==
  ASSUME SequentialInv
  PROVE  ResultsFollowCalls
<1>1. SUFFICES ASSUME mode = "sequential", NEW j \in Indices(collected, "tool")
               PROVE  j > 1 /\ collected[j - 1].ids = collected[j].ids
  BY DEF ResultsFollowCalls
<1>2. j \in 1..Len(collected) /\ collected[j].role = "tool"  BY DEF Indices
<1>3. QED  BY <1>1, <1>2 DEF SequentialInv

-----------------------------------------------------------------------------
(* The steps                                                               *)

\* Messages are what they are made of.
LEMMA MessageIs ==
  ASSUME NEW role, NEW ids, NEW size
  PROVE  /\ Message(role, ids, size).role = role
         /\ Message(role, ids, size).ids = ids
         /\ Message(role, ids, size).size = size
BY DEF Message

LEMMA UserMessage ==
  ASSUME NEW size \in Nat \ {0}
  PROVE  Message("user", <<>>, size) \in Messages
<1>1. <<>> \in Seq(AllIds)  OBVIOUS
<1>2. QED  BY <1>1 DEF Messages, Message

LEMMA AssistantMessage ==
  ASSUME NEW ids \in Seq(AllIds), NEW size \in Nat \ {0}
  PROVE  Message("assistant", ids, size) \in Messages
BY DEF Messages, Message

LEMMA ToolMessage ==
  ASSUME NEW id \in AllIds, NEW size \in Nat \ {0}
  PROVE  Message("tool", <<id>>, size) \in Messages
<1>1. <<id>> \in Seq(AllIds) /\ Len(<<id>>) = 1  OBVIOUS
<1>2. QED  BY <1>1 DEF Messages, Message

\* The tools of a round.
LEMMA RoundTools ==
  ASSUME NEW tools \in RoundsOfCalls
  PROVE  /\ tools \in Seq(ToolsCalled) /\ Len(tools) \in Nat /\ Len(tools) > 0
         /\ \A i \in 1..Len(tools) : tools[i] \in ToolsCalled
<1>1. tools \in Seq(Range(tools)) /\ tools # <<>>  BY TranscriptAssumption
<1>2. \A i \in 1..Len(tools) : tools[i] \in Range(tools)  BY <1>1, ElementOfSeq
<1>3. Range(tools) \subseteq ToolsCalled  BY DEF ToolsCalled
<1>4. Len(tools) \in Nat /\ Len(tools) # 0  BY <1>1, EmptySeq
<1>5. tools \in Seq(ToolsCalled)
  <2>1. tools = [i \in 1..Len(tools) |-> tools[i]]  BY <1>1, SeqDef
  <2>2. \A i \in 1..Len(tools) : tools[i] \in ToolsCalled  BY <1>2, <1>3
  <2>3. QED  BY <1>4, <2>1, <2>2, SeqDef
<1>6. QED  BY <1>2, <1>3, <1>4, <1>5

\* A compressed transcript is one.
LEMMA ResultIn ==
  ASSUME NEW ms \in Seq(Messages), NEW budget
  PROVE  /\ Result(Shrink(ms, budget)) \in Seq(Messages)
         /\ Shrink(ms, budget).given = ms /\ Shrink(ms, budget).budget = budget
         /\ Shrink(ms, budget).kept = Survivors(ms, budget)
<1>1. /\ Shrink(ms, budget).given = ms /\ Shrink(ms, budget).budget = budget
      /\ Shrink(ms, budget).kept = Survivors(ms, budget)
  BY DEF Shrink
<1>2. Only(ms, Survivors(ms, budget)) \in Seq(Messages)  BY OnlySeq
<1>3. QED  BY <1>1, <1>2 DEF Result

\* A step that compresses nothing.
LEMMA NothingShrunk ==
  /\ NotShrunk.given \in Seq(Messages) /\ NotShrunk.budget \in Nat
  /\ NotShrunk.kept = Survivors(NotShrunk.given, NotShrunk.budget)
  /\ NewestAnswered(NotShrunk.given)
<1>1. NotShrunk.given = <<>> /\ NotShrunk.budget = 0 /\ NotShrunk.kept = {}  BY DEF NotShrunk
<1>2. <<>> \in Seq(Messages) /\ Len(<<>>) = 0 /\ 1..0 = {}  OBVIOUS
<1>3. Sized(<<>>)  BY <1>2, MessagesSized
<1>4. Weight(<<>>, {}) = 0  BY <1>3, WeightOfNone
<1>5. Weight(<<>>, 1..Len(<<>>)) <= 0  BY <1>2, <1>4
<1>6. Survivors(<<>>, 0) = {}  BY <1>2, <1>5 DEF Survivors
<1>7. NewestAnswered(<<>>)  BY <1>2 DEF NewestAnswered
<1>8. QED  BY <1>1, <1>2, <1>6, <1>7

\* Two sequences joined, and one with one more element.
LEMMA JoinedSeqs ==
  ASSUME NEW M, NEW a \in Seq(M), NEW b \in Seq(M), NEW ms, ms = a \o b
  PROVE  /\ ms \in Seq(M) /\ Len(ms) = Len(a) + Len(b)
         /\ \A i \in 1..Len(a) : ms[i] = a[i]
         /\ \A i \in 1..Len(b) : ms[Len(a) + i] = b[i]
<1>1. ms \in Seq(M) /\ Len(a) \in Nat /\ Len(b) \in Nat  OBVIOUS
<1>2. Len(ms) = Len(a) + Len(b)  OBVIOUS
<1>3. \A i \in 1..Len(a) : ms[i] = a[i]  OBVIOUS
<1>4. \A i \in 1..Len(b) : ms[Len(a) + i] = b[i]  OBVIOUS
<1>5. QED  BY <1>1, <1>2, <1>3, <1>4

LEMMA Appended ==
  ASSUME NEW M, NEW s \in Seq(M), NEW e \in M, NEW t, t = Append(s, e)
  PROVE  /\ t \in Seq(M) /\ t # <<>> /\ Len(s) \in Nat /\ Len(t) = Len(s) + 1
         /\ t[Len(s) + 1] = e /\ t[Len(t)] = e
         /\ \A i \in 1..Len(s) : t[i] = s[i]
<1>1. t \in Seq(M) /\ Len(s) \in Nat /\ Len(t) = Len(s) + 1  OBVIOUS
<1>2. t[Len(s) + 1] = e /\ \A i \in 1..Len(s) : t[i] = s[i]  OBVIOUS
<1>3. t # <<>>  BY <1>1, EmptySeq
<1>4. QED  BY <1>1, <1>2, <1>3

\* A conversation that ends in a question or in an answer has no newest exchange.
LEMMA EndsInWords ==
  ASSUME NEW ms \in Seq(Messages), ms # <<>>,
         ms[Len(ms)].role # "tool", ms[Len(ms)].role = "assistant" => ms[Len(ms)].ids = <<>>
  PROVE  NewestAnswered(ms)
<1>1. Len(ms) \in Nat /\ Len(ms) \in 1..Len(ms)  BY MessagesSized, EmptySeq
<1>2. SUFFICES ASSUME NEW c \in 1..Len(ms), ms[c].role = "assistant", ms[c].ids # <<>>,
                      \A k \in (c + 1)..Len(ms) : ms[k].role = "tool"
               PROVE  FALSE
  BY DEF NewestAnswered
<1>3. c # Len(ms)  BY <1>2
<1>4. Len(ms) \in (c + 1)..Len(ms)  BY <1>1, <1>3
<1>5. QED  BY <1>2, <1>4

\* The turn failed at the model: what was collected ends in results, or in the question.
LEMMA EndsInResults ==
  ASSUME NEW before \in Seq(Messages), NEW now \in Seq(Messages), now # <<>>,
         now[1].role = "user", now[Len(now)].role # "assistant",
         \A i \in 1..Len(now) : now[i].role = "assistant" => Len(now[i].ids) = 1
  PROVE  NewestAnswered(before \o now)
<1>1. /\ Len(before) \in Nat /\ Len(now) \in Nat /\ Len(now) >= 1
      /\ \A i \in 1..Len(now) : now[i] \in Messages
  BY MessagesSized, EmptySeq
<1>2. PICK ms : ms = before \o now  OBVIOUS
<1>3. /\ Len(ms) = Len(before) + Len(now)
      /\ \A i \in 1..Len(now) : ms[Len(before) + i] = now[i]
  BY <1>2, JoinedSeqs
<1>4. SUFFICES ASSUME NEW c \in 1..Len(ms), ms[c].role = "assistant", ms[c].ids # <<>>,
                      \A k \in (c + 1)..Len(ms) : ms[k].role = "tool" /\ IdsOf(ms[k]) \subseteq IdsOf(ms[c])
               PROVE  \A id \in IdsOf(ms[c]) : \E k \in (c + 1)..Len(ms) : id \in IdsOf(ms[k])
  BY <1>2 DEF NewestAnswered
<1>5. c > Len(before)
  <2>1. CASE c <= Len(before)
    <3>1. Len(before) + 1 \in (c + 1)..Len(ms)  BY <1>1, <1>3, <2>1
    <3>2. ms[Len(before) + 1] = now[1]  BY <1>1, <1>3
    <3>3. QED  BY <1>4, <3>1, <3>2
  <2>2. QED  BY <2>1, <1>1, <1>3
<1>6. PICK d \in 1..Len(now) : c = Len(before) + d
  <2>1. c - Len(before) \in 1..Len(now) /\ c = Len(before) + (c - Len(before))  BY <1>1, <1>3, <1>5
  <2>2. QED  BY <2>1
<1>7. d \in 1..Len(now) /\ ms[c] = now[d]  BY <1>3, <1>6
<1>8. d # Len(now)  BY <1>4, <1>7
<1>9. c + 1 \in (c + 1)..Len(ms) /\ ms[c + 1] \in Messages
  <2>1. d + 1 \in 1..Len(now) /\ c + 1 = Len(before) + (d + 1)  BY <1>1, <1>6, <1>8
  <2>2. c + 1 <= Len(ms) /\ c + 1 \in Nat  BY <1>1, <1>3, <2>1
  <2>3. ms[c + 1] = now[d + 1]  BY <1>3, <2>1
  <2>4. QED  BY <1>1, <2>1, <2>2, <2>3
<1>10. ms[c + 1].role = "tool" /\ IdsOf(ms[c + 1]) \subseteq IdsOf(ms[c])  BY <1>4, <1>9
<1>11. IdsOf(ms[c + 1]) = {ms[c + 1].ids[1]}  BY <1>1, <1>9, <1>10, IdsOfTool
<1>12. \A id \in IdsOf(ms[c]) : id = ms[c].ids[1]
  <2>1. Len(ms[c].ids) = 1  BY <1>4, <1>7
  <2>2. \A k \in 1..1 : k = 1  OBVIOUS
  <2>3. QED  BY <2>1, <2>2 DEF IdsOf
<1>13. QED  BY <1>9, <1>10, <1>11, <1>12

\* The round that the live transcript asked for is answered.
LEMMA EndsInRound ==
  ASSUME NEW before \in Seq(Messages), before # <<>>, before[Len(before)].role = "assistant",
         NEW answers \in Seq(Messages), Len(answers) = Len(before[Len(before)].ids),
         \A k \in 1..Len(answers) :
           answers[k].role = "tool" /\ answers[k].ids = <<before[Len(before)].ids[k]>>
  PROVE  NewestAnswered(before \o answers)
<1>1. /\ Len(before) \in Nat /\ Len(before) >= 1 /\ Len(answers) \in Nat
      /\ \A i \in 1..Len(answers) : answers[i] \in Messages
  BY MessagesSized, EmptySeq
<1>2. PICK ms : ms = before \o answers  OBVIOUS
<1>3. /\ Len(ms) = Len(before) + Len(answers)
      /\ \A i \in 1..Len(before) : ms[i] = before[i]
      /\ \A i \in 1..Len(answers) : ms[Len(before) + i] = answers[i]
  <2>1. before \in Seq(Messages) /\ answers \in Seq(Messages)  OBVIOUS
  <2>2. QED  BY ONLY <1>2, <2>1, JoinedSeqs
<1>4. SUFFICES ASSUME NEW c \in 1..Len(ms), ms[c].role = "assistant", ms[c].ids # <<>>,
                      \A k \in (c + 1)..Len(ms) : ms[k].role = "tool"
               PROVE  \A id \in IdsOf(ms[c]) : \E k \in (c + 1)..Len(ms) : id \in IdsOf(ms[k])
  BY <1>2 DEF NewestAnswered
<1>5. ms[Len(before)] = before[Len(before)]  BY <1>1, <1>3
<1>6. c = Len(before)
  <2>1. CASE c < Len(before)
    <3>1. Len(before) \in (c + 1)..Len(ms)  BY <1>1, <1>3, <2>1
    <3>2. QED  BY <1>4, <1>5, <3>1
  <2>2. CASE c > Len(before)
    <3>1. PICK k \in 1..Len(answers) : c = Len(before) + k
      <4>1. c - Len(before) \in 1..Len(answers) /\ c = Len(before) + (c - Len(before))
        BY <1>1, <1>3, <2>2
      <4>2. QED  BY <4>1
    <3>2. ms[c] = answers[k]  BY <1>3, <3>1
    <3>3. QED  BY <1>4, <3>2
  <2>3. QED  BY <2>1, <2>2, <1>1, <1>3
<1>7. ASSUME NEW id \in IdsOf(ms[c]) PROVE \E k \in (c + 1)..Len(ms) : id \in IdsOf(ms[k])
  <2>1. PICK k \in 1..Len(answers) : id = before[Len(before)].ids[k]
    BY <1>5, <1>6 DEF IdsOf
  <2>2. Len(before) + k \in (c + 1)..Len(ms) /\ ms[Len(before) + k] = answers[k]
    BY <1>1, <1>3, <1>6
  <2>3. answers[k].role = "tool" /\ answers[k].ids = <<id>>  BY <2>1
  <2>4. IdsOf(answers[k]) = {answers[k].ids[1]}  BY <1>1, <2>3, IdsOfTool
  <2>5. id \in IdsOf(answers[k])  BY <2>3, <2>4
  <2>6. QED  BY <2>2, <2>5
<1>8. QED  BY <1>7

\* One more message in the collector, a result or not.
LEMMA OneMoreResult ==
  ASSUME NEW s \in Seq(Messages), NEW e \in Messages, NEW t, t = Append(s, e)
  PROVE  Cardinality(Indices(t, "tool")) =
           Cardinality(Indices(s, "tool")) + (IF e.role = "tool" THEN 1 ELSE 0)
<1>1. /\ Len(s) \in Nat /\ Len(t) = Len(s) + 1 /\ t[Len(s) + 1] = e
      /\ \A i \in 1..Len(s) : t[i] = s[i]
  BY Appended
<1>2. PICK n \in Nat : n = Len(s)  BY <1>1
<1>3. PICK old : old = Indices(s, "tool")  OBVIOUS
<1>4. old = {i \in 1..n : s[i].role = "tool"}  BY <1>2, <1>3 DEF Indices
<1>5. Indices(t, "tool") = {i \in 1..(n + 1) : t[i].role = "tool"}  BY <1>1, <1>2 DEF Indices
<1>6. \A i \in 1..n : t[i] = s[i]  BY <1>1, <1>2
<1>7. t[n + 1] = e  BY <1>1, <1>2
<1>8. 1..(n + 1) = (1..n) \cup {n + 1} /\ n + 1 \notin 1..n  OBVIOUS
<1>9. IsFiniteSet(old) /\ n + 1 \notin old
  <2>1. IsFiniteSet(1..n)  BY FS_Interval
  <2>2. old \subseteq 1..n  BY <1>4
  <2>3. QED  BY <1>8, <2>1, <2>2, FS_Subset
<1>10. CASE e.role = "tool"
  <2>1. Indices(t, "tool") = old \cup {n + 1}  BY <1>4, <1>5, <1>6, <1>7, <1>8, <1>10
  <2>2. Cardinality(old \cup {n + 1}) = Cardinality(old) + 1  BY <1>9, FS_AddElement
  <2>3. QED  BY <1>3, <1>10, <2>1, <2>2
<1>11. CASE e.role # "tool"
  <2>1. Indices(t, "tool") = old  BY <1>4, <1>5, <1>6, <1>7, <1>8, <1>11
  <2>2. Cardinality(old) \in Nat  BY <1>9, FS_CardinalityType
  <2>3. QED  BY <1>3, <1>11, <2>1, <2>2
<1>12. QED  BY <1>10, <1>11

LEMMA NoResultYet ==
  ASSUME NEW s, Len(s) \in Nat, \A i \in 1..Len(s) : s[i].role # "tool"
  PROVE  Cardinality(Indices(s, "tool")) = 0
<1>1. Indices(s, "tool") = {}  BY DEF Indices
<1>2. QED  BY <1>1, FS_EmptySet

\* The start, and the steps of a turn one by one.
LEMMA TranscriptStart ==
  ASSUME TranscriptInit
  PROVE  TranscriptInv
<1>1. <<>> \in Seq(Messages) /\ <<>> \in Seq(Calls) /\ Len(<<>>) = 0  OBVIOUS
<1>2. mode \in Modes  BY TranscriptAssumption DEF TranscriptInit
<1>a. 0 \in 0..MaxTurns /\ 0 \in 0..MaxRounds  BY TranscriptAssumption
<1>3. TranscriptTypes  BY <1>1, <1>2, <1>a DEF TranscriptInit, TranscriptTypes
<1>4. CollectedInv
  <2>1. Cardinality(Indices(<<>>, "tool")) = 0  BY <1>1, NoResultYet
  <2>2. QED  BY <1>1, <2>1 DEF TranscriptInit, CollectedInv
<1>5. LiveInv  BY DEF TranscriptInit, LiveInv
<1>6. SequentialInv  BY <1>1 DEF TranscriptInit, SequentialInv
<1>7. shrunk = NotShrunk  BY DEF TranscriptInit
<1>8. ShrunkInv  BY <1>7, NothingShrunk DEF ShrunkInv
<1>9. QED  BY <1>3, <1>4, <1>5, <1>6, <1>8 DEF TranscriptInv

LEMMA StartTurnKeeps ==
  ASSUME TranscriptInv, NEW size \in Sizes, StartTurn(size)
  PROVE  TranscriptInv'
<1>1. PICK m \in Messages : m = Message("user", <<>>, size)
  <2>1. size \in Nat \ {0}  BY TranscriptAssumption
  <2>2. QED  BY <2>1, UserMessage
<1>2. m.role = "user" /\ m.ids = <<>>  BY <1>1, MessageIs
<1>3. /\ phase = "idle" /\ phase' = "model" /\ turn < MaxTurns /\ turn' = turn + 1 /\ round' = 0
      /\ collected' = <<m>> /\ live' = Append(history, m)
      /\ pendingCall' = None /\ results' = 0 /\ counter' = 0 /\ shrunk' = NotShrunk
      /\ mode' = mode /\ history' = history /\ calls' = calls
  BY <1>1 DEF StartTurn
<1>a. turn' \in 0..MaxTurns /\ round' \in 0..MaxRounds
  <2>1. turn \in 0..MaxTurns  BY DEF TranscriptInv, TranscriptTypes
  <2>2. MaxTurns \in Nat /\ MaxRounds \in Nat  BY TranscriptAssumption
  <2>3. QED  BY <1>3, <2>1, <2>2
<1>4. /\ mode \in Modes /\ history \in Seq(Messages)
      /\ calls \in Seq(Calls)
      /\ \A i \in 1..Len(calls) : calls[i].at = "done" => calls[i].size # 0
      /\ calls = <<>>
  BY <1>3 DEF TranscriptInv, TranscriptTypes, CollectedInv
<1>5. <<m>> \in Seq(Messages) /\ Len(<<m>>) = 1 /\ <<m>>[1] = m /\ <<m>> # <<>>  OBVIOUS
<1>6. /\ live' \in Seq(Messages) /\ live' # <<>> /\ live'[Len(live')] = m
  BY <1>3, <1>4, Appended
<1>7. TranscriptTypes'  BY <1>3, <1>4, <1>5, <1>6, <1>a DEF TranscriptTypes
<1>8. CollectedInv'
  <2>1. Cardinality(Indices(<<m>>, "tool")) = 0  BY <1>2, <1>5, NoResultYet
  <2>2. QED  BY <1>2, <1>3, <1>4, <1>5, <2>1 DEF CollectedInv
<1>9. NewestAnswered(live')  BY <1>2, <1>6, EndsInWords
<1>10. LiveInv'  BY <1>3, <1>9 DEF LiveInv
<1>11. SequentialInv'
  <2>1. Len(calls) = 0  BY <1>4
  <2>2. QED  BY <2>1, <1>2, <1>3, <1>5 DEF SequentialInv
<1>12. ShrunkInv'  BY <1>3, NothingShrunk DEF ShrunkInv
<1>13. QED  BY <1>7, <1>8, <1>10, <1>11, <1>12 DEF TranscriptInv

LEMMA AskForToolsKeeps ==
  ASSUME TranscriptInv, NEW tools \in RoundsOfCalls, AskForTools(tools)
  PROVE  TranscriptInv'
<1>1. PICK ids : ids = [i \in 1..Len(tools) |-> <<"live", turn, round, i>>]  OBVIOUS
<1>2. PICK m : m = Message("assistant", ids, 1)  OBVIOUS
<1>3. /\ phase = "model" /\ phase' = "tools" /\ round < MaxRounds /\ round' = round + 1
      /\ calls' = [i \in 1..Len(tools) |->
                     [tool |-> tools[i], live |-> ids[i], at |-> "waiting", size |-> 0]]
      /\ shrunk' = Shrink(live, LiveBudget)
      /\ live' = Append(Result(shrunk'), m)
      /\ mode' = mode /\ turn' = turn /\ history' = history /\ collected' = collected
      /\ pendingCall' = pendingCall /\ results' = results /\ counter' = counter
  BY <1>1, <1>2 DEF AskForTools
<1>4. /\ mode \in Modes /\ turn \in 0..MaxTurns
      /\ round \in Nat /\ turn \in Nat /\ round' \in 0..MaxRounds
      /\ history \in Seq(Messages) /\ live \in Seq(Messages) /\ collected \in Seq(Messages)
      /\ pendingCall \in {None} \cup (ToolsCalled \X Nat) /\ results \in Nat /\ counter \in Nat
      /\ calls \in Seq(Calls) /\ calls = <<>>
  <2>1. turn \in 0..MaxTurns /\ round \in 0..MaxRounds /\ MaxTurns \in Nat /\ MaxRounds \in Nat
    BY TranscriptAssumption DEF TranscriptInv, TranscriptTypes
  <2>2. round \in Nat /\ turn \in Nat /\ round' \in 0..MaxRounds  BY <1>3, <2>1
  <2>3. QED  BY <1>3, <2>1, <2>2 DEF TranscriptInv, TranscriptTypes, CollectedInv
<1>5. /\ Len(tools) \in Nat /\ Len(tools) > 0
      /\ \A i \in 1..Len(tools) : tools[i] \in ToolsCalled
  BY RoundTools
<1>6. \A i \in 1..Len(tools) : ids[i] \in AllIds
  <2>1. \A i \in 1..Len(tools) : <<"live", turn, round, i>> \in {"live"} \X Nat \X Nat \X Nat
    BY <1>4, <1>5
  <2>2. QED  BY <1>1, <2>1 DEF AllIds
<1>7. ids \in Seq(AllIds) /\ Len(ids) = Len(tools)
  <2>1. ids \in [1..Len(tools) -> AllIds]  BY <1>1, <1>6
  <2>2. QED  BY <1>5, <2>1
<1>8. m \in Messages /\ m.role = "assistant" /\ m.ids = ids
  <2>1. 1 \in Nat \ {0}  OBVIOUS
  <2>2. QED  BY <1>2, <1>7, <2>1, AssistantMessage, MessageIs
<1>9. /\ calls' \in Seq(Calls) /\ Len(calls') = Len(tools)
      /\ \A i \in 1..Len(tools) : calls'[i].at = "waiting" /\ calls'[i].live = ids[i]
  <2>1. \A i \in 1..Len(tools) :
          [tool |-> tools[i], live |-> ids[i], at |-> "waiting", size |-> 0] \in Calls
    BY <1>5, <1>6 DEF Calls
  <2>2. calls' \in [1..Len(tools) -> Calls]  BY <1>3, <2>1
  <2>3. calls' \in Seq(Calls) /\ Len(calls') = Len(tools)  BY <1>5, <2>2
  <2>4. \A i \in 1..Len(tools) : calls'[i].at = "waiting" /\ calls'[i].live = ids[i]  BY <1>3
  <2>5. QED  BY <2>3, <2>4
<1>10. Result(shrunk') \in Seq(Messages)
  <2>1. Result(Shrink(live, LiveBudget)) \in Seq(Messages)  BY <1>4, ResultIn
  <2>2. QED  BY <1>3, <2>1
<1>11. live' \in Seq(Messages) /\ live' # <<>> /\ live'[Len(live')] = m
  BY <1>3, <1>8, <1>10, Appended
<1>12. TranscriptTypes'  BY <1>3, <1>4, <1>9, <1>11 DEF TranscriptTypes
<1>13. CollectedInv'
  <2>1. /\ collected # <<>> /\ collected[1].role = "user"
        /\ \A i \in 1..Len(collected) : collected[i].role = "assistant" => Len(collected[i].ids) = 1
        /\ collected[Len(collected)].role # "assistant"
        /\ results = Cardinality(Indices(collected, "tool"))
    <3>1. ~\E k \in 1..Len(calls) : calls[k].at = "running"
      <4>1. Len(calls) = 0  BY <1>4
      <4>2. QED  BY <4>1
    <3>2. QED  BY <1>3, <3>1 DEF TranscriptInv, CollectedInv
  <2>2. calls' # <<>>  BY <1>5, <1>9, EmptySeq
  <2>3. QED  BY <1>3, <2>1, <2>2 DEF CollectedInv
<1>14. LiveInv'  BY <1>3, <1>7, <1>8, <1>9, <1>11 DEF LiveInv
<1>15. SequentialInv'  BY <1>3, <1>9 DEF TranscriptInv, SequentialInv
<1>16. ShrunkInv'
  <2>1. NewestAnswered(live)  BY <1>3 DEF TranscriptInv, LiveInv
  <2>2. LiveBudget \in Nat  BY TranscriptAssumption
  <2>3. /\ shrunk'.given = live /\ shrunk'.budget = LiveBudget
        /\ shrunk'.kept = Survivors(live, LiveBudget)
    BY <1>3, <1>4, ResultIn
  <2>4. QED  BY <1>4, <2>1, <2>2, <2>3 DEF ShrunkInv
<1>17. QED  BY <1>12, <1>13, <1>14, <1>15, <1>16 DEF TranscriptInv

LEMMA ToolStartsKeeps ==
  ASSUME TranscriptInv, NEW i \in 1..Len(calls), ToolStarts(i)
  PROVE  TranscriptInv'
<1>1. PICK id : id = <<calls[i].tool, counter>>  OBVIOUS
<1>2. PICK m : m = Message("assistant", <<id>>, 1)  OBVIOUS
<1>3. /\ phase = "tools" /\ calls[i].at = "waiting" /\ InOrder(i)
      /\ calls' = [calls EXCEPT ![i].at = "running"]
      /\ collected' = Append(collected, m) /\ pendingCall' = id /\ shrunk' = NotShrunk
      /\ mode' = mode /\ phase' = phase /\ turn' = turn /\ round' = round
      /\ history' = history /\ live' = live /\ results' = results /\ counter' = counter
  BY <1>1, <1>2 DEF ToolStarts
<1>4. /\ calls \in Seq(Calls) /\ Len(calls) \in Nat /\ counter \in Nat
      /\ collected \in Seq(Messages) /\ calls[i] \in Calls
      /\ \A k \in 1..Len(calls) : calls[k].at = "done" => calls[k].size # 0
  BY DEF TranscriptInv, TranscriptTypes
<1>5. PICK new \in Calls : new = [calls[i] EXCEPT !.at = "running"]
  <2>1. [calls[i] EXCEPT !.at = "running"] \in Calls  BY <1>4 DEF Calls
  <2>2. QED  BY <2>1
<1>6. new.at = "running" /\ new.tool = calls[i].tool /\ new.live = calls[i].live
  BY <1>4, <1>5 DEF Calls
<1>7. calls' = [calls EXCEPT ![i] = new]  BY <1>3, <1>5
<1>8. /\ calls' \in Seq(Calls) /\ Len(calls') = Len(calls) /\ calls'[i] = new
      /\ \A k \in 1..Len(calls) : k # i => calls'[k] = calls[k]
  BY <1>4, <1>7
<1>9. calls[i].tool \in ToolsCalled /\ id \in ToolsCalled \X Nat /\ id \in AllIds
  <2>1. calls[i].tool \in ToolsCalled  BY <1>4 DEF Calls
  <2>2. QED  BY <1>1, <1>4, <2>1 DEF AllIds
<1>10. m \in Messages /\ m.role = "assistant" /\ m.ids = <<id>>
  <2>1. 1 \in Nat \ {0}  OBVIOUS
  <2>2. <<id>> \in Seq(AllIds)  BY <1>9
  <2>3. PICK ids \in Seq(AllIds) : ids = <<id>>  BY <2>2
  <2>4. m = Message("assistant", ids, 1)  BY <1>2, <2>3
  <2>5. m \in Messages  BY <2>1, <2>4, AssistantMessage
  <2>6. m.role = "assistant" /\ m.ids = ids  BY <2>4, MessageIs
  <2>7. QED  BY <2>3, <2>5, <2>6
<1>11. /\ collected' \in Seq(Messages) /\ collected' # <<>> /\ Len(collected) \in Nat
       /\ Len(collected') = Len(collected) + 1 /\ collected'[Len(collected')] = m
       /\ \A k \in 1..Len(collected) : collected'[k] = collected[k]
  BY <1>3, <1>4, <1>10, Appended
<1>12. TranscriptTypes'
  <2>1. \A k \in 1..Len(calls') : calls'[k].at = "done" => calls'[k].size # 0
    BY <1>4, <1>6, <1>8
  <2>2. QED  BY <1>3, <1>8, <1>9, <1>11, <2>1 DEF TranscriptInv, TranscriptTypes
<1>13. CollectedInv'
  <2>1. /\ collected # <<>> /\ collected[1].role = "user" /\ calls # <<>>
        /\ \A k \in 1..Len(collected) : collected[k].role = "assistant" => Len(collected[k].ids) = 1
        /\ results = Cardinality(Indices(collected, "tool"))
    BY <1>3 DEF TranscriptInv, CollectedInv
  <2>2. Len(collected) >= 1  BY <1>4, <2>1, EmptySeq
  <2>3. collected'[1].role = "user"  BY <1>11, <2>1, <2>2
  <2>4. \A k \in 1..Len(collected') : collected'[k].role = "assistant" => Len(collected'[k].ids) = 1
    <3>1. \A k \in 1..Len(collected') : k \in 1..Len(collected) \/ k = Len(collected')  BY <1>11
    <3>2. Len(m.ids) = 1  BY <1>10
    <3>3. QED  BY <1>11, <2>1, <3>1, <3>2
  <2>5. Cardinality(Indices(collected', "tool")) = results
    <3>1. Cardinality(Indices(collected', "tool")) =
            Cardinality(Indices(collected, "tool")) + (IF m.role = "tool" THEN 1 ELSE 0)
      BY <1>3, <1>4, <1>10, OneMoreResult
    <3>2. m.role # "tool"  BY <1>10
    <3>3. results \in Nat  BY DEF TranscriptInv, TranscriptTypes
    <3>4. QED  BY <2>1, <3>1, <3>2, <3>3
  <2>6. \E k \in 1..Len(calls') : calls'[k].at = "running"  BY <1>6, <1>8
  <2>7. calls' # <<>>
    <3>1. Len(calls') # 0  BY <1>4, <1>8
    <3>2. QED  BY <3>1
  <2>8. QED  BY <1>3, <1>11, <2>3, <2>4, <2>5, <2>6, <2>7 DEF CollectedInv
<1>14. LiveInv'
  <2>1. \A k \in 1..Len(calls) : calls'[k].live = calls[k].live  BY <1>6, <1>8
  <2>2. QED  BY <1>3, <1>8, <2>1 DEF TranscriptInv, LiveInv
<1>15. SequentialInv'
  <2>1. SUFFICES ASSUME mode = "sequential"
                 PROVE  /\ \A k \in 1..Len(calls'), l \in 1..Len(calls') :
                             calls'[k].at # "waiting" /\ l < k => calls'[l].at = "done"
                        /\ \A k \in 1..Len(calls') :
                             calls'[k].at = "running" =>
                               /\ pendingCall' # None /\ pendingCall'[1] = calls'[k].tool
                               /\ collected' # <<>> /\ collected'[Len(collected')].ids = <<pendingCall'>>
                        /\ \A j \in 1..Len(collected') :
                             collected'[j].role = "tool"
                               => j > 1 /\ collected'[j - 1].ids = collected'[j].ids
    BY <1>3 DEF SequentialInv
  <2>2. \A k \in 1..(i - 1) : calls[k].at = "done"  BY <1>3, <2>1 DEF InOrder
  <2>3. \A k \in 1..Len(calls), l \in 1..Len(calls) :
          calls[k].at # "waiting" /\ l < k => calls[l].at = "done"
    BY <2>1 DEF TranscriptInv, SequentialInv
  <2>4. ASSUME NEW k \in 1..Len(calls'), NEW l \in 1..Len(calls'),
               calls'[k].at # "waiting", l < k
        PROVE  calls'[l].at = "done"
    <3>1. k \in 1..Len(calls) /\ l \in 1..Len(calls)  BY <1>8
    <3>2. CASE k = i
      <4>1. calls[l].at = "done" /\ l # i  BY <2>2, <2>4, <3>1, <3>2
      <4>2. QED  BY <4>1, <1>8, <3>1
    <3>3. CASE k # i
      <4>1. calls[k].at # "waiting"  BY <1>8, <2>4, <3>1, <3>3
      <4>2. calls[l].at = "done"  BY <2>3, <2>4, <3>1, <4>1
      <4>3. l # i  BY <1>3, <4>2
      <4>4. QED  BY <1>8, <3>1, <4>2, <4>3
    <3>4. QED  BY <3>2, <3>3
  <2>5. ASSUME NEW k \in 1..Len(calls'), calls'[k].at = "running" PROVE k = i
    <3>1. k \in 1..Len(calls)  BY <1>8
    <3>2. CASE k < i
      <4>1. k \in 1..(i - 1)  BY <3>1, <3>2, <1>4
      <4>2. calls[k].at = "done" /\ k # i  BY <2>2, <3>2, <4>1
      <4>3. calls'[k].at = "done"  BY <1>8, <3>1, <4>2
      <4>4. QED  BY <2>5, <4>3
    <3>3. CASE k > i
      <4>1. calls[k].at = "running" /\ k # i  BY <1>8, <2>5, <3>1, <3>3
      <4>2. calls[i].at = "done"  BY <2>3, <3>1, <3>3, <4>1
      <4>3. QED  BY <1>3, <4>2
    <3>4. QED  BY <3>1, <3>2, <3>3
  <2>6. pendingCall' # None /\ pendingCall'[1] = calls'[i].tool
    <3>1. id # None  BY <1>9, TranscriptAssumption
    <3>2. id[1] = calls[i].tool  BY <1>1
    <3>3. QED  BY <1>3, <1>6, <1>8, <3>1, <3>2
  <2>7. collected' # <<>> /\ collected'[Len(collected')].ids = <<pendingCall'>>
    BY <1>3, <1>10, <1>11
  <2>8. ASSUME NEW j \in 1..Len(collected'), collected'[j].role = "tool"
        PROVE  j > 1 /\ collected'[j - 1].ids = collected'[j].ids
    <3>1. j # Len(collected')  BY <1>10, <1>11, <2>8
    <3>2. j \in 1..Len(collected) /\ collected[j].role = "tool"  BY <1>11, <2>8, <3>1
    <3>3. j > 1 /\ collected[j - 1].ids = collected[j].ids
      BY <2>1, <3>2 DEF TranscriptInv, SequentialInv
    <3>4. j - 1 \in 1..Len(collected)  BY <1>11, <3>2, <3>3
    <3>5. QED  BY <1>11, <3>2, <3>3, <3>4
  <2>9. QED  BY <2>4, <2>5, <2>6, <2>7, <2>8
<1>16. ShrunkInv'  BY <1>3, NothingShrunk DEF ShrunkInv
<1>17. QED  BY <1>12, <1>13, <1>14, <1>15, <1>16 DEF TranscriptInv

LEMMA ToolEndsKeeps ==
  ASSUME TranscriptInv, NEW i \in 1..Len(calls), NEW size \in Sizes, ToolEnds(i, size)
  PROVE  TranscriptInv'
<1>1. PICK id : id = ResultId(calls[i].tool)  OBVIOUS
<1>2. PICK m : m = Message("tool", <<id>>, size)  OBVIOUS
<1>3. /\ phase = "tools" /\ calls[i].at = "running"
      /\ calls' = [calls EXCEPT ![i].at = "done", ![i].size = size]
      /\ collected' = Append(collected, m)
      /\ pendingCall' = (IF id = pendingCall THEN None ELSE pendingCall) /\ shrunk' = NotShrunk
      /\ mode' = mode /\ phase' = phase /\ turn' = turn /\ round' = round
      /\ history' = history /\ live' = live /\ results' = results + 1 /\ counter' = counter + 1
  BY <1>1, <1>2 DEF ToolEnds
<1>4. /\ calls \in Seq(Calls) /\ Len(calls) \in Nat /\ counter \in Nat /\ results \in Nat
      /\ collected \in Seq(Messages) /\ calls[i] \in Calls
      /\ \A k \in 1..Len(calls) : calls[k].at = "done" => calls[k].size # 0
      /\ pendingCall \in {None} \cup (ToolsCalled \X Nat)
      /\ size \in Nat \ {0}
  BY TranscriptAssumption DEF TranscriptInv, TranscriptTypes
<1>5. PICK new \in Calls : new = [calls[i] EXCEPT !.at = "done", !.size = size]
  <2>1. [calls[i] EXCEPT !.at = "done", !.size = size] \in Calls  BY <1>4 DEF Calls
  <2>2. QED  BY <2>1
<1>6. /\ new.at = "done" /\ new.tool = calls[i].tool /\ new.live = calls[i].live /\ new.size # 0
  BY <1>4, <1>5 DEF Calls
<1>7. calls' = [calls EXCEPT ![i] = new]  BY <1>3, <1>4, <1>5
<1>8. /\ calls' \in Seq(Calls) /\ Len(calls') = Len(calls) /\ calls'[i] = new
      /\ \A k \in 1..Len(calls) : k # i => calls'[k] = calls[k]
  BY <1>4, <1>7
<1>9. id \in ToolsCalled \X Nat /\ id \in AllIds
  <2>1. calls[i].tool \in ToolsCalled  BY <1>4 DEF Calls
  <2>2. CASE pendingCall # None /\ pendingCall[1] = calls[i].tool
    BY <1>1, <1>4, <2>2 DEF ResultId, AllIds
  <2>3. CASE ~(pendingCall # None /\ pendingCall[1] = calls[i].tool)
    <3>1. id = <<calls[i].tool, results>>  BY <1>1, <2>3 DEF ResultId
    <3>2. QED  BY <1>4, <2>1, <3>1 DEF AllIds
  <2>4. QED  BY <2>2, <2>3
<1>10. m \in Messages /\ m.role = "tool" /\ m.ids = <<id>>
  BY <1>2, <1>4, <1>9, ToolMessage, MessageIs
<1>11. /\ collected' \in Seq(Messages) /\ collected' # <<>> /\ Len(collected) \in Nat
       /\ Len(collected') = Len(collected) + 1 /\ collected'[Len(collected')] = m
       /\ \A k \in 1..Len(collected) : collected'[k] = collected[k]
  BY <1>3, <1>4, <1>10, Appended
<1>12. TranscriptTypes'
  <2>1. \A k \in 1..Len(calls') : calls'[k].at = "done" => calls'[k].size # 0
    BY <1>4, <1>6, <1>8
  <2>2. pendingCall' \in {None} \cup (ToolsCalled \X Nat)  BY <1>3, <1>4
  <2>3. results' \in Nat /\ counter' \in Nat  BY <1>3, <1>4
  <2>4. QED  BY <1>3, <1>8, <1>11, <2>1, <2>2, <2>3 DEF TranscriptInv, TranscriptTypes
<1>13. CollectedInv'
  <2>1. /\ collected # <<>> /\ collected[1].role = "user" /\ calls # <<>>
        /\ \A k \in 1..Len(collected) : collected[k].role = "assistant" => Len(collected[k].ids) = 1
        /\ results = Cardinality(Indices(collected, "tool"))
    BY <1>3 DEF TranscriptInv, CollectedInv
  <2>2. Len(collected) >= 1  BY <1>4, <2>1, EmptySeq
  <2>3. collected'[1].role = "user"  BY <1>11, <2>1, <2>2
  <2>4. \A k \in 1..Len(collected') : collected'[k].role = "assistant" => Len(collected'[k].ids) = 1
    <3>1. \A k \in 1..Len(collected') : k \in 1..Len(collected) \/ k = Len(collected')  BY <1>11
    <3>2. m.role # "assistant"  BY <1>10
    <3>3. QED  BY <1>11, <2>1, <3>1, <3>2
  <2>5. Cardinality(Indices(collected', "tool")) = results'
    <3>1. Cardinality(Indices(collected', "tool")) =
            Cardinality(Indices(collected, "tool")) + (IF m.role = "tool" THEN 1 ELSE 0)
      BY <1>3, <1>4, <1>10, OneMoreResult
    <3>2. QED  BY <1>3, <1>10, <2>1, <3>1
  <2>6. collected'[Len(collected')].role # "assistant"  BY <1>10, <1>11
  <2>7. calls' # <<>>
    <3>1. Len(calls') # 0  BY <1>4, <1>8
    <3>2. QED  BY <3>1
  <2>8. QED  BY <1>3, <1>11, <2>3, <2>4, <2>5, <2>6, <2>7 DEF CollectedInv
<1>14. LiveInv'
  <2>1. \A k \in 1..Len(calls) : calls'[k].live = calls[k].live  BY <1>6, <1>8
  <2>2. QED  BY <1>3, <1>8, <2>1 DEF TranscriptInv, LiveInv
<1>15. SequentialInv'
  <2>1. SUFFICES ASSUME mode = "sequential"
                 PROVE  /\ \A k \in 1..Len(calls'), l \in 1..Len(calls') :
                             calls'[k].at # "waiting" /\ l < k => calls'[l].at = "done"
                        /\ \A k \in 1..Len(calls') : calls'[k].at # "running"
                        /\ \A j \in 1..Len(collected') :
                             collected'[j].role = "tool"
                               => j > 1 /\ collected'[j - 1].ids = collected'[j].ids
    BY <1>3 DEF SequentialInv
  <2>2. /\ pendingCall # None /\ pendingCall[1] = calls[i].tool
        /\ collected # <<>> /\ collected[Len(collected)].ids = <<pendingCall>>
    BY <1>3, <2>1 DEF TranscriptInv, SequentialInv
  <2>3. \A k \in 1..Len(calls), l \in 1..Len(calls) :
          calls[k].at # "waiting" /\ l < k => calls[l].at = "done"
    BY <2>1 DEF TranscriptInv, SequentialInv
  <2>4. ASSUME NEW k \in 1..Len(calls'), NEW l \in 1..Len(calls'),
               calls'[k].at # "waiting", l < k
        PROVE  calls'[l].at = "done"
    <3>1. k \in 1..Len(calls) /\ l \in 1..Len(calls)  BY <1>8
    <3>2. calls[k].at # "waiting"  BY <1>3, <1>8, <2>4, <3>1
    <3>3. calls[l].at = "done"  BY <2>3, <2>4, <3>1, <3>2
    <3>4. QED  BY <1>6, <1>8, <3>1, <3>3
  <2>5. ASSUME NEW k \in 1..Len(calls'), calls'[k].at = "running" PROVE FALSE
    <3>1. k \in 1..Len(calls) /\ k # i  BY <1>6, <1>8, <2>5
    <3>2. calls[k].at = "running"  BY <1>8, <2>5, <3>1
    <3>3. CASE k < i  BY <1>3, <2>3, <3>1, <3>2, <3>3
    <3>4. CASE k > i  BY <1>3, <2>3, <3>1, <3>2, <3>4
    <3>5. QED  BY <3>1, <3>3, <3>4
  <2>6. id = pendingCall  BY <1>1, <2>2 DEF ResultId
  <2>7. ASSUME NEW j \in 1..Len(collected'), collected'[j].role = "tool"
        PROVE  j > 1 /\ collected'[j - 1].ids = collected'[j].ids
    <3>1. CASE j = Len(collected')
      <4>1. Len(collected) >= 1  BY <1>4, <2>2, EmptySeq
      <4>2. j - 1 = Len(collected) /\ j > 1 /\ Len(collected) \in 1..Len(collected)
        BY <1>11, <3>1, <4>1
      <4>3. collected'[j - 1].ids = <<pendingCall>>  BY <1>11, <2>2, <4>2
      <4>4. collected'[j].ids = <<pendingCall>>  BY <1>10, <1>11, <2>6, <3>1
      <4>5. QED  BY <4>2, <4>3, <4>4
    <3>2. CASE j # Len(collected')
      <4>1. j \in 1..Len(collected) /\ collected[j].role = "tool"  BY <1>11, <2>7, <3>2
      <4>2. j > 1 /\ collected[j - 1].ids = collected[j].ids
        BY <2>1, <4>1 DEF TranscriptInv, SequentialInv
      <4>3. j - 1 \in 1..Len(collected)  BY <1>11, <4>1, <4>2
      <4>4. QED  BY <1>11, <4>1, <4>2, <4>3
    <3>3. QED  BY <3>1, <3>2
  <2>8. QED  BY <2>4, <2>5, <2>7
<1>16. ShrunkInv'  BY <1>3, NothingShrunk DEF ShrunkInv
<1>17. QED  BY <1>12, <1>13, <1>14, <1>15, <1>16 DEF TranscriptInv

LEMMA ToolsReturnKeeps ==
  ASSUME TranscriptInv, ToolsReturn
  PROVE  TranscriptInv'
<1>1. PICK answers : answers = [i \in 1..Len(calls) |-> Message("tool", <<calls[i].live>>, calls[i].size)]
  OBVIOUS
<1>2. /\ phase = "tools" /\ phase' = "model" /\ calls' = <<>> /\ shrunk' = NotShrunk
      /\ \A i \in 1..Len(calls) : calls[i].at = "done"
      /\ live' = live \o answers
      /\ mode' = mode /\ turn' = turn /\ round' = round /\ history' = history
      /\ collected' = collected /\ pendingCall' = pendingCall
      /\ results' = results /\ counter' = counter
  BY <1>1 DEF ToolsReturn
<1>3. /\ calls \in Seq(Calls) /\ Len(calls) \in Nat /\ live \in Seq(Messages)
      /\ \A i \in 1..Len(calls) : calls[i] \in Calls /\ (calls[i].at = "done" => calls[i].size # 0)
  BY DEF TranscriptInv, TranscriptTypes
<1>4. ASSUME NEW i \in 1..Len(calls)
      PROVE  /\ answers[i] \in Messages /\ answers[i].role = "tool"
             /\ answers[i].ids = <<calls[i].live>>
  <2>1. calls[i].live \in AllIds /\ calls[i].size \in Nat \ {0}  BY <1>2, <1>3 DEF Calls
  <2>2. answers[i] = Message("tool", <<calls[i].live>>, calls[i].size)  BY <1>1
  <2>3. QED  BY <2>1, <2>2, ToolMessage, MessageIs
<1>5. answers \in Seq(Messages) /\ Len(answers) = Len(calls)
  <2>1. answers \in [1..Len(calls) -> Messages]  BY <1>1, <1>4
  <2>2. QED  BY <1>3, <2>1
<1>6. /\ live # <<>> /\ live[Len(live)].role = "assistant"
      /\ Len(live[Len(live)].ids) = Len(calls)
      /\ \A k \in 1..Len(calls) : live[Len(live)].ids[k] = calls[k].live
  BY <1>2 DEF TranscriptInv, LiveInv
<1>7. NewestAnswered(live')
  <2>1. \A k \in 1..Len(answers) :
          answers[k].role = "tool" /\ answers[k].ids = <<live[Len(live)].ids[k]>>
    BY <1>4, <1>5, <1>6
  <2>2. NewestAnswered(live \o answers)  BY <1>3, <1>5, <1>6, <2>1, EndsInRound
  <2>3. QED  BY <1>2, <2>2
<1>8. live' \in Seq(Messages)  BY <1>2, <1>3, <1>5
<1>9. <<>> \in Seq(Calls) /\ Len(<<>>) = 0  OBVIOUS
<1>10. TranscriptTypes'  BY <1>2, <1>8, <1>9 DEF TranscriptInv, TranscriptTypes
<1>11. CollectedInv'
  <2>1. ~\E k \in 1..Len(calls) : calls[k].at = "running"  BY <1>2
  <2>2. QED  BY <1>2, <2>1 DEF TranscriptInv, CollectedInv
<1>12. LiveInv'  BY <1>2, <1>7 DEF LiveInv
<1>13. SequentialInv'  BY <1>2, <1>9 DEF TranscriptInv, SequentialInv
<1>14. ShrunkInv'  BY <1>2, NothingShrunk DEF ShrunkInv
<1>15. QED  BY <1>10, <1>11, <1>12, <1>13, <1>14 DEF TranscriptInv

LEMMA EndTurnKeeps ==
  ASSUME TranscriptInv, NEW answered \in BOOLEAN, EndTurn(answered)
  PROVE  TranscriptInv'
<1>1. PICK answer : answer = IF answered THEN <<Message("assistant", <<>>, 1)>> ELSE <<>>  OBVIOUS
<1>2. PICK all : all = history \o collected \o answer  OBVIOUS
<1>3. /\ phase = "model" /\ phase' = "idle" /\ collected' = <<>> /\ live' = <<>>
      /\ pendingCall' = None /\ results' = 0 /\ counter' = 0
      /\ shrunk' = Shrink(all, StoredBudget) /\ history' = Result(shrunk')
      /\ mode' = mode /\ turn' = turn /\ round' = round /\ calls' = calls
  BY <1>1, <1>2 DEF EndTurn
<1>4. /\ history \in Seq(Messages) /\ collected \in Seq(Messages)
      /\ collected # <<>> /\ collected[1].role = "user" /\ calls = <<>>
      /\ \A i \in 1..Len(collected) : collected[i].role = "assistant" => Len(collected[i].ids) = 1
      /\ collected[Len(collected)].role # "assistant"
  <2>1. calls = <<>>  BY <1>3 DEF TranscriptInv, CollectedInv
  <2>2. ~\E k \in 1..Len(calls) : calls[k].at = "running"
    <3>1. Len(calls) = 0  BY <2>1
    <3>2. QED  BY <3>1
  <2>3. QED  BY <1>3, <2>1, <2>2 DEF TranscriptInv, TranscriptTypes, CollectedInv
<1>5. PICK before \in Seq(Messages) : before = history \o collected
  <2>1. history \o collected \in Seq(Messages)  BY <1>4, ConcatProperties
  <2>2. QED  BY <2>1
<1>6. all \in Seq(Messages) /\ NewestAnswered(all)
  <2>1. CASE answered
    <3>1. PICK m \in Messages : m = Message("assistant", <<>>, 1)
      <4>1. <<>> \in Seq(AllIds) /\ 1 \in Nat \ {0}  OBVIOUS
      <4>2. QED  BY <4>1, AssistantMessage
    <3>2. m.role = "assistant" /\ m.ids = <<>>  BY <3>1, MessageIs
    <3>3. all = Append(before, m)
      <4>1. all = before \o <<m>>  BY <1>1, <1>2, <1>5, <2>1, <3>1
      <4>2. QED  BY <4>1
    <3>4. all \in Seq(Messages) /\ all # <<>> /\ all[Len(all)] = m  BY <3>3, Appended
    <3>5. QED  BY <3>2, <3>4, EndsInWords
  <2>2. CASE ~answered
    <3>1. all = before
      <4>1. all = before \o <<>>  BY <1>1, <1>2, <1>5, <2>2
      <4>2. QED  BY <4>1
    <3>2. NewestAnswered(history \o collected)  BY <1>4, EndsInResults
    <3>3. QED  BY <1>5, <3>1, <3>2
  <2>3. QED  BY <2>1, <2>2
<1>7. /\ history' \in Seq(Messages)
      /\ shrunk'.given = all /\ shrunk'.budget = StoredBudget
      /\ shrunk'.kept = Survivors(all, StoredBudget)
  <2>1. Result(Shrink(all, StoredBudget)) \in Seq(Messages)  BY <1>6, ResultIn
  <2>2. QED  BY <1>3, <1>6, <2>1, ResultIn
<1>8. <<>> \in Seq(Messages) /\ Len(<<>>) = 0  OBVIOUS
<1>9. TranscriptTypes'  BY <1>3, <1>7, <1>8 DEF TranscriptInv, TranscriptTypes
<1>10. CollectedInv'
  <2>1. Cardinality(Indices(<<>>, "tool")) = 0  BY <1>8, NoResultYet
  <2>2. QED  BY <1>3, <1>4, <1>8, <2>1 DEF CollectedInv
<1>11. LiveInv'  BY <1>3 DEF LiveInv
<1>12. SequentialInv'
  <2>1. Len(calls) = 0  BY <1>4
  <2>2. QED  BY <1>3, <1>8, <2>1 DEF SequentialInv
<1>13. ShrunkInv'
  <2>1. StoredBudget \in Nat  BY TranscriptAssumption
  <2>2. QED  BY <1>6, <1>7, <2>1 DEF ShrunkInv
<1>14. QED  BY <1>9, <1>10, <1>11, <1>12, <1>13 DEF TranscriptInv

LEMMA LoseTurnKeeps ==
  ASSUME TranscriptInv, LoseTurn
  PROVE  TranscriptInv'
<1>1. /\ phase' = "idle" /\ collected' = <<>> /\ live' = <<>> /\ calls' = <<>>
      /\ pendingCall' = None /\ results' = 0 /\ counter' = 0 /\ shrunk' = NotShrunk
      /\ mode' = mode /\ turn' = turn /\ round' = round /\ history' = history
  BY DEF LoseTurn
<1>2. <<>> \in Seq(Messages) /\ <<>> \in Seq(Calls) /\ Len(<<>>) = 0  OBVIOUS
<1>3. TranscriptTypes'  BY <1>1, <1>2 DEF TranscriptInv, TranscriptTypes
<1>4. CollectedInv'
  <2>1. Cardinality(Indices(<<>>, "tool")) = 0  BY <1>2, NoResultYet
  <2>2. QED  BY <1>1, <1>2, <2>1 DEF CollectedInv
<1>5. LiveInv'  BY <1>1 DEF LiveInv
<1>6. SequentialInv'  BY <1>1, <1>2 DEF SequentialInv
<1>7. ShrunkInv'  BY <1>1, NothingShrunk DEF ShrunkInv
<1>8. QED  BY <1>3, <1>4, <1>5, <1>6, <1>7 DEF TranscriptInv

\* Every step keeps the invariant.
LEMMA TranscriptStep ==
  ASSUME TranscriptInv, [TranscriptNext]_transcriptVars
  PROVE  TranscriptInv'
<1>1. CASE \E size \in Sizes : StartTurn(size)  BY <1>1, StartTurnKeeps
<1>2. CASE \E tools \in RoundsOfCalls : AskForTools(tools)  BY <1>2, AskForToolsKeeps
<1>3. CASE \E i \in 1..Len(calls) : ToolStarts(i)  BY <1>3, ToolStartsKeeps
<1>4. CASE \E i \in 1..Len(calls) : \E size \in Sizes : ToolEnds(i, size)  BY <1>4, ToolEndsKeeps
<1>5. CASE ToolsReturn  BY <1>5, ToolsReturnKeeps
<1>6. CASE \E answered \in BOOLEAN : EndTurn(answered)  BY <1>6, EndTurnKeeps
<1>7. CASE LoseTurn  BY <1>7, LoseTurnKeeps
<1>8. CASE UNCHANGED transcriptVars
  <2>1. /\ TranscriptTypes' /\ CollectedInv' /\ LiveInv' /\ SequentialInv'
    BY <1>8 DEF TranscriptInv, TranscriptTypes, CollectedInv, LiveInv, SequentialInv, transcriptVars
  <2>2. ShrunkInv'  BY <1>8 DEF TranscriptInv, ShrunkInv, transcriptVars
  <2>3. QED  BY <2>1, <2>2 DEF TranscriptInv
<1>9. QED
  BY <1>1, <1>2, <1>3, <1>4, <1>5, <1>6, <1>7, <1>8 DEF TranscriptNext

LEMMA TranscriptHolds == TranscriptSpec => []TranscriptInv
<1>1. TranscriptInit => TranscriptInv  BY TranscriptStart
<1>2. TranscriptInv /\ [TranscriptNext]_transcriptVars => TranscriptInv'  BY TranscriptStep
<1>3. QED  BY <1>1, <1>2, PTL DEF TranscriptSpec

-----------------------------------------------------------------------------
(* The theorems                                                            *)

\* The three transcripts of a session are well formed: a question makes no call, a result
\* answers one, and the collector has counted its results (message_collector.go).
THEOREM WellFormed == TranscriptSpec => []TranscriptTypeOK
<1>1. TranscriptInv => TranscriptTypeOK
  <2>1. SUFFICES ASSUME TranscriptInv PROVE TranscriptTypeOK  OBVIOUS
  <2>2. ASSUME NEW ms \in {history, live, collected}, NEW i \in 1..Len(ms)
        PROVE  /\ ms[i].role = "user" => ms[i].ids = <<>>
               /\ ms[i].role = "tool" => Len(ms[i].ids) = 1
    <3>1. ms \in Seq(Messages)  BY <2>1, <2>2 DEF TranscriptInv, TranscriptTypes
    <3>2. ms[i] \in Messages  BY <3>1, MessagesSized
    <3>3. QED  BY <3>2 DEF Messages
  <2>3. /\ mode \in Modes /\ phase \in {"idle", "model", "tools"}
        /\ turn \in 0..MaxTurns /\ round \in 0..MaxRounds
    BY <2>1 DEF TranscriptInv, TranscriptTypes
  <2>4. /\ phase = "tools" <=> calls # <<>>
        /\ phase = "idle" <=> collected = <<>>
        /\ results = Cardinality(Indices(collected, "tool"))
    BY <2>1 DEF TranscriptInv, CollectedInv
  <2>5. QED  BY <2>2, <2>3, <2>4 DEF TranscriptTypeOK
<1>2. QED  BY <1>1, TranscriptHolds, PTL

\* Whatever the tools return and in whatever order they end, a compressed conversation
\* fits its budget and has the questions, the newest exchange and whole exchanges
\* (context_rewriter.go), and an agent that runs its tools one by one remembers every
\* result right after its call (message_collector.go).
THEOREM KeepsMemory == TranscriptSpec => []CompactionKeeps
<1>1. TranscriptInv => CompactionKeeps
  BY CompressionKeeps, ResultsOwned DEF TranscriptInv, CompactionKeeps
<1>2. QED  BY <1>1, TranscriptHolds, PTL
=============================================================================
