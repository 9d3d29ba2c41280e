-------------------------- MODULE ConversationProofs --------------------------
(***************************************************************************)
(* Proofs about Conversation for every value of the constants: any texts   *)
(* and sizes, any system prompt, any budget, reserve and integer width.    *)
(* The invariant needs only that Fits is a function of the message         *)
(* sequence; what Estimate computes is proved apart, by induction over the *)
(* sequence.                                                               *)
(***************************************************************************)
EXTENDS Conversation, SequenceTheorems, WellFoundedInduction, TLAPS

-----------------------------------------------------------------------------
(* Facts about the operators.                                              *)

\* A nonempty set of naturals has a least element.
LEMMA LeastElement ==
    ASSUME NEW T, T \subseteq Nat, T # {}
    PROVE  \E x \in T : \A y \in T : x <= y
<1>1. PICK x \in T : \A y \in T : ~ (<<y, x>> \in OpToRel(<, Nat))
  BY WFMin, NatLessThanWellFounded, Zenon
<1>2. ASSUME NEW y \in T PROVE ~ (y < x)
  BY <1>1, Zenon DEF OpToRel
<1>3. QED
  BY <1>2

\* What a suffix of a sequence is.
LEMMA SuffixProperties ==
    ASSUME NEW S, NEW s \in Seq(S), NEW m \in Nat \ {0}, m <= Len(s) + 1
    PROVE  /\ SubSeq(s, m, Len(s)) \in Seq(S)
           /\ Len(SubSeq(s, m, Len(s))) = Len(s) - m + 1
           /\ \A i \in 1..(Len(s) - m + 1) : SubSeq(s, m, Len(s))[i] = s[m + i - 1]
<1>1. SubSeq(s, m, Len(s)) \in Seq(S)
  OBVIOUS
<1>2. Len(SubSeq(s, m, Len(s))) = Len(s) - m + 1
  OBVIOUS
<1>3. \A i \in 1..(Len(s) - m + 1) : SubSeq(s, m, Len(s))[i] = s[m + i - 1]
  OBVIOUS
<1>4. QED
  BY <1>1, <1>2, <1>3

\* Cutting whole pairs off a paired history leaves a paired history.
LEMMA DropPairsProperties ==
    ASSUME NEW hist \in Seq(Message), NEW k \in Nat, 2 * k <= Len(hist)
    PROVE  /\ DropPairs(hist, k) \in Seq(Message)
           /\ Len(DropPairs(hist, k)) = Len(hist) - 2 * k
           /\ IsPairs(hist) => IsPairs(DropPairs(hist, k))
<1> DEFINE d == DropPairs(hist, k)
           n == Len(hist)
<1>1. 2 * k + 1 \in Nat \ {0} /\ 2 * k + 1 <= Len(hist) + 1
  OBVIOUS
<1>2. /\ d \in Seq(Message)
      /\ Len(d) = n - (2 * k + 1) + 1
      /\ \A i \in 1..(n - (2 * k + 1) + 1) : d[i] = hist[(2 * k + 1) + i - 1]
  BY <1>1, SuffixProperties DEF DropPairs
<1>3. /\ d \in Seq(Message)
      /\ Len(d) = n - 2 * k
      /\ \A i \in 1..(n - 2 * k) : d[i] = hist[i + 2 * k]
  <2> HIDE DEF d
  <2>1. QED
    BY <1>2
<1>4. ASSUME IsPairs(hist) PROVE IsPairs(d)
  <2>1. Len(d) % 2 = 0
    BY <1>3, <1>4 DEF IsPairs
  <2>2. ASSUME NEW i \in 1..Len(d)
        PROVE  d[i].role = IF i % 2 = 1 THEN "user" ELSE "assistant"
    <3>1. d[i] = hist[i + 2 * k] /\ i + 2 * k \in 1..n
      <4> HIDE DEF d
      <4>1. QED
        BY <1>3
    <3>2. (i + 2 * k) % 2 = i % 2
      BY <1>3
    <3>3. QED
      BY <3>1, <3>2, <1>4 DEF IsPairs
  <2>3. QED
    BY <2>1, <2>2 DEF IsPairs
<1>5. QED
  BY <1>3, <1>4

LEMMA AfterEven ==
    ASSUME NEW n \in Nat, n % 2 = 0
    PROVE  (n + 1) % 2 = 1 /\ (n + 2) % 2 = 0
  OBVIOUS

\* One more complete turn keeps a history paired.
LEMMA AppendPair ==
    ASSUME NEW hist \in Seq(Message), NEW user \in Message, user.role = "user",
           NEW text \in Texts, IsPairs(hist)
    PROVE  /\ hist \o <<user, Assistant(text)>> \in Seq(Message)
           /\ IsPairs(hist \o <<user, Assistant(text)>>)
<1> DEFINE t == <<user, Assistant(text)>>
<1>1. /\ t \in Seq(Message)
      /\ Len(t) = 2
      /\ t[1].role = "user"
      /\ t[2].role = "assistant"
  BY DEF Assistant, Message, Roles
<1> HIDE DEF t
<1>2. /\ hist \o t \in Seq(Message)
      /\ Len(hist \o t) = Len(hist) + 2
      /\ \A i \in 1..(Len(hist) + 2) :
            (hist \o t)[i] = IF i <= Len(hist) THEN hist[i] ELSE t[i - Len(hist)]
  <2>1. t \in Seq(Message)
    BY <1>1
  <2>2. /\ hist \o t \in Seq(Message)
        /\ Len(hist \o t) = Len(hist) + Len(t)
        /\ \A i \in 1..(Len(hist) + Len(t)) :
              (hist \o t)[i] = IF i <= Len(hist) THEN hist[i] ELSE t[i - Len(hist)]
    BY <2>1, ConcatProperties, Zenon
  <2>3. QED
    BY <1>1, <2>2, Zenon
<1>3. (Len(hist) + 1) % 2 = 1 /\ (Len(hist) + 2) % 2 = 0
  <2>1. Len(hist) \in Nat /\ Len(hist) % 2 = 0
    BY DEF IsPairs
  <2>2. QED
    BY <2>1, AfterEven
<1>4. ASSUME NEW i \in 1..Len(hist \o t)
      PROVE  (hist \o t)[i].role = IF i % 2 = 1 THEN "user" ELSE "assistant"
  <2>1. CASE i <= Len(hist)
    BY <1>2, <2>1 DEF IsPairs
  <2>2. CASE i = Len(hist) + 1
    <3>1. (hist \o t)[i] = t[1]
      BY <1>2, <2>2
    <3>2. i % 2 = 1
      BY <1>3, <2>2
    <3>3. QED
      BY <1>1, <3>1, <3>2
  <2>3. CASE i = Len(hist) + 2
    <3>1. (hist \o t)[i] = t[2]
      BY <1>2, <2>3
    <3>2. i % 2 = 0
      BY <1>3, <2>3
    <3>3. QED
      BY <1>1, <3>1, <3>2
  <2>4. QED
    BY <1>2, <2>1, <2>2, <2>3
<1>5. Len(hist \o t) % 2 = 0
  BY <1>2 DEF IsPairs
<1>6. QED
  BY <1>2, <1>4, <1>5 DEF IsPairs, t

LEMMA SystemType == System \in Seq(Message)
<1>1. CASE SystemPrompt = <<>>
  BY <1>1 DEF System
<1>2. CASE \E t \in Texts : SystemPrompt = <<t>>
  <2>1. PICK t \in Texts : SystemPrompt = <<t>>
    BY <1>2
  <2>2. [role |-> "system", content |-> SystemPrompt[1]] \in Message
    BY <2>1 DEF Message, Roles
  <2>3. QED
    BY <2>1, <2>2 DEF System
<1>3. QED
  BY <1>1, <1>2, TextAssumption

LEMMA PrefixAssociates ==
    ASSUME NEW hist \in Seq(Message), NEW user \in Message
    PROVE  prefix(hist, user) = System \o (hist \o <<user>>)
<1>1. ASSUME NEW S, NEW s \in Seq(S), NEW t \in Seq(S), NEW a \in S
      PROVE  (s \o t) \o <<a>> = s \o (t \o <<a>>)
  OBVIOUS
<1>2. (System \o hist) \o <<user>> = System \o (hist \o <<user>>)
  BY <1>1, SystemType
<1>3. QED
  BY <1>2 DEF prefix

\* The trimming loop has one exit: what CHOOSE picks in StageVerdict is the
\* number of pairs StageFits drops.
LEMMA LoopStopsOnce ==
    ASSUME NEW user, NEW j \in Nat, NEW k \in Nat,
           LoopStopsAt(j, user), LoopStopsAt(k, user)
    PROVE  j = k
<1>1. CASE j < k
  BY <1>1 DEF LoopStopsAt
<1>2. CASE k < j
  BY <1>2 DEF LoopStopsAt
<1>3. QED
  BY <1>1, <1>2

-----------------------------------------------------------------------------
(* The arithmetic.                                                         *)

\* Induction over the naturals, the property being membership of a set.
LEMMA SetInduction ==
    ASSUME NEW S, 0 \in S, \A n \in Nat : n \in S => n + 1 \in S
    PROVE  Nat \subseteq S
<1> SUFFICES ASSUME Nat \ S # {} PROVE FALSE
  OBVIOUS
<1>1. PICK m \in Nat \ S : \A k \in Nat \ S : m <= k
  BY LeastElement
<1>2. m # 0
  OBVIOUS
<1>3. m - 1 \in Nat /\ (m - 1) + 1 = m /\ ~(m <= m - 1)
  BY <1>2
<1>4. m - 1 \in S
  BY <1>1, <1>3
<1>5. QED
  BY <1>1, <1>3, <1>4

LEMMA IntervalInduction ==
    ASSUME NEW n \in Nat, NEW S, 0 \in S,
           \A i \in 0..(n - 1) : i \in S => i + 1 \in S
    PROVE  0..n \subseteq S
<1> DEFINE T == {i \in Nat : i <= n => i \in S}
<1>1. 0 \in T
  OBVIOUS
<1>2. ASSUME NEW i \in Nat, i \in T PROVE i + 1 \in T
  BY <1>2
<1>3. Nat \subseteq T
  <2> HIDE DEF T
  <2>1. QED
    BY <1>1, <1>2, SetInduction
<1>4. QED
  BY <1>3

Cost(m) == Size[m.content] + PerMessage

LEMMA CostType == \A m \in Message : Cost(m) \in Nat
  BY SizeAssumption, BudgetAssumption DEF Cost, Message, PerMessage

\* The partial sums of TrueCost, and the running total of Estimate.
Sums(sum, ms, n) ==
    sum = [i \in 0..n |-> IF i = 0 THEN PerRequest
                          ELSE sum[i - 1] + (Size[ms[i].content] + PerMessage)]
Totals(total, ms, n) ==
    total = [i \in 0..n |-> IF i = 0 THEN PerRequest
                            ELSE addUnits(total[i - 1], addUnits(Size[ms[i].content], PerMessage))]

LEMMA SumsExist ==
    ASSUME NEW ms, NEW n \in Nat
    PROVE  \E sum : Sums(sum, ms, n)
<1> DEFINE S == {i \in Nat : \E sum : Sums(sum, ms, i)}
<1>1. 0 \in S
  <2> DEFINE sum == [i \in 0..0 |-> PerRequest]
  <2>1. Sums(sum, ms, 0)
    BY DEF Sums
  <2>2. QED
    BY <2>1
<1>2. ASSUME NEW i \in Nat, i \in S PROVE i + 1 \in S
  <2>1. PICK sum : Sums(sum, ms, i)
    BY <1>2
  <2> DEFINE more == [j \in 0..(i + 1) |->
                        IF j = i + 1 THEN sum[i] + (Size[ms[i + 1].content] + PerMessage)
                        ELSE sum[j]]
  <2>2. Sums(more, ms, i + 1)
    BY <2>1 DEF Sums
  <2>3. QED
    BY <2>2
<1>3. Nat \subseteq S
  <2> HIDE DEF S
  <2>1. QED
    BY <1>1, <1>2, SetInduction
<1>4. QED
  BY <1>3

LEMMA TotalsExist ==
    ASSUME NEW ms, NEW n \in Nat
    PROVE  \E total : Totals(total, ms, n)
<1> DEFINE S == {i \in Nat : \E total : Totals(total, ms, i)}
<1>1. 0 \in S
  <2> DEFINE total == [i \in 0..0 |-> PerRequest]
  <2>1. Totals(total, ms, 0)
    BY DEF Totals
  <2>2. QED
    BY <2>1
<1>2. ASSUME NEW i \in Nat, i \in S PROVE i + 1 \in S
  <2>1. PICK total : Totals(total, ms, i)
    BY <1>2
  <2> DEFINE more == [j \in 0..(i + 1) |->
                        IF j = i + 1
                        THEN addUnits(total[i], addUnits(Size[ms[i + 1].content], PerMessage))
                        ELSE total[j]]
  <2>2. Totals(more, ms, i + 1)
    BY <2>1 DEF Totals
  <2>3. QED
    BY <2>2
<1>3. Nat \subseteq S
  <2> HIDE DEF S
  <2>1. QED
    BY <1>1, <1>2, SetInduction
<1>4. QED
  BY <1>3

\* TrueCost is the last of its partial sums.
LEMMA CostSums ==
    ASSUME NEW ms \in Seq(Message)
    PROVE  \E sum \in [0..Len(ms) -> Nat] :
              /\ sum[0] = PerRequest
              /\ \A i \in 1..Len(ms) : sum[i] = sum[i - 1] + Cost(ms[i])
              /\ TrueCost(ms) = sum[Len(ms)]
<1> DEFINE sum == CHOOSE sum : Sums(sum, ms, Len(ms))
<1>1. Sums(sum, ms, Len(ms))
  BY SumsExist
<1>2. TrueCost(ms) = sum[Len(ms)]
  BY DEF TrueCost, Sums
<1> HIDE DEF sum
<1>3. /\ DOMAIN sum = 0..Len(ms)
      /\ sum = [i \in 0..Len(ms) |-> sum[i]]
      /\ sum[0] = PerRequest
      /\ \A i \in 1..Len(ms) : sum[i] = sum[i - 1] + Cost(ms[i])
  BY <1>1 DEF Sums, Cost
<1>4. \A i \in 0..Len(ms) : sum[i] \in Nat
  <2> DEFINE S == {i \in 0..Len(ms) : sum[i] \in Nat}
  <2>1. 0 \in S
    BY <1>3 DEF PerRequest
  <2>2. ASSUME NEW i \in 0..(Len(ms) - 1), i \in S PROVE i + 1 \in S
    <3>1. i + 1 \in 1..Len(ms) /\ (i + 1) - 1 = i
      OBVIOUS
    <3>2. sum[i + 1] = sum[i] + Cost(ms[i + 1])
      BY <1>3, <3>1
    <3>3. Cost(ms[i + 1]) \in Nat
      BY <3>1, CostType
    <3>4. QED
      BY <2>2, <3>1, <3>2, <3>3
  <2>3. 0..Len(ms) \subseteq S
    <3> HIDE DEF S
    <3>1. QED
      BY <2>1, <2>2, IntervalInduction
  <2>4. QED
    BY <2>3
<1>5. sum \in [0..Len(ms) -> Nat]
  BY <1>3, <1>4
<1>6. QED
  BY <1>2, <1>3, <1>5

\* The running total of Estimate is the partial sum, or stuck at Overflow once
\* the sum exceeds the width.
LEMMA EstimateExact ==
    ASSUME NEW ms \in Seq(Message)
    PROVE  Estimate(ms) = IF TrueCost(ms) <= MaxInt THEN TrueCost(ms) ELSE Overflow
<1> DEFINE total == CHOOSE total : Totals(total, ms, Len(ms))
           Exact(n) == IF n <= MaxInt THEN n ELSE Overflow
<1>1. Totals(total, ms, Len(ms))
  BY TotalsExist
<1>2. Estimate(ms) = total[Len(ms)]
  BY DEF Estimate, Totals
<1> HIDE DEF total
<1>3. /\ total[0] = PerRequest
      /\ \A i \in 1..Len(ms) :
            total[i] = addUnits(total[i - 1], addUnits(Size[ms[i].content], PerMessage))
  BY <1>1 DEF Totals
<1>4. PICK sum \in [0..Len(ms) -> Nat] :
          /\ sum[0] = PerRequest
          /\ \A i \in 1..Len(ms) : sum[i] = sum[i - 1] + Cost(ms[i])
          /\ TrueCost(ms) = sum[Len(ms)]
  BY CostSums
<1> DEFINE S == {i \in 0..Len(ms) : total[i] = Exact(sum[i])}
<1>5. 0 \in S
  BY <1>3, <1>4, BudgetAssumption
<1>6. ASSUME NEW i \in 0..(Len(ms) - 1), i \in S PROVE i + 1 \in S
  <2> DEFINE m == ms[i + 1]
  <2>1. i + 1 \in 1..Len(ms) /\ (i + 1) - 1 = i
    OBVIOUS
  <2>2. /\ total[i + 1] = addUnits(total[i], addUnits(Size[m.content], PerMessage))
        /\ sum[i + 1] = sum[i] + Cost(m)
    BY <1>3, <1>4, <2>1
  <2>3. Size[m.content] \in 0..MaxInt
    <3>1. m \in Message
      BY <2>1
    <3>2. m.content \in Texts
      BY <3>1 DEF Message
    <3>3. QED
      BY <3>2, SizeAssumption
  <2>4. total[i] = Exact(sum[i]) /\ sum[i] \in Nat
    BY <1>6, <2>1
  <2>5. addUnits(Size[m.content], PerMessage) = Exact(Cost(m)) /\ Cost(m) \in Nat
    BY <2>3, BudgetAssumption DEF addUnits, Cost, PerMessage, Overflow
  <2>6. addUnits(Exact(sum[i]), Exact(Cost(m))) = Exact(sum[i] + Cost(m))
    BY <2>4, <2>5, BudgetAssumption DEF addUnits, Overflow
  <2>7. QED
    BY <2>1, <2>2, <2>4, <2>5, <2>6
<1>7. 0..Len(ms) \subseteq S
  <2> HIDE DEF S
  <2>1. Len(ms) \in Nat
    OBVIOUS
  <2>2. QED
    BY <1>5, <1>6, <2>1, IntervalInduction
<1>8. QED
  BY <1>2, <1>4, <1>7

LEMMA TrueCostType == ASSUME NEW ms \in Seq(Message) PROVE TrueCost(ms) \in Nat
  BY CostSums

\* What Fits decides, in the integers.
LEMMA FitsExactly ==
    ASSUME NEW ms \in Seq(Message)
    PROVE  Fits(ms) = IF TrueCost(ms) + Reserve > MaxInt THEN "overflow"
                      ELSE IF TrueCost(ms) + Reserve <= Budget THEN "fits" ELSE "tooBig"
  BY EstimateExact, TrueCostType, BudgetAssumption DEF Fits, addUnits, Overflow

\* The cost of a conversation is that of its parts.
LEMMA CostOfBoth ==
    ASSUME NEW s \in Seq(Message), NEW t \in Seq(Message)
    PROVE  TrueCost(s \o t) = TrueCost(s) + TrueCost(t) - PerRequest
<1> DEFINE c == s \o t
<1>1. /\ c \in Seq(Message)
      /\ Len(c) = Len(s) + Len(t)
      /\ \A i \in 1..Len(s) : c[i] = s[i]
      /\ \A i \in 1..Len(t) : c[Len(s) + i] = t[i]
  OBVIOUS
<1> HIDE DEF c
<1>2. PICK fs \in [0..Len(s) -> Nat] :
          /\ fs[0] = PerRequest
          /\ \A i \in 1..Len(s) : fs[i] = fs[i - 1] + Cost(s[i])
          /\ TrueCost(s) = fs[Len(s)]
  BY CostSums
<1>3. PICK ft \in [0..Len(t) -> Nat] :
          /\ ft[0] = PerRequest
          /\ \A i \in 1..Len(t) : ft[i] = ft[i - 1] + Cost(t[i])
          /\ TrueCost(t) = ft[Len(t)]
  BY CostSums
<1>4. PICK fc \in [0..Len(c) -> Nat] :
          /\ fc[0] = PerRequest
          /\ \A i \in 1..Len(c) : fc[i] = fc[i - 1] + Cost(c[i])
          /\ TrueCost(c) = fc[Len(c)]
  BY <1>1, CostSums
<1>5. fc[Len(s)] = fs[Len(s)]
  <2> DEFINE S == {i \in 0..Len(s) : fc[i] = fs[i]}
  <2>1. 0 \in S
    BY <1>2, <1>4
  <2>2. ASSUME NEW i \in 0..(Len(s) - 1), i \in S PROVE i + 1 \in S
    <3>1. i + 1 \in 1..Len(s) /\ i + 1 \in 1..Len(c) /\ (i + 1) - 1 = i
      BY <1>1
    <3>2. fc[i + 1] = fc[i] + Cost(c[i + 1]) /\ fs[i + 1] = fs[i] + Cost(s[i + 1])
      BY <1>2, <1>4, <3>1
    <3>3. QED
      BY <1>1, <2>2, <3>1, <3>2
  <2>3. Len(s) \in Nat
    OBVIOUS
  <2>4. 0..Len(s) \subseteq S
    <3> HIDE DEF S
    <3>1. QED
      BY <2>1, <2>2, <2>3, IntervalInduction
  <2>5. QED
    BY <2>3, <2>4
<1>6. fc[Len(c)] = fs[Len(s)] + ft[Len(t)] - PerRequest
  <2> DEFINE S == {i \in 0..Len(t) : fc[Len(s) + i] = fs[Len(s)] + ft[i] - PerRequest}
  <2>1. 0 \in S
    <3>1. 0 \in 0..Len(t) /\ Len(s) + 0 = Len(s) /\ Len(s) \in 0..Len(s)
      OBVIOUS
    <3>2. fs[Len(s)] \in Nat
      BY <1>2, <3>1
    <3>3. fs[Len(s)] = fs[Len(s)] + ft[0] - PerRequest
      BY <1>3, <3>2 DEF PerRequest
    <3>4. fc[Len(s) + 0] = fs[Len(s)] + ft[0] - PerRequest
      BY <1>5, <3>1, <3>3, Zenon
    <3>5. QED
      BY <3>1, <3>4
  <2>2. ASSUME NEW i \in 0..(Len(t) - 1), i \in S PROVE i + 1 \in S
    <3>1. /\ i + 1 \in 1..Len(t) /\ (i + 1) - 1 = i
          /\ Len(s) + (i + 1) \in 1..Len(c) /\ (Len(s) + (i + 1)) - 1 = Len(s) + i
      BY <1>1
    <3>2. /\ fc[Len(s) + (i + 1)] = fc[Len(s) + i] + Cost(t[i + 1])
          /\ ft[i + 1] = ft[i] + Cost(t[i + 1])
      BY <1>1, <1>3, <1>4, <3>1
    <3>3. t[i + 1] \in Message /\ i \in 0..Len(t) /\ Len(s) \in 0..Len(s)
      BY <3>1
    <3>5. Cost(t[i + 1]) \in Nat /\ ft[i] \in Nat /\ fs[Len(s)] \in Nat
      BY <3>3, CostType, <1>2, <1>3
    <3>4. QED
      BY <2>2, <3>1, <3>2, <3>5 DEF PerRequest
  <2>3. Len(t) \in Nat
    OBVIOUS
  <2>4. 0..Len(t) \subseteq S
    <3> HIDE DEF S
    <3>1. QED
      BY <2>1, <2>2, <2>3, IntervalInduction
  <2>5. Len(t) \in S
    <3> HIDE DEF S
    <3>1. QED
      BY <2>3, <2>4
  <2>6. QED
    BY <1>1, <2>5
<1>7. QED
  BY <1>2, <1>3, <1>4, <1>6 DEF c

LEMMA CostOfOne ==
    ASSUME NEW m \in Message
    PROVE  TrueCost(<<m>>) = PerRequest + Cost(m)
<1>1. <<m>> \in Seq(Message) /\ Len(<<m>>) = 1 /\ <<m>>[1] = m
  OBVIOUS
<1>2. PICK sum \in [0..1 -> Nat] :
          /\ sum[0] = PerRequest
          /\ \A i \in 1..1 : sum[i] = sum[i - 1] + Cost(<<m>>[i])
          /\ TrueCost(<<m>>) = sum[1]
  BY <1>1, CostSums
<1>3. QED
  BY <1>1, <1>2

LEMMA CostAtLeastEmpty ==
    ASSUME NEW ms \in Seq(Message)
    PROVE  TrueCost(ms) >= PerRequest
<1>1. PICK sum \in [0..Len(ms) -> Nat] :
          /\ sum[0] = PerRequest
          /\ \A i \in 1..Len(ms) : sum[i] = sum[i - 1] + Cost(ms[i])
          /\ TrueCost(ms) = sum[Len(ms)]
  BY CostSums
<1>2. Len(ms) \in Nat
  OBVIOUS
<1> DEFINE S == {i \in 0..Len(ms) : sum[i] >= PerRequest}
<1>3. 0 \in S
  BY <1>1, <1>2 DEF PerRequest
<1>4. ASSUME NEW i \in 0..(Len(ms) - 1), i \in S PROVE i + 1 \in S
  <2>1. /\ i + 1 \in 1..Len(ms) /\ (i + 1) - 1 = i
        /\ i \in 0..Len(ms) /\ i + 1 \in 0..Len(ms)
    BY <1>2
  <2>2. sum[i + 1] = sum[i] + Cost(ms[i + 1])
    BY <1>1, <2>1
  <2>3. ms[i + 1] \in Message
    BY <2>1
  <2>4. Cost(ms[i + 1]) \in Nat /\ sum[i] \in Nat
    BY <1>1, <2>1, <2>3, CostType
  <2>5. QED
    BY <1>4, <2>1, <2>2, <2>4 DEF PerRequest
<1>5. 0..Len(ms) \subseteq S
  <2> HIDE DEF S
  <2>1. QED
    BY <1>2, <1>3, <1>4, IntervalInduction
<1>6. Len(ms) \in S
  <2> HIDE DEF S
  <2>1. QED
    BY <1>2, <1>5
<1>7. QED
  BY <1>1, <1>6

-----------------------------------------------------------------------------
(* The inductive invariant.                                                *)

ConvInv ==
    /\ ConvTypeOK
    /\ HistoryIsPairs
    /\ StagedIsLongestThatFits
    /\ HistoryWasARequest

\* What a successful Stage stages.
LEMMA StageFitsEffect ==
    ASSUME ConvInv, NEW text \in UserTexts, StageFits(text)
    PROVE  \E k \in Nat :
              /\ 2 * k <= Len(history)
              /\ staged' = [history |-> DropPairs(history, k),
                            user |-> User(text), trimmed |-> k]
              /\ Fits(Candidate(k, User(text))) = "fits"
              /\ \A j \in 0..(k - 1) : Fits(Candidate(j, User(text))) = "tooBig"
<1> DEFINE u == User(text)
<1>1. PICK k \in Drops :
          /\ LoopStopsAt(k, u)
          /\ staged' = [history |-> DropPairs(history, k), user |-> u, trimmed |-> k]
  BY DEF StageFits
<1>2. k \in Nat /\ 2 * k <= Len(history)
  BY DEF Drops, ConvInv, ConvTypeOK
<1>3. Drops \subseteq Nat
  BY DEF Drops
<1>4. (CHOOSE j \in Drops : LoopStopsAt(j, u)) = k
  BY <1>1, <1>2, <1>3, LoopStopsOnce
<1>5. Fits(Candidate(k, u)) = "fits"
  BY <1>1, <1>4, Zenon DEF StageFits, StageVerdict
<1>6. QED
  BY <1>1, <1>2, <1>5 DEF LoopStopsAt

LEMMA ConvInitInv == ConvInit => ConvInv
  BY DEF ConvInit, ConvInv, ConvTypeOK, Errors, HistoryIsPairs, IsPairs,
         StagedIsLongestThatFits, HistoryWasARequest

LEMMA StageFitsInv ==
    ASSUME ConvInv, NEW text \in UserTexts, StageFits(text)
    PROVE  ConvInv'
<1> DEFINE u == User(text)
<1>1. PICK k \in Nat :
          /\ 2 * k <= Len(history)
          /\ staged' = [history |-> DropPairs(history, k), user |-> u, trimmed |-> k]
          /\ Fits(Candidate(k, u)) = "fits"
          /\ \A j \in 0..(k - 1) : Fits(Candidate(j, u)) = "tooBig"
  BY StageFitsEffect
<1>2. history' = history /\ err' = "none"
  BY DEF StageFits
<1>3. ConvTypeOK'
  <2>1. DropPairs(history, k) \in Seq(Message)
    BY <1>1, DropPairsProperties DEF ConvInv, ConvTypeOK
  <2>2. u \in [role : {"user"}, content : UserTexts]
    BY DEF User
  <2>3. staged' \in StagedTurn
    BY <1>1, <2>1, <2>2 DEF StagedTurn
  <2>4. QED
    BY <1>2, <2>3 DEF ConvInv, ConvTypeOK, Errors
<1>4. HistoryIsPairs'
  BY <1>2 DEF ConvInv, HistoryIsPairs
<1>5. StagedIsLongestThatFits'
  <2>1. /\ staged'.trimmed = k
        /\ staged'.history = DropPairs(history, k)
        /\ staged'.user = u
    BY <1>1
  <2>2. Fits(prefix(staged'.history, staged'.user)) = "fits"
    BY <1>1, <2>1 DEF Candidate
  <2>3. \A j \in 0..(staged'.trimmed - 1) :
           Fits(prefix(DropPairs(history, j), staged'.user)) # "fits"
    BY <1>1, <2>1 DEF Candidate
  <2>4. QED
    BY <1>1, <1>2, <2>1, <2>2, <2>3 DEF StagedIsLongestThatFits, Candidate
<1>6. HistoryWasARequest'
  BY <1>2 DEF ConvInv, HistoryWasARequest
<1>7. QED
  BY <1>3, <1>4, <1>5, <1>6 DEF ConvInv

LEMMA CommitInv ==
    ASSUME ConvInv, NEW text \in Replies, CommitStaged(text)
    PROVE  ConvInv'
<1> DEFINE h == staged.history
           u == staged.user
<1>1. /\ h \in Seq(Message)
      /\ u \in Message
      /\ u.role = "user"
      /\ Assistant(text) \in Message
      /\ text \in Texts
  BY TextAssumption
     DEF ConvInv, ConvTypeOK, CommitStaged, StagedTurn, Message, Roles, Assistant
<1>2. /\ history' = h \o <<u, Assistant(text)>>
      /\ staged' = NoTurn
      /\ err' = "none"
  BY DEF CommitStaged
<1>3. IsPairs(h)
  <2>1. /\ staged.trimmed \in Nat
        /\ 2 * staged.trimmed <= Len(history)
        /\ h = DropPairs(history, staged.trimmed)
    BY DEF ConvInv, ConvTypeOK, CommitStaged, StagedTurn, StagedIsLongestThatFits
  <2>2. QED
    BY <2>1, DropPairsProperties DEF ConvInv, ConvTypeOK, HistoryIsPairs
<1>4. ConvTypeOK' /\ HistoryIsPairs'
  <2>1. history' \in Seq(Message) /\ IsPairs(history')
    BY <1>1, <1>2, <1>3, AppendPair
  <2>2. QED
    BY <1>2, <2>1 DEF ConvTypeOK, Errors, HistoryIsPairs
<1>5. StagedIsLongestThatFits'
  BY <1>2 DEF StagedIsLongestThatFits
<1>6. HistoryWasARequest'
  <2>1. Len(history') = Len(h) + 2
    BY <1>1, <1>2
  <2>2. SubSeq(history', 1, Len(history') - 1) = h \o <<u>>
    <3>1. SubSeq(h \o <<u, Assistant(text)>>, 1, Len(h) + 1) = h \o <<u>>
      <4> DEFINE a == Assistant(text)
      <4>1. <<u>> \in Seq(Message) /\ <<a>> \in Seq(Message) /\ h \in Seq(Message)
        BY <1>1
      <4>2. /\ h \o <<u>> \in Seq(Message)
            /\ Len(h \o <<u>>) = Len(h) + 1
        BY <4>1, ConcatProperties
      <4>3. h \o <<u, a>> = (h \o <<u>>) \o <<a>>
        <5>1. <<u, a>> = <<u>> \o <<a>>
          OBVIOUS
        <5>2. QED
          BY <4>1, <5>1, ConcatAssociative
      <4>4. SubSeq((h \o <<u>>) \o <<a>>, 1, Len(h) + 1) = SubSeq(h \o <<u>>, 1, Len(h) + 1)
        <5>1. 1 \in 1..Len(h \o <<u>>) /\ Len(h) + 1 \in 1..Len(h \o <<u>>)
          BY <4>1, <4>2
        <5>2. QED
          BY <4>1, <4>2, <5>1, SubSeqOfConcat1
      <4>5. SubSeq(h \o <<u>>, 1, Len(h) + 1) = h \o <<u>>
        BY <4>2, SubSeqFull
      <4>6. QED
        BY <4>3, <4>4, <4>5
    <3>2. Len(history') - 1 = Len(h) + 1
      BY <1>1, <2>1
    <3>3. QED
      BY <1>2, <3>1, <3>2
  <2>3. System \o (h \o <<u>>) = prefix(h, u)
    BY <1>1, PrefixAssociates
  <2>4. Fits(prefix(h, u)) = "fits"
    BY DEF ConvInv, CommitStaged, StagedIsLongestThatFits
  <2>5. QED
    BY <2>2, <2>3, <2>4 DEF HistoryWasARequest
<1>7. QED
  BY <1>4, <1>5, <1>6 DEF ConvInv

\* The other calls leave the history as it is or empty it, and leave no turn
\* staged or the one that was.
LEMMA OtherStepsInv ==
    ASSUME ConvInv,
           \/ UNCHANGED convVars
           \/ UNCHANGED <<history, staged>> /\ err' \in Errors
           \/ Abort
           \/ Clear
    PROVE  ConvInv'
<1>1. CASE UNCHANGED <<history, staged>> /\ err' \in Errors
  BY <1>1 DEF ConvInv, ConvTypeOK, HistoryIsPairs, StagedIsLongestThatFits, Candidate,
              HistoryWasARequest
<1>2. CASE Abort
  BY <1>2 DEF Abort, ConvInv, ConvTypeOK, Errors, HistoryIsPairs,
              StagedIsLongestThatFits, HistoryWasARequest
<1>3. CASE Clear
  BY <1>3 DEF Clear, ConvInv, ConvTypeOK, Errors, HistoryIsPairs, IsPairs,
              StagedIsLongestThatFits, HistoryWasARequest
<1>4. CASE UNCHANGED convVars
  BY <1>4, <1>1 DEF convVars, ConvInv, ConvTypeOK
<1>5. QED
  BY <1>1, <1>2, <1>3, <1>4

LEMMA VerdictIsError ==
    ASSUME NEW text \in UserTexts, StageVerdict(User(text)) # "fits"
    PROVE  StageVerdict(User(text)) \in Errors
<1>1. \A ms : Fits(ms) \in {"fits", "tooBig", "overflow"}
  BY DEF Fits
<1>2. QED
  BY <1>1 DEF StageVerdict, Errors

LEMMA ConvNextInv == ConvInv /\ [ConvNext]_convVars => ConvInv'
<1> SUFFICES ASSUME ConvInv, [ConvNext]_convVars PROVE ConvInv'
  OBVIOUS
<1>1. ASSUME NEW text \in UserTexts, Stage(text) PROVE ConvInv'
  <2>1. CASE StageFits(text)
    BY <2>1, StageFitsInv
  <2>2. CASE StageFails(text)
    BY <2>2, VerdictIsError, OtherStepsInv DEF StageFails
  <2>3. CASE StageAgain(text)
    BY <2>3, OtherStepsInv DEF StageAgain, Errors
  <2>4. QED
    BY <1>1, <2>1, <2>2, <2>3 DEF Stage
<1>2. ASSUME NEW text \in Replies, CommitStaged(text) PROVE ConvInv'
  BY <1>2, CommitInv
<1>3. CASE CommitNothing
  BY <1>3, OtherStepsInv DEF CommitNothing, Errors
<1>4. CASE Abort \/ Clear \/ UNCHANGED convVars
  BY <1>4, OtherStepsInv
<1>5. QED
  BY <1>1, <1>2, <1>3, <1>4 DEF ConvNext

LEMMA ConvInvAlways == ConvSpec => []ConvInv
  BY ConvInitInv, ConvNextInv, PTL DEF ConvSpec

-----------------------------------------------------------------------------
(* The results.                                                            *)

\* Type correctness of the conversation, in every order of calls.
THEOREM ConvTypeCorrect == ConvSpec => []ConvTypeOK
<1>1. ConvInv => ConvTypeOK
  BY DEF ConvInv
<1>2. QED
  BY <1>1, ConvInvAlways, PTL

\* Trimming, committing, aborting and clearing never tear a user/assistant
\* pair apart.
THEOREM PairsAlways == ConvSpec => []HistoryIsPairs
<1>1. ConvInv => HistoryIsPairs
  BY DEF ConvInv
<1>2. QED
  BY <1>1, ConvInvAlways, PTL

\* A staged turn fits the budget, and no longer suffix of the history does.
THEOREM StagedFitsAlways == ConvSpec => []StagedIsLongestThatFits
<1>1. ConvInv => StagedIsLongestThatFits
  BY DEF ConvInv
<1>2. QED
  BY <1>1, ConvInvAlways, PTL

\* The committed history exceeds the budget by its last reply at most.
THEOREM HistoryBoundedAlways == ConvSpec => []HistoryWasARequest
<1>1. ConvInv => HistoryWasARequest
  BY DEF ConvInv
<1>2. QED
  BY <1>1, ConvInvAlways, PTL

\* The trimming loop never runs out of pairs: its last error exit is dead code.
LEMMA LoopEnds ==
    ASSUME ConvInv, NEW text \in UserTexts, Fits(prefix(<<>>, User(text))) = "fits"
    PROVE  \E k \in Drops : LoopStopsAt(k, User(text))
<1> DEFINE u == User(text)
           last == Len(history) \div 2
           stops == {k \in Drops : Fits(Candidate(k, u)) # "tooBig"}
<1>1. Len(history) \in Nat /\ Len(history) % 2 = 0
  BY DEF ConvInv, ConvTypeOK, HistoryIsPairs, IsPairs
<1>2. last \in Drops /\ 2 * last = Len(history)
  BY <1>1 DEF Drops
<1>3. DropPairs(history, last) = <<>>
  BY <1>1, <1>2, SubSeqEmpty DEF DropPairs
<1>4. last \in stops
  BY <1>2, <1>3 DEF Candidate
<1>5. PICK k \in stops : \A j \in stops : k <= j
  <2>1. stops \subseteq Nat
    BY <1>1 DEF Drops
  <2> HIDE DEF stops
  <2>2. QED
    BY <1>4, <2>1, LeastElement
<1>6. k \in Drops /\ LoopStopsAt(k, u)
  BY <1>1, <1>5 DEF Drops, LoopStopsAt
<1>7. QED
  BY <1>6

\* A message that fits without history always ends the trimming loop.
THEOREM TrimmingAlwaysEnds == ConvSpec => []TrimmingEnds
<1>1. ConvInv => TrimmingEnds
  BY LoopEnds DEF TrimmingEnds
<1>2. QED
  BY <1>1, ConvInvAlways, PTL

\* What Estimate and Fits are asked about is a sequence of messages.
LEMMA CandidateType ==
    ASSUME ConvTypeOK, NEW k \in Drops, NEW text \in UserTexts
    PROVE  /\ DropPairs(history, k) \in Seq(Message)
           /\ User(text) \in Message
           /\ Candidate(k, User(text)) = System \o (DropPairs(history, k) \o <<User(text)>>)
           /\ Candidate(k, User(text)) \in Seq(Message)
<1>1. k \in Nat /\ 2 * k <= Len(history) /\ history \in Seq(Message)
  BY DEF Drops, ConvTypeOK
<1>2. DropPairs(history, k) \in Seq(Message)
  BY <1>1, DropPairsProperties
<1>3. User(text) \in Message
  BY TextAssumption DEF User, Message, Roles
<1>4. Candidate(k, User(text)) = System \o (DropPairs(history, k) \o <<User(text)>>)
  BY <1>2, <1>3, PrefixAssociates DEF Candidate
<1> DEFINE d == DropPairs(history, k) \o <<User(text)>>
<1>5. d \in Seq(Message)
  BY <1>2, <1>3
<1>6. System \o d \in Seq(Message)
  <2> HIDE DEF d
  <2>1. QED
    BY <1>5, SystemType
<1>7. QED
  BY <1>2, <1>3, <1>4, <1>6

\* On every candidate the trimming loop looks at, the additions with a sticky
\* overflow compute the mathematical sum, or report that it is too wide.
THEOREM EstimateAlwaysExact == ConvSpec => []EstimateIsExact
<1>1. ConvInv => EstimateIsExact
  BY CandidateType, EstimateExact DEF ConvInv, EstimateIsExact
<1>2. QED
  BY <1>1, ConvInvAlways, PTL

\* Dropping pairs never makes a candidate dearer.
LEMMA DroppingIsCheaper ==
    ASSUME ConvTypeOK, NEW k \in Drops, NEW text \in UserTexts
    PROVE  TrueCost(Candidate(k, User(text))) <= TrueCost(Candidate(0, User(text)))
<1> DEFINE u == User(text)
           d == DropPairs(history, k)
           h == SubSeq(history, 1, 2 * k)
<1>1. /\ k \in Nat /\ 2 * k <= Len(history) /\ history \in Seq(Message)
      /\ u \in Message
      /\ d \in Seq(Message)
      /\ Candidate(k, u) = System \o (d \o <<u>>)
  BY CandidateType DEF Drops, ConvTypeOK
<1>2. 0 \in Drops
  BY DEF Drops, ConvTypeOK
<1>3. DropPairs(history, 0) = history
  BY <1>1, SubSeqFull DEF DropPairs
<1>4. Candidate(0, u) = System \o (history \o <<u>>)
  BY <1>2, <1>3, CandidateType
<1>5. h \in Seq(Message) /\ history = h \o d
  <2>1. h \in Seq(Message)
    BY <1>1
  <2>2. /\ 1 \in 1..(Len(history) + 1)
        /\ 2 * k \in (1 - 1)..Len(history)
        /\ Len(history) \in (2 * k)..Len(history)
    BY <1>1
  <2>3. h \o d = SubSeq(history, 1, Len(history))
    BY <1>1, <2>2, ConcatAdjacentSubSeq DEF DropPairs
  <2>4. QED
    BY <1>1, <2>1, <2>3, SubSeqFull
<1>6. <<u>> \in Seq(Message)
  BY <1>1
<1> HIDE DEF d, h, u
<1>7. /\ TrueCost(history) = TrueCost(h) + TrueCost(d) - PerRequest
      /\ TrueCost(h) \in Nat /\ TrueCost(d) \in Nat /\ TrueCost(history) \in Nat
      /\ TrueCost(System) \in Nat /\ TrueCost(<<u>>) \in Nat
  BY <1>1, <1>5, <1>6, CostOfBoth, TrueCostType, SystemType
<1>8. TrueCost(h) >= PerRequest
  BY <1>5, CostSums, CostAtLeastEmpty
<1>9. /\ TrueCost(Candidate(k, u)) = TrueCost(System) + TrueCost(d \o <<u>>) - PerRequest
      /\ TrueCost(d \o <<u>>) = TrueCost(d) + TrueCost(<<u>>) - PerRequest
  <2>1. d \o <<u>> \in Seq(Message)
    BY <1>1, <1>6
  <2>2. QED
    BY <1>1, <1>6, <2>1, CostOfBoth, SystemType
<1>10. /\ TrueCost(Candidate(0, u)) = TrueCost(System) + TrueCost(history \o <<u>>) - PerRequest
       /\ TrueCost(history \o <<u>>) = TrueCost(history) + TrueCost(<<u>>) - PerRequest
  <2>1. history \o <<u>> \in Seq(Message)
    BY <1>1, <1>6
  <2>2. QED
    BY <1>1, <1>4, <1>6, <2>1, CostOfBoth, SystemType
<1>11. TrueCost(Candidate(k, u)) <= TrueCost(Candidate(0, u))
  BY <1>7, <1>8, <1>9, <1>10 DEF PerRequest
<1>12. QED
  BY <1>11 DEF u

\* The whole history with one more message costs at most the budget, the last
\* reply and that message.
LEMMA CandidateBounded ==
    ASSUME ConvInv, NEW text \in UserTexts, Fits(prefix(<<>>, User(text))) = "fits",
           NEW maxSize \in Nat, \A t \in Texts : Size[t] <= maxSize
    PROVE  TrueCost(Candidate(0, User(text))) + Reserve <= Budget + 2 * (maxSize + PerMessage)
<1> DEFINE u == User(text)
           front == SubSeq(history, 1, Len(history) - 1)
           last == history[Len(history)]
<1>1. /\ history \in Seq(Message)
      /\ u \in Message
      /\ <<u>> \in Seq(Message)
  BY TextAssumption DEF ConvInv, ConvTypeOK, User, Message, Roles
<1>2. Candidate(0, u) = System \o (history \o <<u>>)
  <2>1. DropPairs(history, 0) = history
    BY <1>1, SubSeqFull DEF DropPairs
  <2>2. QED
    BY <1>1, <2>1, PrefixAssociates DEF Candidate
<1>3. \A m \in Message : Cost(m) \in Nat /\ Cost(m) <= maxSize + PerMessage
  <2> SUFFICES ASSUME NEW m \in Message
               PROVE  Cost(m) \in Nat /\ Cost(m) <= maxSize + PerMessage
    OBVIOUS
  <2>1. m.content \in Texts
    BY DEF Message
  <2>2. Size[m.content] \in Nat /\ Size[m.content] <= maxSize
    BY <2>1, SizeAssumption, BudgetAssumption
  <2>3. QED
    BY <2>2 DEF Cost, PerMessage
<1>4. CASE history = <<>>
  <2>1. prefix(<<>>, u) = Candidate(0, u)
    <3>1. DropPairs(history, 0) = history
      BY <1>1, SubSeqFull DEF DropPairs
    <3>2. QED
      BY <1>4, <3>1 DEF Candidate
  <2>2. Candidate(0, u) \in Seq(Message)
    BY <1>1, <1>2, <1>4, SystemType
  <2>3. QED
    <3> HIDE DEF u
    <3>1. TrueCost(Candidate(0, u)) + Reserve <= Budget
      BY <2>1, <2>2, FitsExactly DEF u
    <3>2. QED
      BY <2>2, <3>1, TrueCostType, BudgetAssumption DEF PerMessage, u
<1>5. CASE history # <<>>
  <2>1. /\ Fits(System \o front) = "fits"
        /\ Len(history) \in Nat /\ Len(history) >= 1
    BY <1>1, <1>5 DEF ConvInv, HistoryWasARequest
  <2>2. front \in Seq(Message) /\ last \in Message
    BY <1>1, <2>1
  <2>3. history = front \o <<last>>
    <3>1. 1 \in 1..Len(history) /\ Len(history) \in 1..Len(history)
      BY <2>1
    <3>2. SubSeq(history, 1, Len(history)) = front \o <<last>>
      BY <1>1, <3>1, SubSeqRecursiveSecond
    <3>3. QED
      BY <1>1, <3>2, SubSeqFull
  <2>4. <<last>> \in Seq(Message) /\ history \o <<u>> \in Seq(Message)
        /\ System \o front \in Seq(Message)
    <3> HIDE DEF front, last, u
    <3>1. QED
      BY <1>1, <2>2, SystemType
  <2> HIDE DEF front, last, u
  <2>5. TrueCost(System \o front) + Reserve <= Budget
    BY <2>1, <2>4, FitsExactly
  <2>6. /\ TrueCost(System \o front) = TrueCost(System) + TrueCost(front) - PerRequest
        /\ TrueCost(history) = TrueCost(front) + TrueCost(<<last>>) - PerRequest
        /\ TrueCost(history \o <<u>>) = TrueCost(history) + TrueCost(<<u>>) - PerRequest
        /\ TrueCost(Candidate(0, u)) = TrueCost(System) + TrueCost(history \o <<u>>) - PerRequest
    BY <1>1, <1>2, <2>2, <2>3, <2>4, CostOfBoth, SystemType
  <2>7. /\ TrueCost(<<last>>) = PerRequest + Cost(last)
        /\ TrueCost(<<u>>) = PerRequest + Cost(u)
    BY <1>1, <2>2, CostOfOne
  <2>8. /\ TrueCost(System) \in Nat /\ TrueCost(front) \in Nat
        /\ Cost(last) \in Nat /\ Cost(u) \in Nat
        /\ Cost(last) <= maxSize + PerMessage /\ Cost(u) <= maxSize + PerMessage
    BY <1>1, <1>3, <2>2, TrueCostType, SystemType
  <2>9. TrueCost(Candidate(0, u)) + Reserve <= Budget + 2 * (maxSize + PerMessage)
    <3> DEFINE sys == TrueCost(System)
               fr == TrueCost(front)
               hist == TrueCost(history)
               more == TrueCost(history \o <<u>>)
               all == TrueCost(Candidate(0, u))
    <3>1. sys + fr - PerRequest + Reserve <= Budget /\ sys \in Nat /\ fr \in Nat
      BY <2>5, <2>6, <2>8
    <3>2. hist = fr + (PerRequest + Cost(last)) - PerRequest
          /\ more = hist + (PerRequest + Cost(u)) - PerRequest /\ all = sys + more - PerRequest
      BY <2>6, <2>7
    <3> HIDE DEF sys, fr, hist, more, all
    <3>3. all = (sys + fr - PerRequest) + Cost(last) + Cost(u)
      <4> DEFINE x == Cost(last)
                 y == Cost(u)
      <4>1. x \in Nat /\ y \in Nat /\ hist = fr + (32 + x) - 32 /\ more = hist + (32 + y) - 32
            /\ all = sys + more - 32
        BY <2>8, <3>2 DEF PerRequest
      <4> HIDE DEF x, y
      <4>2. all = (sys + fr - 32) + x + y
        BY <3>1, <4>1
      <4>3. QED
        BY <4>2 DEF x, y, PerRequest
    <3>4. all + Reserve <= Budget + 2 * (maxSize + PerMessage)
      BY <1>1, <2>8, <3>1, <3>3, BudgetAssumption DEF PerRequest, PerMessage
    <3>5. QED
      BY <3>4 DEF all
  <2>10. QED
    BY <2>9 DEF u
<1>6. QED
  BY <1>4, <1>5

\* Where the budget leaves room below the integer width for two more messages,
\* Stage refuses a message only when the message itself, with the system
\* prompt, does not fit: the overflow that run conv_refusal shows needs a
\* budget within two messages of math.MaxInt64.
THEOREM OnlyOversizedRefused ==
    ASSUME NEW maxSize \in Nat, \A t \in Texts : Size[t] <= maxSize,
           Budget + 2 * (maxSize + PerMessage) <= MaxInt
    PROVE  ConvSpec => RefusesOnlyOversizedMessages
<1>1. ASSUME ConvInv, NEW text \in UserTexts, StageFails(text),
             Fits(prefix(<<>>, User(text))) = "fits"
      PROVE  FALSE
  <2> DEFINE u == User(text)
  <2>1. PICK k \in Drops : LoopStopsAt(k, u)
    BY <1>1, LoopEnds
  <2>2. k \in Nat /\ Drops \subseteq Nat /\ ConvTypeOK
    BY <1>1 DEF Drops, ConvInv
  <2>3. (CHOOSE j \in Drops : LoopStopsAt(j, u)) = k
    BY <2>1, <2>2, LoopStopsOnce
  <2>4. Fits(Candidate(k, u)) # "fits" /\ Fits(Candidate(k, u)) # "tooBig"
    BY <1>1, <2>1, <2>3 DEF StageFails, StageVerdict, LoopStopsAt
  <2>5. Candidate(k, u) \in Seq(Message) /\ Candidate(0, u) \in Seq(Message)
    <3>1. 0 \in Drops
      BY <2>2 DEF Drops, ConvTypeOK
    <3>2. QED
      BY <2>2, <3>1, CandidateType
  <2>6. TrueCost(Candidate(k, u)) + Reserve > MaxInt
    BY <2>4, <2>5, FitsExactly
  <2>7. TrueCost(Candidate(k, u)) <= TrueCost(Candidate(0, u))
    BY <2>2, DroppingIsCheaper
  <2>8. TrueCost(Candidate(0, u)) + Reserve <= Budget + 2 * (maxSize + PerMessage)
    BY <1>1, CandidateBounded
  <2>9. TrueCost(Candidate(k, u)) \in Nat /\ TrueCost(Candidate(0, u)) \in Nat
    BY <2>5, TrueCostType
  <2>10. QED
    BY <2>6, <2>7, <2>8, <2>9, BudgetAssumption DEF PerMessage
<1>2. ConvInv => [\A text \in UserTexts :
                     StageFails(text) => Fits(prefix(<<>>, User(text))) # "fits"]_convVars
  BY <1>1
<1>3. QED
  BY <1>2, ConvInvAlways, PTL DEF RefusesOnlyOversizedMessages

=============================================================================
