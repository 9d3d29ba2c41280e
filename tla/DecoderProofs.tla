------------------------------ MODULE DecoderProofs ------------------------------
(***************************************************************************)
(* Proofs about SecretFilter, for any letters, token and deltas, and about *)
(* SSE, for any bytes and limit.  What is filtered of a text, and what is  *)
(* read of some bytes, is a recursive function of the position; the proofs *)
(* show that the function exists, by induction from the end of the text or *)
(* the bytes, and then only use what it is at a position and at the next   *)
(* ones.                                                                   *)
(***************************************************************************)
EXTENDS SSE, SecretFilter, SequenceTheorems, WellFoundedInduction, TLAPS

-----------------------------------------------------------------------------
(* Induction.                                                              *)

\* A nonempty set of naturals has a least element.
LEMMA LeastElement ==
    ASSUME NEW T, T \subseteq Nat, T # {}
    PROVE  \E x \in T : \A y \in T : x <= y
<1>1. PICK x \in T : \A y \in T : ~ (<<y, x>> \in OpToRel(<, Nat))
  BY WFMin, NatLessThanWellFounded, Zenon
<1>2. ASSUME NEW y \in T PROVE ~ (y < x)
  BY <1>1, Zenon DEF OpToRel
<1>3. QED
  BY <1>2

\* Induction over the naturals, the property being membership of a set.
LEMMA SetInduction ==
    ASSUME NEW S, 0 \in S, \A n \in Nat : n \in S => n + 1 \in S
    PROVE  Nat \subseteq S
<1> SUFFICES ASSUME Nat \ S # {} PROVE FALSE
  OBVIOUS
<1>1. PICK m \in Nat \ S : \A k \in Nat \ S : m <= k
  BY LeastElement
<1>2. m # 0
  OBVIOUS
<1>3. m - 1 \in Nat /\ (m - 1) + 1 = m /\ ~(m <= m - 1)
  BY <1>2
<1>4. m - 1 \in S
  BY <1>1, <1>3
<1>5. QED
  BY <1>1, <1>3, <1>4

LEMMA IntervalInduction ==
    ASSUME NEW n \in Nat, NEW S, 0 \in S,
           \A i \in 0..(n - 1) : i \in S => i + 1 \in S
    PROVE  0..n \subseteq S
<1> DEFINE T == {i \in Nat : i <= n => i \in S}
<1>1. 0 \in T
  OBVIOUS
<1>2. ASSUME NEW i \in Nat, i \in T PROVE i + 1 \in T
  BY <1>2
<1>3. Nat \subseteq T
  <2> HIDE DEF T
  <2>1. QED
    BY <1>1, <1>2, SetInduction
<1>4. QED
  BY <1>3

\* Induction from the end of an interval: a set that has the last number, and
\* every one of which it has all that come after, has them all.
LEMMA DownwardInduction ==
    ASSUME NEW n \in Nat, NEW S, n + 1 \in S,
           \A i \in 1..n : (i + 1)..(n + 1) \subseteq S => i \in S
    PROVE  1..(n + 1) \subseteq S
<1> DEFINE T == {k \in 0..n : n + 1 - k \notin S}
<1> SUFFICES ASSUME 1..(n + 1) \ S # {} PROVE FALSE
  OBVIOUS
<1>1. T # {}
  <2>1. PICK j \in 1..(n + 1) : j \notin S
    OBVIOUS
  <2>2. n + 1 - j \in 0..n /\ n + 1 - (n + 1 - j) = j
    OBVIOUS
  <2>3. QED
    BY <2>1, <2>2
<1>2. PICK k \in T : \A l \in T : k <= l
  <2>1. T \subseteq Nat
    OBVIOUS
  <2> HIDE DEF T
  <2>2. QED
    BY <1>1, <2>1, LeastElement
<1>3. k # 0
  BY <1>2
<1>4. n + 1 - k \in 1..n
  BY <1>2, <1>3
<1>5. ASSUME NEW j \in (n + 1 - k + 1)..(n + 1) PROVE j \in S
  <2>1. n + 1 - j \in 0..n /\ n + 1 - j < k /\ n + 1 - (n + 1 - j) = j
    BY <1>2
  <2>2. n + 1 - j \notin T
    BY <1>2, <2>1
  <2>3. QED
    BY <2>1, <2>2
<1>6. QED
  BY <1>2, <1>4, <1>5

-----------------------------------------------------------------------------
(* A text from position i on.                                              *)

Occurs(text, secret, i) ==
    /\ i + Len(secret) - 1 <= Len(text)
    /\ \A m \in 1..Len(secret) : text[i + m - 1] = secret[m]

Begins(text, secret, i) ==
    /\ Len(text) - i + 1 < Len(secret)
    /\ \A m \in 1..(Len(text) - i + 1) : text[i + m - 1] = secret[m]

rest(text, i) == SubSeq(text, i, Len(text))

LEMMA RestType ==
    ASSUME NEW A, NEW text \in Seq(A), NEW i \in 1..(Len(text) + 1)
    PROVE  /\ rest(text, i) \in Seq(A)
           /\ Len(rest(text, i)) = Len(text) - i + 1
           /\ \A m \in 1..(Len(text) - i + 1) : rest(text, i)[m] = text[i + m - 1]
<1>1. Len(text) \in Nat
  OBVIOUS
<1>2. rest(text, i) \in Seq(A)
  BY DEF rest
<1>3. Len(rest(text, i)) = Len(text) - i + 1
  BY DEF rest
<1>4. \A m \in 1..(Len(text) - i + 1) : rest(text, i)[m] = text[i + m - 1]
  BY DEF rest
<1>5. QED
  BY <1>2, <1>3, <1>4

LEMMA PrefixElements ==
    ASSUME NEW A, NEW s \in Seq(A), NEW t \in Seq(A)
    PROVE  IsPrefix(s, t) <=> Len(s) <= Len(t) /\ \A m \in 1..Len(s) : s[m] = t[m]
<1>1. CASE Len(s) <= Len(t)
  <2> DEFINE u == SubSeq(s, 1, Len(s))
             v == SubSeq(t, 1, Len(s))
  <2>1. Len(s) \in Nat /\ Len(t) \in Nat
    OBVIOUS
  <2>2. u \in Seq(A) /\ Len(u) = Len(s) /\ \A m \in 1..Len(s) : u[m] = s[m]
    BY <2>1
  <2>3. v \in Seq(A) /\ Len(v) = Len(s) /\ \A m \in 1..Len(s) : v[m] = t[m]
    BY <1>1, <2>1
  <2>4. u = v <=> \A m \in 1..Len(s) : u[m] = v[m]
    <3> HIDE DEF u, v
    <3>1. QED
      BY <2>2, <2>3, SeqEqual
  <2>5. u = v <=> \A m \in 1..Len(s) : s[m] = t[m]
    BY <2>2, <2>3, <2>4
  <2>6. QED
    BY <1>1, <2>5 DEF IsPrefix
<1>2. QED
  BY <1>1 DEF IsPrefix

LEMMA AgreeingIsPrefix ==
    ASSUME NEW A, NEW s \in Seq(A), NEW t \in Seq(A), Len(s) <= Len(t),
           \A m \in 1..Len(s) : s[m] = t[m]
    PROVE  IsPrefix(s, t)
  BY PrefixElements

LEMMA PrefixOfRest ==
    ASSUME NEW A, NEW text \in Seq(A), NEW secret \in Seq(A), NEW i \in 1..(Len(text) + 1)
    PROVE  /\ IsPrefix(secret, rest(text, i)) <=> Occurs(text, secret, i)
           /\ mayGrow(rest(text, i), secret) <=> Begins(text, secret, i)
<1>1. /\ rest(text, i) \in Seq(A)
      /\ Len(rest(text, i)) = Len(text) - i + 1
      /\ \A m \in 1..(Len(text) - i + 1) : rest(text, i)[m] = text[i + m - 1]
  BY RestType
<1>2. Len(text) \in Nat /\ Len(secret) \in Nat
  OBVIOUS
<1>3. IsPrefix(secret, rest(text, i)) <=> Occurs(text, secret, i)
  <2>1. IsPrefix(secret, rest(text, i)) <=>
            /\ Len(secret) <= Len(rest(text, i))
            /\ \A m \in 1..Len(secret) : secret[m] = rest(text, i)[m]
    BY <1>1, PrefixElements
  <2>2. QED
    BY <1>1, <1>2, <2>1 DEF Occurs
<1>4. mayGrow(rest(text, i), secret) <=> Begins(text, secret, i)
  <2>1. IsPrefix(rest(text, i), secret) <=>
            /\ Len(rest(text, i)) <= Len(secret)
            /\ \A m \in 1..Len(rest(text, i)) : rest(text, i)[m] = secret[m]
    <3> DEFINE r == rest(text, i)
    <3>1. r \in Seq(A)
      BY <1>1
    <3> HIDE DEF r
    <3>2. IsPrefix(r, secret) <=>
              /\ Len(r) <= Len(secret)
              /\ \A m \in 1..Len(r) : r[m] = secret[m]
      BY <3>1, PrefixElements
    <3>3. QED
      BY <3>2, Zenon DEF r
  <2>2. QED
    BY <1>1, <1>2, <2>1 DEF Begins, mayGrow
<1>5. QED
  BY <1>3, <1>4

-----------------------------------------------------------------------------
(* What is filtered of a text, by position.                                *)

ScanAt(F, buf, secret, i) ==
    IF i > Len(buf) THEN [out |-> <<>>, pending |-> <<>>]
    ELSE IF IsPrefix(secret, SubSeq(buf, i, Len(buf)))
         THEN [out |-> <<secretReplacement>> \o F[i + Len(secret)].out,
               pending |-> F[i + Len(secret)].pending]
    ELSE IF mayGrow(SubSeq(buf, i, Len(buf)), secret)
         THEN [out |-> <<>>, pending |-> SubSeq(buf, i, Len(buf))]
    ELSE [out |-> <<buf[i]>> \o F[i + 1].out, pending |-> F[i + 1].pending]

Scans(F, buf, secret, lo) == F = [i \in lo..(Len(buf) + 1) |-> ScanAt(F, buf, secret, i)]

\* A position depends on later ones only.
LEMMA ScanLooksAhead ==
    ASSUME NEW A, NEW buf \in Seq(A), NEW secret \in Seq(A), secret # <<>>,
           NEW i \in 1..(Len(buf) + 1), NEW F, NEW G,
           \A j \in (i + 1)..(Len(buf) + 1) : F[j] = G[j]
    PROVE  ScanAt(F, buf, secret, i) = ScanAt(G, buf, secret, i)
<1>1. Len(buf) \in Nat /\ Len(secret) \in Nat \ {0}
  OBVIOUS
<1>2. CASE i > Len(buf)
  BY <1>2 DEF ScanAt
<1>3. CASE i <= Len(buf)
  <2>1. F[i + 1] = G[i + 1]
    BY <1>1, <1>3
  <2>2. ASSUME IsPrefix(secret, SubSeq(buf, i, Len(buf)))
        PROVE  F[i + Len(secret)] = G[i + Len(secret)]
    <3>1. i + Len(secret) \in (i + 1)..(Len(buf) + 1)
      BY <1>1, <2>2, PrefixOfRest DEF rest, Occurs
    <3>2. QED
      BY <3>1
  <2>3. QED
    BY <2>1, <2>2 DEF ScanAt
<1>4. QED
  BY <1>1, <1>2, <1>3

LEMMA ScansExist ==
    ASSUME NEW A, NEW buf \in Seq(A), NEW secret \in Seq(A), secret # <<>>
    PROVE  \E F : Scans(F, buf, secret, 1)
<1> DEFINE N == Len(buf)
           S == {i \in 1..(N + 1) : \E F : Scans(F, buf, secret, i)}
<1>1. N \in Nat
  OBVIOUS
<1>2. N + 1 \in S
  <2> DEFINE F == [i \in (N + 1)..(N + 1) |-> [out |-> <<>>, pending |-> <<>>]]
  <2>1. Scans(F, buf, secret, N + 1)
    BY <1>1 DEF Scans, ScanAt
  <2>2. QED
    BY <1>1, <2>1
<1>3. ASSUME NEW i \in 1..N, (i + 1)..(N + 1) \subseteq S PROVE i \in S
  <2>1. i + 1 \in S
    <3>1. i + 1 \in (i + 1)..(N + 1)
      BY <1>1
    <3> HIDE DEF S
    <3>2. QED
      BY <1>3, <3>1
  <2>2. PICK F : Scans(F, buf, secret, i + 1)
    BY <2>1
  <2> DEFINE G == [j \in i..(N + 1) |-> IF j = i THEN ScanAt(F, buf, secret, i) ELSE F[j]]
  <2>3. \A j \in (i + 1)..(N + 1) : F[j] = G[j]
    BY <1>1
  <2>4. ASSUME NEW j \in i..(N + 1) PROVE G[j] = ScanAt(G, buf, secret, j)
    <3>1. j \in 1..(N + 1) /\ \A k \in (j + 1)..(N + 1) : F[k] = G[k]
      BY <1>1, <2>3
    <3>2. ScanAt(F, buf, secret, j) = ScanAt(G, buf, secret, j)
      <4> HIDE DEF G
      <4>1. QED
        BY <3>1, ScanLooksAhead
    <3>3. G[j] = ScanAt(F, buf, secret, j)
      <4>1. CASE j = i
        BY <4>1
      <4>2. CASE j \in (i + 1)..(N + 1)
        BY <2>2, <2>3, <4>2 DEF Scans
      <4>3. QED
        BY <1>1, <4>1, <4>2
    <3>4. QED
      BY <3>2, <3>3
  <2>5. G = [j \in i..(N + 1) |-> G[j]]
    OBVIOUS
  <2>6. Scans(G, buf, secret, i)
    <3> HIDE DEF G
    <3>1. QED
      BY <2>4, <2>5, Zenon DEF Scans
  <2>7. QED
    BY <1>1, <2>6
<1>4. 1 \in S
  <2>1. 1 \in 1..(N + 1)
    BY <1>1
  <2> HIDE DEF S
  <2>2. 1..(N + 1) \subseteq S
    BY <1>1, <1>2, <1>3, DownwardInduction
  <2>3. QED
    BY <2>1, <2>2
<1>5. QED
  BY <1>4

Solves(F, buf, secret) == \A i \in 1..(Len(buf) + 1) : F[i] = ScanAt(F, buf, secret, i)

Filtered(A) == [out : Seq(A \cup {secretReplacement}), pending : Seq(A)]

\* What filtered returns, by the positions of the text.
LEMMA FilteredScans ==
    ASSUME NEW A, NEW buf \in Seq(A), NEW secret \in Seq(A), secret # <<>>
    PROVE  \E F \in [1..(Len(buf) + 1) -> Filtered(A)] :
              Solves(F, buf, secret) /\ filtered(buf, secret) = F[1]
<1> DEFINE F == CHOOSE F : Scans(F, buf, secret, 1)
<1>1. Scans(F, buf, secret, 1)
  BY ScansExist
<1>2. filtered(buf, secret) = F[1]
  BY DEF filtered, Scans, ScanAt
<1> HIDE DEF F
<1>3. F = [i \in 1..(Len(buf) + 1) |-> F[i]]
  BY <1>1 DEF Scans
<1>4. \A i \in 1..(Len(buf) + 1) : F[i] = ScanAt(F, buf, secret, i)
  BY <1>1 DEF Scans
<1>5. \A i \in 1..(Len(buf) + 1) : F[i] \in Filtered(A)
  <2> DEFINE N == Len(buf)
             S == {i \in 1..(N + 1) : F[i] \in Filtered(A)}
  <2>1. N \in Nat /\ Len(secret) \in Nat \ {0}
    OBVIOUS
  <2>2. N + 1 \in S
    <3>1. N + 1 \in 1..(N + 1) /\ N + 1 > N
      BY <2>1
    <3>2. F[N + 1] = [out |-> <<>>, pending |-> <<>>]
      BY <1>4, <3>1 DEF ScanAt
    <3>3. F[N + 1] \in Filtered(A)
      BY <3>2 DEF Filtered
    <3>4. QED
      BY <3>1, <3>3
  <2>3. ASSUME NEW i \in 1..N, (i + 1)..(N + 1) \subseteq S PROVE i \in S
    <3>1. i \in 1..(N + 1) /\ i + 1 \in (i + 1)..(N + 1) /\ ~(i > N)
      BY <2>1
    <3>2. F[i] = ScanAt(F, buf, secret, i)
      BY <1>4, <3>1
    <3>3. \A j \in (i + 1)..(N + 1) : F[j].out \in Seq(A \cup {secretReplacement})
                                       /\ F[j].pending \in Seq(A)
      BY <2>3 DEF Filtered
    <3>4. CASE IsPrefix(secret, SubSeq(buf, i, N))
      <4>1. i + Len(secret) \in (i + 1)..(N + 1)
        BY <2>1, <3>1, <3>4, PrefixOfRest DEF rest, Occurs
      <4> DEFINE next == F[i + Len(secret)]
      <4>2. next.out \in Seq(A \cup {secretReplacement}) /\ next.pending \in Seq(A)
        BY <3>3, <4>1
      <4>3. F[i] = [out |-> <<secretReplacement>> \o next.out, pending |-> next.pending]
        BY <3>1, <3>2, <3>4 DEF ScanAt
      <4> HIDE DEF next
      <4>4. F[i] \in Filtered(A)
        BY <4>2, <4>3 DEF Filtered
      <4>5. QED
        BY <3>1, <4>4
    <3>5. CASE ~IsPrefix(secret, SubSeq(buf, i, N)) /\ mayGrow(SubSeq(buf, i, N), secret)
      <4>1. F[i] = [out |-> <<>>, pending |-> SubSeq(buf, i, N)]
        BY <3>1, <3>2, <3>5 DEF ScanAt
      <4>2. SubSeq(buf, i, N) \in Seq(A)
        BY <3>1, RestType DEF rest
      <4>3. F[i] \in Filtered(A)
        BY <4>1, <4>2 DEF Filtered
      <4>4. QED
        BY <3>1, <4>3
    <3>6. CASE ~IsPrefix(secret, SubSeq(buf, i, N)) /\ ~mayGrow(SubSeq(buf, i, N), secret)
      <4> DEFINE next == F[i + 1]
      <4>1. next.out \in Seq(A \cup {secretReplacement}) /\ next.pending \in Seq(A)
        BY <3>1, <3>3
      <4>2. F[i] = [out |-> <<buf[i]>> \o next.out, pending |-> next.pending]
        BY <3>1, <3>2, <3>6 DEF ScanAt
      <4>3. buf[i] \in A
        BY <3>1
      <4> HIDE DEF next
      <4>4. F[i] \in Filtered(A)
        BY <4>1, <4>2, <4>3 DEF Filtered
      <4>5. QED
        BY <3>1, <4>4
    <3>7. QED
      BY <3>4, <3>5, <3>6
  <2>4. 1..(N + 1) \subseteq S
    <3> HIDE DEF S
    <3>1. QED
      BY <2>1, <2>2, <2>3, DownwardInduction
  <2>5. QED
    BY <2>4
<1>6. F \in [1..(Len(buf) + 1) -> Filtered(A)]
  BY <1>3, <1>5
<1>7. QED
  BY <1>2, <1>4, <1>6 DEF Solves

\* Two texts with the same rest are filtered alike.
LEMMA ScansShift ==
    ASSUME NEW A, NEW buf \in Seq(A), NEW secret \in Seq(A), secret # <<>>,
           NEW d \in 0..Len(buf), NEW v, v = rest(buf, d + 1),
           NEW F, Solves(F, buf, secret), NEW G, Solves(G, v, secret)
    PROVE  G[1] = F[d + 1]
<1> DEFINE N == Len(buf) - d
           S == {i \in 1..(N + 1) : G[i] = F[d + i]}
<1>1. Len(buf) \in Nat /\ d \in Nat /\ d <= Len(buf) /\ N \in Nat /\ Len(secret) \in Nat \ {0}
  OBVIOUS
<1>2. d + 1 \in 1..(Len(buf) + 1)
  BY <1>1
<1>3. v \in Seq(A) /\ Len(v) = N /\ \A m \in 1..N : v[m] = buf[d + m]
  <2>1. /\ v \in Seq(A) /\ Len(v) = Len(buf) - (d + 1) + 1
        /\ \A m \in 1..(Len(buf) - (d + 1) + 1) : v[m] = buf[(d + 1) + m - 1]
    BY <1>2, RestType
  <2>2. QED
    BY <1>1, <2>1
<1>4. ASSUME NEW i \in 1..N PROVE SubSeq(v, i, N) = SubSeq(buf, d + i, Len(buf))
  <2>1. i \in 1..(Len(v) + 1) /\ d + i \in 1..(Len(buf) + 1)
    BY <1>1, <1>3
  <2> DEFINE p == rest(v, i)
             q == rest(buf, d + i)
  <2>2. /\ p \in Seq(A) /\ Len(p) = N - i + 1
        /\ \A m \in 1..(N - i + 1) : p[m] = v[i + m - 1]
    <3>1. /\ p \in Seq(A) /\ Len(p) = Len(v) - i + 1
          /\ \A m \in 1..(Len(v) - i + 1) : p[m] = v[i + m - 1]
      <4>1. v \in Seq(A) /\ i \in 1..(Len(v) + 1)
        BY <1>3, <2>1
      <4>2. QED
        BY <4>1, RestType, Zenon
    <3>2. QED
      BY <1>3, <3>1, Zenon
  <2>3. /\ q \in Seq(A) /\ Len(q) = Len(buf) - (d + i) + 1
        /\ \A m \in 1..(Len(buf) - (d + i) + 1) : q[m] = buf[(d + i) + m - 1]
    BY <2>1, RestType
  <2> HIDE DEF p, q
  <2>4. Len(p) = Len(q) /\ \A m \in 1..Len(p) : p[m] = q[m]
    <3>1. Len(p) = N - i + 1 /\ Len(q) = N - i + 1
      BY <1>1, <2>2, <2>3
    <3>2. ASSUME NEW m \in 1..(N - i + 1) PROVE p[m] = q[m]
      <4>1. i + m - 1 \in 1..N /\ d + (i + m - 1) = (d + i) + m - 1
        BY <1>1
      <4>2. p[m] = v[i + m - 1] /\ v[i + m - 1] = buf[d + (i + m - 1)]
        BY <1>3, <2>2, <4>1
      <4>3. m \in 1..(Len(buf) - (d + i) + 1)
        BY <1>1
      <4>4. q[m] = buf[(d + i) + m - 1]
        BY <2>3, <4>3
      <4>5. QED
        BY <4>1, <4>2, <4>4
    <3>3. QED
      BY <3>1, <3>2
  <2>5. p = q
    BY <2>2, <2>3, <2>4, SeqEqual
  <2>6. QED
    BY <1>3, <2>5 DEF p, q, rest
<1>5. N + 1 \in S
  <2>1. d + (N + 1) \in 1..(Len(buf) + 1) /\ d + (N + 1) > Len(buf) /\ N + 1 \in 1..(N + 1)
    BY <1>1
  <2>2. F[d + (N + 1)] = [out |-> <<>>, pending |-> <<>>]
    <3>1. F[d + (N + 1)] = ScanAt(F, buf, secret, d + (N + 1))
      BY <2>1, Zenon DEF Solves
    <3>2. QED
      BY <2>1, <3>1, Zenon DEF ScanAt
  <2>3. N + 1 > Len(v)
    BY <1>1, <1>3
  <2>4. G[N + 1] = [out |-> <<>>, pending |-> <<>>]
    <3>1. G[N + 1] = ScanAt(G, v, secret, N + 1)
      BY <1>3, <2>1 DEF Solves
    <3>2. QED
      BY <2>3, <3>1, Zenon DEF ScanAt
  <2>5. QED
    BY <2>1, <2>2, <2>4
<1>6. ASSUME NEW i \in 1..N, (i + 1)..(N + 1) \subseteq S PROVE i \in S
  <2>1. /\ i \in 1..(N + 1) /\ i + 1 \in (i + 1)..(N + 1) /\ d + i \in 1..(Len(buf) + 1)
        /\ ~(i > N) /\ ~(d + i > Len(buf)) /\ (d + i) + 1 = d + (i + 1)
    BY <1>1
  <2>2. F[d + i] = ScanAt(F, buf, secret, d + i) /\ G[i] = ScanAt(G, v, secret, i)
    BY <1>3, <2>1 DEF Solves
  <2>3. \A j \in (i + 1)..(N + 1) : G[j] = F[d + j]
    BY <1>6
  <2>4. G[i + 1] = F[(d + i) + 1] /\ v[i] = buf[d + i]
    BY <1>3, <2>1, <2>3
  <2>5. ASSUME IsPrefix(secret, SubSeq(v, i, Len(v)))
        PROVE  G[i + Len(secret)] = F[(d + i) + Len(secret)]
    <3>1. i \in 1..(Len(v) + 1)
      BY <1>3, <2>1
    <3>2. i + Len(secret) - 1 <= N
      BY <1>3, <2>5, <3>1, PrefixOfRest DEF rest, Occurs
    <3>3. i + Len(secret) \in (i + 1)..(N + 1) /\ d + (i + Len(secret)) = (d + i) + Len(secret)
      BY <1>1, <3>2
    <3>4. QED
      BY <2>3, <3>3
  <2>6. SubSeq(v, i, Len(v)) = SubSeq(buf, d + i, Len(buf)) /\ ~(i > Len(v))
    BY <1>3, <1>4, <2>1
  <2>7. G[i] = F[d + i]
    BY <2>1, <2>2, <2>4, <2>5, <2>6 DEF ScanAt
  <2>8. QED
    BY <2>1, <2>7
<1>7. 1 \in S
  <2>1. 1 \in 1..(N + 1)
    BY <1>1
  <2> HIDE DEF S, N
  <2>2. 1..(N + 1) \subseteq S
    BY <1>1, <1>5, <1>6, DownwardInduction
  <2>3. QED
    BY <2>1, <2>2
<1>8. QED
  BY <1>7

\* What is filtered of a text and of its rests.
Unfolds(F, buf, secret) ==
    /\ \A i \in 1..(Len(buf) + 1) : F[i] = filtered(rest(buf, i), secret)
    /\ F[Len(buf) + 1] = [out |-> <<>>, pending |-> <<>>]
    /\ \A i \in 1..Len(buf) :
          /\ Occurs(buf, secret, i) =>
                /\ i + Len(secret) \in (i + 1)..(Len(buf) + 1)
                /\ F[i].out = <<secretReplacement>> \o F[i + Len(secret)].out
                /\ F[i].pending = F[i + Len(secret)].pending
          /\ ~Occurs(buf, secret, i) /\ Begins(buf, secret, i) =>
                F[i].out = <<>> /\ F[i].pending = rest(buf, i)
          /\ ~Occurs(buf, secret, i) /\ ~Begins(buf, secret, i) =>
                F[i].out = <<buf[i]>> \o F[i + 1].out /\ F[i].pending = F[i + 1].pending

LEMMA FilteredUnfolds ==
    ASSUME NEW A, NEW buf \in Seq(A), NEW secret \in Seq(A), secret # <<>>
    PROVE  \E F \in [1..(Len(buf) + 1) -> Filtered(A)] : Unfolds(F, buf, secret)
<1>1. PICK F \in [1..(Len(buf) + 1) -> Filtered(A)] :
          Solves(F, buf, secret) /\ filtered(buf, secret) = F[1]
  BY FilteredScans
<1>2. Len(buf) \in Nat /\ Len(secret) \in Nat \ {0}
  OBVIOUS
<1>3. ASSUME NEW i \in 1..(Len(buf) + 1) PROVE F[i] = filtered(rest(buf, i), secret)
  <2> DEFINE d == i - 1
             v == rest(buf, d + 1)
  <2>1. d \in 0..Len(buf) /\ d + 1 = i
    BY <1>2
  <2>2. v \in Seq(A) /\ Len(v) = Len(buf) - d
    BY <1>2, <2>1, RestType
  <2>3. PICK G \in [1..(Len(v) + 1) -> Filtered(A)] :
            Solves(G, v, secret) /\ filtered(v, secret) = G[1]
    <3> HIDE DEF v
    <3>1. QED
      BY <2>2, FilteredScans
  <2>4. G[1] = F[d + 1]
    <3>1. v = rest(buf, d + 1)
      OBVIOUS
    <3> HIDE DEF d, v
    <3>2. QED
      BY <1>1, <2>1, <2>3, <3>1, ScansShift
  <2>5. QED
    BY <2>1, <2>3, <2>4
<1>4. F[Len(buf) + 1] = [out |-> <<>>, pending |-> <<>>]
  <2>1. Len(buf) + 1 \in 1..(Len(buf) + 1) /\ Len(buf) + 1 > Len(buf)
    BY <1>2
  <2>2. QED
    BY <1>1, <2>1, Zenon DEF ScanAt, Solves
<1>5. ASSUME NEW i \in 1..Len(buf)
      PROVE  /\ Occurs(buf, secret, i) =>
                   /\ i + Len(secret) \in (i + 1)..(Len(buf) + 1)
                   /\ F[i].out = <<secretReplacement>> \o F[i + Len(secret)].out
                   /\ F[i].pending = F[i + Len(secret)].pending
             /\ ~Occurs(buf, secret, i) /\ Begins(buf, secret, i) =>
                   F[i].out = <<>> /\ F[i].pending = rest(buf, i)
             /\ ~Occurs(buf, secret, i) /\ ~Begins(buf, secret, i) =>
                   F[i].out = <<buf[i]>> \o F[i + 1].out /\ F[i].pending = F[i + 1].pending
  <2>1. i \in 1..(Len(buf) + 1) /\ ~(i > Len(buf))
    BY <1>2
  <2>2. F[i] = ScanAt(F, buf, secret, i)
    BY <1>1, <2>1 DEF Solves
  <2>3. /\ IsPrefix(secret, SubSeq(buf, i, Len(buf))) <=> Occurs(buf, secret, i)
        /\ mayGrow(SubSeq(buf, i, Len(buf)), secret) <=> Begins(buf, secret, i)
    BY <2>1, PrefixOfRest DEF rest
  <2>4. Occurs(buf, secret, i) => i + Len(secret) \in (i + 1)..(Len(buf) + 1)
    BY <1>2 DEF Occurs
  <2>5. CASE Occurs(buf, secret, i)
    BY <2>1, <2>2, <2>3, <2>4, <2>5 DEF ScanAt
  <2>6. CASE ~Occurs(buf, secret, i) /\ Begins(buf, secret, i)
    BY <2>1, <2>2, <2>3, <2>6 DEF ScanAt, rest
  <2>7. CASE ~Occurs(buf, secret, i) /\ ~Begins(buf, secret, i)
    BY <2>1, <2>2, <2>3, <2>7 DEF ScanAt
  <2>8. QED
    BY <2>5, <2>6, <2>7, Zenon
<1>6. QED
  BY <1>3, <1>4, <1>5 DEF Unfolds

LEMMA FilteredType ==
    ASSUME NEW A, NEW buf \in Seq(A), NEW secret \in Seq(A), secret # <<>>
    PROVE  /\ filtered(buf, secret).out \in Seq(A \cup {secretReplacement})
           /\ filtered(buf, secret).pending \in Seq(A)
<1>1. PICK F \in [1..(Len(buf) + 1) -> Filtered(A)] :
          Solves(F, buf, secret) /\ filtered(buf, secret) = F[1]
  BY FilteredScans
<1>2. 1 \in 1..(Len(buf) + 1)
  OBVIOUS
<1>3. QED
  BY <1>1, <1>2 DEF Filtered

LEMMA ConcatElements ==
    ASSUME NEW A, NEW s \in Seq(A), NEW t \in Seq(A)
    PROVE  /\ s \o t \in Seq(A) /\ Len(s \o t) = Len(s) + Len(t)
           /\ \A m \in 1..Len(s) : (s \o t)[m] = s[m]
           /\ \A m \in 1..Len(t) : (s \o t)[Len(s) + m] = t[m]
  OBVIOUS

\* r is s followed by t.
Joined(A, s, t, r) ==
    /\ r \in Seq(A) /\ Len(r) = Len(s) + Len(t)
    /\ \A m \in 1..Len(s) : r[m] = s[m]
    /\ \A m \in 1..Len(t) : r[Len(s) + m] = t[m]

LEMMA ConcatJoined ==
    ASSUME NEW A, NEW s \in Seq(A), NEW t \in Seq(A)
    PROVE  Joined(A, s, t, s \o t)
  BY ConcatElements DEF Joined

LEMMA ConcatAfterOne ==
    ASSUME NEW A, NEW a \in A, NEW s \in Seq(A), NEW t \in Seq(A)
    PROVE  (<<a>> \o s) \o t = <<a>> \o (s \o t)
<1>1. <<a>> \in Seq(A)
  OBVIOUS
<1>2. QED
  BY <1>1, ConcatAssociative

LEMMA RestOfConcat ==
    ASSUME NEW A, NEW s \in Seq(A), NEW t \in Seq(A), NEW i \in 1..(Len(s) + 1)
    PROVE  rest(s \o t, i) = rest(s, i) \o t
<1> DEFINE u == s \o t
           p == rest(u, i)
           q == rest(s, i)
           r == q \o t
<1>1. Len(s) \in Nat /\ Len(t) \in Nat
  OBVIOUS
<1>2. /\ u \in Seq(A) /\ Len(u) = Len(s) + Len(t)
      /\ \A m \in 1..Len(s) : u[m] = s[m]
      /\ \A m \in 1..Len(t) : u[Len(s) + m] = t[m]
  BY ConcatElements
<1> HIDE DEF u
<1>3. /\ p \in Seq(A) /\ Len(p) = Len(u) - i + 1
      /\ \A m \in 1..(Len(u) - i + 1) : p[m] = u[i + m - 1]
  <2>1. i \in 1..(Len(u) + 1)
    BY <1>1, <1>2
  <2>2. QED
    BY <1>2, <2>1, RestType, Zenon
<1>4. /\ q \in Seq(A) /\ Len(q) = Len(s) - i + 1
      /\ \A m \in 1..(Len(s) - i + 1) : q[m] = s[i + m - 1]
  BY RestType, Zenon
<1> HIDE DEF p, q
<1>5. /\ r \in Seq(A) /\ Len(r) = Len(q) + Len(t)
      /\ \A m \in 1..Len(q) : r[m] = q[m]
      /\ \A m \in 1..Len(t) : r[Len(q) + m] = t[m]
  <2>1. q \in Seq(A)
    BY <1>4
  <2>2. QED
    BY <2>1, ConcatElements
<1> HIDE DEF r
<1>6. ASSUME NEW m \in 1..Len(p) PROVE p[m] = r[m]
  <2>1. p[m] = u[i + m - 1]
    BY <1>3
  <2>2. CASE m <= Len(q)
    <3>1. m \in 1..Len(q) /\ m \in 1..(Len(s) - i + 1) /\ i + m - 1 \in 1..Len(s)
      BY <1>1, <1>4, <2>2
    <3>2. QED
      BY <1>2, <1>4, <1>5, <2>1, <3>1
  <2>3. CASE m > Len(q)
    <3> DEFINE k == m - Len(q)
    <3>1. k \in 1..Len(t) /\ i + m - 1 = Len(s) + k /\ m = Len(q) + k
      BY <1>1, <1>2, <1>3, <1>4, <2>3
    <3> HIDE DEF k
    <3>2. u[Len(s) + k] = t[k] /\ r[Len(q) + k] = t[k]
      BY <1>2, <1>5, <3>1, Zenon
    <3>3. QED
      BY <2>1, <3>1, <3>2
  <2>4. QED
    BY <1>1, <1>4, <2>2, <2>3
<1>7. Len(p) = Len(r)
  BY <1>1, <1>2, <1>3, <1>4, <1>5
<1>8. p = r
  BY <1>3, <1>5, <1>6, <1>7, SeqEqual
<1>9. QED
  BY <1>8 DEF p, q, r, u

\* What follows a text changes nothing where the secret occurs in it, or can
\* no longer begin.
LEMMA OccursInConcat ==
    ASSUME NEW A, NEW s \in Seq(A), NEW t \in Seq(A), NEW secret \in Seq(A), NEW i \in 1..Len(s)
    PROVE  /\ Occurs(s, secret, i) => Occurs(s \o t, secret, i)
           /\ ~Occurs(s, secret, i) /\ ~Begins(s, secret, i) =>
                 ~Occurs(s \o t, secret, i) /\ ~Begins(s \o t, secret, i)
<1> DEFINE u == s \o t
<1>1. Len(s) \in Nat /\ Len(t) \in Nat /\ Len(secret) \in Nat
  OBVIOUS
<1>2. Len(u) = Len(s) + Len(t) /\ \A m \in 1..Len(s) : u[m] = s[m]
  BY ConcatElements, Zenon
<1> HIDE DEF u
<1>3. ASSUME Occurs(s, secret, i) PROVE Occurs(u, secret, i)
  <2>1. ASSUME NEW m \in 1..Len(secret) PROVE u[i + m - 1] = secret[m]
    <3>1. i + m - 1 \in 1..Len(s)
      BY <1>1, <1>3 DEF Occurs
    <3>2. QED
      BY <1>2, <1>3, <3>1 DEF Occurs
  <2>2. i + Len(secret) - 1 <= Len(u)
    BY <1>1, <1>2, <1>3 DEF Occurs
  <2>3. QED
    BY <2>1, <2>2 DEF Occurs
<1>4. ASSUME ~Occurs(s, secret, i), ~Begins(s, secret, i)
      PROVE  ~Occurs(u, secret, i) /\ ~Begins(u, secret, i)
  <2>1. CASE i + Len(secret) - 1 <= Len(s)
    <3>1. PICK m \in 1..Len(secret) : s[i + m - 1] # secret[m]
      BY <1>4, <2>1 DEF Occurs
    <3>2. i + m - 1 \in 1..Len(s)
      BY <1>1, <2>1
    <3>3. u[i + m - 1] # secret[m]
      BY <1>2, <3>1, <3>2
    <3>4. ~(Len(u) - i + 1 < Len(secret))
      BY <1>1, <1>2, <2>1
    <3>5. QED
      BY <3>3, <3>4 DEF Occurs, Begins
  <2>2. CASE Len(s) - i + 1 < Len(secret)
    <3>1. PICK m \in 1..(Len(s) - i + 1) : s[i + m - 1] # secret[m]
      BY <1>4, <2>2 DEF Begins
    <3>2. i + m - 1 \in 1..Len(s) /\ m \in 1..Len(secret) /\ m \in 1..(Len(u) - i + 1)
      BY <1>1, <1>2, <2>2
    <3>3. u[i + m - 1] # secret[m]
      BY <1>2, <3>1, <3>2
    <3>4. QED
      BY <3>2, <3>3 DEF Occurs, Begins
  <2>3. QED
    BY <1>1, <2>1, <2>2
<1>5. QED
  BY <1>3, <1>4 DEF u

\* Filtering a text in two parts, the pending end of the first before the
\* second, is filtering it at once.
InParts(s, t, secret) ==
    LET again == filtered(filtered(s, secret).pending \o t, secret)
    IN  /\ filtered(s \o t, secret).out = filtered(s, secret).out \o again.out
        /\ filtered(s \o t, secret).pending = again.pending

LEMMA FilteredInParts ==
    ASSUME NEW A, NEW s \in Seq(A), NEW t \in Seq(A), NEW secret \in Seq(A), secret # <<>>
    PROVE  InParts(s, t, secret)
<1> DEFINE N == Len(s)
           u == s \o t
           again(p) == filtered(p \o t, secret)
           B == A \cup {secretReplacement}
<1>1. N \in Nat /\ Len(t) \in Nat /\ Len(secret) \in Nat \ {0}
  OBVIOUS
<1>2. u \in Seq(A) /\ Len(u) = N + Len(t) /\ \A m \in 1..N : u[m] = s[m]
  BY ConcatElements, Zenon
<1>3. PICK F \in [1..(N + 1) -> Filtered(A)] : Unfolds(F, s, secret)
  BY FilteredUnfolds, Zenon
<1>4. /\ \A i \in 1..(N + 1) : rest(u, i) = rest(s, i) \o t
      /\ \A i \in 1..N :
            /\ Occurs(s, secret, i) => Occurs(u, secret, i)
            /\ ~Occurs(s, secret, i) /\ ~Begins(s, secret, i) =>
                  ~Occurs(u, secret, i) /\ ~Begins(u, secret, i)
  BY RestOfConcat, OccursInConcat, Zenon
<1> HIDE DEF u
<1>5. PICK G \in [1..(Len(u) + 1) -> Filtered(A)] : Unfolds(G, u, secret)
  BY <1>2, FilteredUnfolds, Zenon
<1> DEFINE Joins(i) == /\ G[i].out = F[i].out \o again(F[i].pending).out
                       /\ G[i].pending = again(F[i].pending).pending
           S == {i \in 1..(N + 1) : Joins(i)}
<1>6. ASSUME NEW p \in Seq(A)
      PROVE  again(p).out \in Seq(B) /\ again(p).pending \in Seq(A)
  <2>1. p \o t \in Seq(A)
    OBVIOUS
  <2>2. QED
    BY <2>1, FilteredType
<1>7. \A i \in 1..(N + 1) : F[i].out \in Seq(B) /\ F[i].pending \in Seq(A)
  BY DEF Filtered
<1>8. N + 1 \in S
  <2>1. N + 1 \in 1..(N + 1) /\ N + 1 \in 1..(Len(u) + 1)
    BY <1>1, <1>2
  <2>2. rest(s, N + 1) = <<>>
    BY <1>1 DEF rest
  <2>3. G[N + 1] = again(<<>>)
    BY <1>4, <1>5, <2>1, <2>2, Zenon DEF Unfolds
  <2>4. F[N + 1].out = <<>> /\ F[N + 1].pending = <<>>
    BY <1>3 DEF Unfolds
  <2>5. <<>> \o again(<<>>).out = again(<<>>).out
    <3>1. <<>> \in Seq(A)
      OBVIOUS
    <3>2. again(<<>>).out \in Seq(B)
      BY <1>6, <3>1, Zenon
    <3> HIDE DEF again, B
    <3>3. QED
      BY <3>2
  <2> HIDE DEF again
  <2>6. Joins(N + 1)
    BY <2>3, <2>4, <2>5
  <2>7. QED
    BY <2>1, <2>6
<1> HIDE DEF again
<1>9. ASSUME NEW i \in 1..N, (i + 1)..(N + 1) \subseteq S PROVE i \in S
  <2>1. /\ i \in 1..(N + 1) /\ i \in 1..Len(u) /\ i \in 1..(Len(u) + 1)
        /\ i + 1 \in (i + 1)..(N + 1) /\ u[i] = s[i]
    BY <1>1, <1>2
  <2>2. \A j \in (i + 1)..(N + 1) : j \in 1..(N + 1) /\ Joins(j)
    BY <1>9
  <2>3. /\ Occurs(s, secret, i) =>
              /\ i + Len(secret) \in (i + 1)..(N + 1)
              /\ F[i].out = <<secretReplacement>> \o F[i + Len(secret)].out
              /\ F[i].pending = F[i + Len(secret)].pending
        /\ ~Occurs(s, secret, i) /\ Begins(s, secret, i) =>
              F[i].out = <<>> /\ F[i].pending = rest(s, i)
        /\ ~Occurs(s, secret, i) /\ ~Begins(s, secret, i) =>
              F[i].out = <<s[i]>> \o F[i + 1].out /\ F[i].pending = F[i + 1].pending
    BY <1>3, Zenon DEF Unfolds
  <2>4. /\ G[i] = filtered(rest(u, i), secret)
        /\ Occurs(u, secret, i) =>
              /\ G[i].out = <<secretReplacement>> \o G[i + Len(secret)].out
              /\ G[i].pending = G[i + Len(secret)].pending
        /\ ~Occurs(u, secret, i) /\ ~Begins(u, secret, i) =>
              G[i].out = <<u[i]>> \o G[i + 1].out /\ G[i].pending = G[i + 1].pending
    BY <1>5, <2>1, Zenon DEF Unfolds
  <2>5. ASSUME NEW a \in B, NEW j \in (i + 1)..(N + 1),
               F[i].out = <<a>> \o F[j].out, F[i].pending = F[j].pending,
               G[i].out = <<a>> \o G[j].out, G[i].pending = G[j].pending
        PROVE  i \in S
    <3>1. Joins(j) /\ F[j].out \in Seq(B) /\ again(F[j].pending).out \in Seq(B)
      BY <1>6, <1>7, <2>2, Zenon
    <3>2. (<<a>> \o F[j].out) \o again(F[j].pending).out
             = <<a>> \o (F[j].out \o again(F[j].pending).out)
      <4> HIDE DEF B
      <4>1. \A x, y \in Seq(B) : (<<a>> \o x) \o y = <<a>> \o (x \o y)
        BY ConcatAfterOne
      <4>2. QED
        BY <3>1, <4>1, Zenon
    <3>3. Joins(i)
      BY <2>5, <3>1, <3>2, Zenon
    <3>4. QED
      BY <2>1, <3>3
  <2>6. CASE Occurs(s, secret, i)
    <3>1. secretReplacement \in B
      OBVIOUS
    <3> HIDE DEF S, B
    <3>2. QED
      BY <1>4, <2>3, <2>4, <2>5, <2>6, <3>1, Zenon
  <2>7. CASE ~Occurs(s, secret, i) /\ Begins(s, secret, i)
    <3>1. F[i].out = <<>> /\ F[i].pending = rest(s, i)
      BY <2>3, <2>7
    <3>2. G[i] = again(F[i].pending)
      BY <1>4, <2>1, <2>4, <3>1, Zenon DEF again
    <3>3. again(F[i].pending).out \in Seq(B)
      BY <1>6, <1>7, <2>1, Zenon
    <3>4. <<>> \o again(F[i].pending).out = again(F[i].pending).out
      <4> HIDE DEF B
      <4>1. QED
        BY <3>3
    <3>5. Joins(i)
      BY <3>1, <3>2, <3>4
    <3>6. QED
      BY <2>1, <3>5
  <2>8. CASE ~Occurs(s, secret, i) /\ ~Begins(s, secret, i)
    <3>1. s[i] \in B
      OBVIOUS
    <3> HIDE DEF S, B
    <3>2. QED
      BY <1>4, <2>1, <2>3, <2>4, <2>5, <2>8, <3>1, Zenon
  <2>9. QED
    BY <2>6, <2>7, <2>8
<1>10. 1 \in S
  <2>1. 1 \in 1..(N + 1)
    BY <1>1
  <2> HIDE DEF S, N
  <2>2. 1..(N + 1) \subseteq S
    BY <1>1, <1>8, <1>9, DownwardInduction
  <2>3. QED
    BY <2>1, <2>2
<1>11. rest(s, 1) = s /\ rest(u, 1) = u
  BY <1>2, SubSeqFull DEF rest
<1>12. F[1] = filtered(s, secret) /\ G[1] = filtered(u, secret)
  <2>1. 1 \in 1..(N + 1) /\ 1 \in 1..(Len(u) + 1)
    BY <1>1, <1>2
  <2>2. QED
    BY <1>3, <1>5, <1>11, <2>1 DEF Unfolds
<1>13. QED
  BY <1>10, <1>12 DEF again, u, InParts

-----------------------------------------------------------------------------
(* The filter over the deltas of a reply.                                  *)

LEMMA FilteredEmpty ==
    ASSUME NEW A, NEW secret \in Seq(A), secret # <<>>
    PROVE  filtered(<<>>, secret).out = <<>> /\ filtered(<<>>, secret).pending = <<>>
<1>1. <<>> \in Seq(A) /\ Len(<<>>) = 0
  OBVIOUS
<1>2. PICK F \in [1..(Len(<<>>) + 1) -> Filtered(A)] : Unfolds(F, <<>>, secret)
  BY <1>1, FilteredUnfolds, Zenon
<1>3. F[1] = filtered(rest(<<>>, 1), secret) /\ F[1] = [out |-> <<>>, pending |-> <<>>]
  BY <1>1, <1>2 DEF Unfolds
<1>4. rest(<<>>, 1) = <<>>
  BY DEF rest
<1>5. QED
  BY <1>3, <1>4

Pushed(secret, text) ==
    [secret |-> secret, pending |-> filtered(text, secret).pending, out |-> filtered(text, secret).out]

LEMMA PushedEmpty ==
    ASSUME NEW A, NEW secret \in Seq(A), secret # <<>>
    PROVE  newSecretFilter(secret) = Pushed(secret, <<>>)
  BY FilteredEmpty DEF newSecretFilter, Pushed

\* A delta after a text is the text with the delta.
LEMMA PushAgain ==
    ASSUME NEW A, NEW secret \in Seq(A), secret # <<>>, NEW s \in Seq(A), NEW t \in Seq(A)
    PROVE  push(Pushed(secret, s), t) = Pushed(secret, s \o t)
<1> DEFINE again == filtered(filtered(s, secret).pending \o t, secret)
<1>1. /\ filtered(s \o t, secret).out = filtered(s, secret).out \o again.out
      /\ filtered(s \o t, secret).pending = again.pending
  <2>1. InParts(s, t, secret)
    BY FilteredInParts
  <2>2. QED
    BY <2>1, Zenon DEF InParts
<1>2. /\ Pushed(secret, s).pending = filtered(s, secret).pending
      /\ Pushed(secret, s).secret = secret
      /\ Pushed(secret, s).out = filtered(s, secret).out
  BY DEF Pushed
<1>3. push(Pushed(secret, s), t) =
         [secret |-> secret, pending |-> again.pending,
          out |-> filtered(s, secret).out \o again.out]
  BY <1>2, Zenon DEF push
<1>4. QED
  BY <1>1, <1>3, Zenon DEF Pushed

\* The reply after n of its deltas.
Joins(joined, deltas) ==
    /\ joined[0] = <<>>
    /\ \A n \in 1..Len(deltas) : joined[n] = joined[n - 1] \o deltas[n]

Flattens(flat, deltas, n) ==
    flat = [i \in 1..n |-> IF i = 1 THEN deltas[i] ELSE flat[i - 1] \o deltas[i]]

LEMMA FlattensExist ==
    ASSUME NEW deltas, NEW n \in Nat
    PROVE  \E flat : Flattens(flat, deltas, n)
<1> DEFINE S == {i \in Nat : \E flat : Flattens(flat, deltas, i)}
<1>1. 0 \in S
  <2>1. Flattens([i \in 1..0 |-> <<>>], deltas, 0)
    BY DEF Flattens
  <2>2. QED
    BY <2>1
<1>2. ASSUME NEW i \in Nat, i \in S PROVE i + 1 \in S
  <2>1. PICK flat : Flattens(flat, deltas, i)
    BY <1>2
  <2> DEFINE more == [j \in 1..(i + 1) |->
                        IF j = i + 1
                        THEN IF j = 1 THEN deltas[j] ELSE flat[i] \o deltas[j]
                        ELSE flat[j]]
  <2>2. ASSUME NEW j \in 1..(i + 1)
        PROVE  more[j] = IF j = 1 THEN deltas[j] ELSE more[j - 1] \o deltas[j]
    <3>1. CASE j = i + 1
      <4>1. j # 1 => i \in 1..(i + 1) /\ i # i + 1 /\ j - 1 = i
        BY <3>1
      <4>2. QED
        BY <3>1, <4>1
    <3>2. CASE j # i + 1
      <4>1. j \in 1..i /\ (j # 1 => j - 1 \in 1..(i + 1) /\ j - 1 # i + 1)
        BY <3>2
      <4>2. flat[j] = IF j = 1 THEN deltas[j] ELSE flat[j - 1] \o deltas[j]
        BY <2>1, <4>1 DEF Flattens
      <4>3. QED
        BY <3>2, <4>1, <4>2
    <3>3. QED
      BY <3>1, <3>2
  <2>3. more = [j \in 1..(i + 1) |-> more[j]]
    OBVIOUS
  <2>4. Flattens(more, deltas, i + 1)
    <3> HIDE DEF more
    <3>1. QED
      BY <2>2, <2>3, Zenon DEF Flattens
  <2>5. QED
    BY <2>4
<1>3. Nat \subseteq S
  <2> HIDE DEF S
  <2>1. QED
    BY <1>1, <1>2, SetInduction
<1>4. QED
  BY <1>3

LEMMA FlattenJoins ==
    ASSUME NEW A, NEW deltas \in Seq(Seq(A))
    PROVE  \E joined \in [0..Len(deltas) -> Seq(A)] :
              Joins(joined, deltas) /\ FlattenSeq(deltas) = joined[Len(deltas)]
<1> DEFINE N == Len(deltas)
           flat == CHOOSE flat : Flattens(flat, deltas, N)
           joined == [n \in 0..N |-> IF n = 0 THEN <<>> ELSE flat[n]]
<1>1. N \in Nat
  OBVIOUS
<1>2. Flattens(flat, deltas, N)
  BY <1>1, FlattensExist
<1>3. FlattenSeq(deltas) = IF N = 0 THEN deltas ELSE flat[N]
  BY DEF FlattenSeq, Flattens
<1> HIDE DEF flat
<1>4. \A n \in 1..N : flat[n] = IF n = 1 THEN deltas[n] ELSE flat[n - 1] \o deltas[n]
  BY <1>2 DEF Flattens
<1>5. ASSUME NEW n \in 0..(N - 1), joined[n] \in Seq(A)
      PROVE  joined[n + 1] = joined[n] \o deltas[n + 1] /\ joined[n + 1] \in Seq(A)
  <2>1. n + 1 \in 1..N /\ n + 1 \in 0..N /\ (n + 1) - 1 = n /\ n + 1 # 0
    BY <1>1
  <2>2. deltas[n + 1] \in Seq(A)
    BY <2>1
  <2>3. joined[n + 1] = IF n + 1 = 1 THEN deltas[n + 1] ELSE flat[n] \o deltas[n + 1]
    BY <1>4, <2>1
  <2>4. joined[n] = IF n = 0 THEN <<>> ELSE flat[n]
    OBVIOUS
  <2>5. CASE n = 0
    <3>1. <<>> \o deltas[n + 1] = deltas[n + 1]
      BY <2>2
    <3>2. joined[n + 1] = deltas[n + 1] /\ joined[n] = <<>>
      BY <2>3, <2>4, <2>5
    <3> HIDE DEF joined
    <3>3. QED
      BY <2>2, <3>1, <3>2
  <2>6. CASE n # 0
    <3>1. joined[n] \o deltas[n + 1] \in Seq(A)
      BY <1>5, <2>2
    <3>2. n + 1 # 1
      BY <2>6
    <3>3. QED
      BY <2>3, <2>4, <2>6, <3>1, <3>2
  <2>7. QED
    BY <2>5, <2>6
<1>6. \A n \in 0..N : joined[n] \in Seq(A)
  <2> DEFINE S == {n \in 0..N : joined[n] \in Seq(A)}
  <2>1. 0 \in S
    BY <1>1
  <2> HIDE DEF joined
  <2>2. ASSUME NEW n \in 0..(N - 1), n \in S PROVE n + 1 \in S
    <3>1. n + 1 \in 0..N
      BY <1>1
    <3>2. QED
      BY <1>5, <2>2, <3>1
  <2>3. 0..N \subseteq S
    <3> HIDE DEF S
    <3>1. QED
      BY <1>1, <2>1, <2>2, IntervalInduction
  <2>4. QED
    BY <2>3
<1>7. joined \in [0..N -> Seq(A)]
  BY <1>6
<1>8. joined[0] = <<>>
  BY <1>1
<1>9. FlattenSeq(deltas) = joined[N]
  <2>1. CASE N = 0
    BY <1>3, <1>8, <2>1
  <2>2. CASE N # 0
    BY <1>1, <1>3, <2>2
  <2>3. QED
    BY <2>1, <2>2
<1>10. Joins(joined, deltas)
  <2> HIDE DEF joined
  <2>1. ASSUME NEW n \in 1..N PROVE joined[n] = joined[n - 1] \o deltas[n]
    <3>1. n - 1 \in 0..(N - 1) /\ n - 1 \in 0..N /\ (n - 1) + 1 = n
      BY <1>1
    <3>2. QED
      BY <1>5, <1>6, <3>1
  <2>2. QED
    BY <1>8, <2>1 DEF Joins
<1>11. QED
  BY <1>7, <1>9, <1>10

LEMMA FlattenType ==
    ASSUME NEW A, NEW deltas \in Seq(Seq(A))
    PROVE  FlattenSeq(deltas) \in Seq(A)
<1>1. PICK joined \in [0..Len(deltas) -> Seq(A)] :
         Joins(joined, deltas) /\ FlattenSeq(deltas) = joined[Len(deltas)]
  BY FlattenJoins
<1>2. Len(deltas) \in 0..Len(deltas)
  OBVIOUS
<1>3. QED
  BY <1>1, <1>2

Pushes(after, secret, deltas, n) ==
    after = [i \in 0..n |-> IF i = 0 THEN newSecretFilter(secret)
                            ELSE push(after[i - 1], deltas[i])]

LEMMA PushesExist ==
    ASSUME NEW secret, NEW deltas, NEW n \in Nat
    PROVE  \E after : Pushes(after, secret, deltas, n)
<1> DEFINE S == {i \in Nat : \E after : Pushes(after, secret, deltas, i)}
<1>1. 0 \in S
  <2>1. Pushes([i \in 0..0 |-> newSecretFilter(secret)], secret, deltas, 0)
    BY DEF Pushes
  <2>2. QED
    BY <2>1
<1>2. ASSUME NEW i \in Nat, i \in S PROVE i + 1 \in S
  <2>1. PICK after : Pushes(after, secret, deltas, i)
    BY <1>2
  <2> DEFINE more == [j \in 0..(i + 1) |->
                        IF j = i + 1 THEN push(after[i], deltas[i + 1]) ELSE after[j]]
  <2>2. Pushes(more, secret, deltas, i + 1)
    BY <2>1 DEF Pushes
  <2>3. QED
    BY <2>2
<1>3. Nat \subseteq S
  <2> HIDE DEF S
  <2>1. QED
    BY <1>1, <1>2, SetInduction
<1>4. QED
  BY <1>3

\* Where a reply is split into deltas makes no difference to the filter.
LEMMA PushedAtOnce ==
    ASSUME NEW A, NEW secret \in Seq(A), secret # <<>>, NEW deltas \in Seq(Seq(A))
    PROVE  /\ FlattenSeq(deltas) \in Seq(A)
           /\ pushAll(secret, deltas) = Pushed(secret, FlattenSeq(deltas))
<1> DEFINE N == Len(deltas)
           after == CHOOSE after : Pushes(after, secret, deltas, N)
<1>1. N \in Nat
  OBVIOUS
<1>2. Pushes(after, secret, deltas, N)
  BY <1>1, PushesExist
<1>3. pushAll(secret, deltas) = after[N]
  BY DEF pushAll, Pushes
<1> HIDE DEF after
<1>4. /\ after[0] = newSecretFilter(secret)
      /\ \A n \in 1..N : after[n] = push(after[n - 1], deltas[n])
  BY <1>1, <1>2 DEF Pushes
<1>5. PICK joined \in [0..N -> Seq(A)] : Joins(joined, deltas) /\ FlattenSeq(deltas) = joined[N]
  BY FlattenJoins
<1> DEFINE S == {n \in 0..N : after[n] = Pushed(secret, joined[n])}
<1>6. 0 \in S
  BY <1>1, <1>4, <1>5, PushedEmpty DEF Joins
<1>7. ASSUME NEW n \in 0..(N - 1), n \in S PROVE n + 1 \in S
  <2>1. n + 1 \in 1..N /\ n + 1 \in 0..N /\ (n + 1) - 1 = n /\ n \in 0..N
    BY <1>1
  <2>2. joined[n] \in Seq(A) /\ deltas[n + 1] \in Seq(A)
    <3>1. joined[n] \in Seq(A)
      BY <2>1
    <3>2. deltas[n + 1] \in Seq(A)
      BY <2>1
    <3>3. QED
      BY <3>1, <3>2
  <2>3. joined[n + 1] = joined[n] \o deltas[n + 1]
    BY <1>5, <2>1 DEF Joins
  <2>4. after[n + 1] = push(Pushed(secret, joined[n]), deltas[n + 1])
    BY <1>4, <1>7, <2>1
  <2>5. after[n + 1] = Pushed(secret, joined[n + 1])
    BY <2>2, <2>3, <2>4, PushAgain
  <2>6. QED
    BY <2>1, <2>5
<1>8. N \in S
  <2>1. N \in 0..N
    BY <1>1
  <2> HIDE DEF S, N
  <2>2. 0..N \subseteq S
    BY <1>1, <1>6, <1>7, IntervalInduction
  <2>3. QED
    BY <2>1, <2>2
<1>9. joined[N] \in Seq(A)
  BY <1>1
<1>10. QED
  BY <1>3, <1>5, <1>8, <1>9

LEMMA FlattenOne ==
    ASSUME NEW A, NEW text \in Seq(A)
    PROVE  FlattenSeq(<<text>>) = text
<1>1. <<text>> \in Seq(Seq(A)) /\ Len(<<text>>) = 1 /\ <<text>>[1] = text
  OBVIOUS
<1>2. PICK joined \in [0..1 -> Seq(A)] : Joins(joined, <<text>>) /\ FlattenSeq(<<text>>) = joined[1]
  <2>1. \E joined \in [0..Len(<<text>>) -> Seq(A)] :
           Joins(joined, <<text>>) /\ FlattenSeq(<<text>>) = joined[Len(<<text>>)]
    BY <1>1, FlattenJoins, Zenon
  <2>2. QED
    BY <1>1, <2>1
<1>3. joined[0] = <<>> /\ joined[1] = joined[1 - 1] \o <<text>>[1]
  <2>1. 1 \in 1..Len(<<text>>)
    BY <1>1
  <2>2. QED
    BY <1>2, <2>1, Zenon DEF Joins
<1>4. <<>> \o text = text
  OBVIOUS
<1>5. 1 - 1 = 0
  OBVIOUS
<1>6. QED
  BY <1>1, <1>2, <1>3, <1>4, <1>5, Zenon

-----------------------------------------------------------------------------
(* What is kept of a reply is what was shown of it.                        *)

LEMMA RestFirst ==
    ASSUME NEW A, NEW text \in Seq(A), NEW i \in 1..Len(text)
    PROVE  rest(text, i) = <<text[i]>> \o rest(text, i + 1)
<1>1. Len(text) \in i..Len(text)
  OBVIOUS
<1>2. QED
  BY <1>1, SubSeqRecursiveFirst DEF rest

RepAt(F, text, secret, i) ==
    IF i > Len(text) THEN <<>>
    ELSE IF IsPrefix(secret, SubSeq(text, i, Len(text)))
         THEN <<secretReplacement>> \o F[i + Len(secret)]
         ELSE <<text[i]>> \o F[i + 1]

Replaces(F, text, secret) == F = [i \in 1..(Len(text) + 1) |-> RepAt(F, text, secret, i)]

LEMMA RepLooksAhead ==
    ASSUME NEW A, NEW text \in Seq(A), NEW secret \in Seq(A), secret # <<>>,
           NEW i \in 1..(Len(text) + 1), NEW F, NEW G,
           \A j \in (i + 1)..(Len(text) + 1) : F[j] = G[j]
    PROVE  RepAt(F, text, secret, i) = RepAt(G, text, secret, i)
<1>1. Len(text) \in Nat /\ Len(secret) \in Nat \ {0}
  OBVIOUS
<1>2. CASE i > Len(text)
  BY <1>2 DEF RepAt
<1>3. CASE i <= Len(text)
  <2>1. F[i + 1] = G[i + 1]
    BY <1>1, <1>3
  <2>2. ASSUME IsPrefix(secret, SubSeq(text, i, Len(text)))
        PROVE  F[i + Len(secret)] = G[i + Len(secret)]
    <3>1. i + Len(secret) \in (i + 1)..(Len(text) + 1)
      BY <1>1, <2>2, PrefixOfRest DEF rest, Occurs
    <3>2. QED
      BY <3>1
  <2>3. QED
    BY <2>1, <2>2 DEF RepAt
<1>4. QED
  BY <1>1, <1>2, <1>3

\* ReplaceAll of a text is what goes out of it and what stays pending.
LEMMA ReplaceIsFiltered ==
    ASSUME NEW A, NEW text \in Seq(A), NEW secret \in Seq(A), secret # <<>>
    PROVE  ReplaceSecret(text, secret) =
              filtered(text, secret).out \o filtered(text, secret).pending
<1> DEFINE N == Len(text)
           B == A \cup {secretReplacement}
<1>1. N \in Nat /\ Len(secret) \in Nat \ {0}
  OBVIOUS
<1>2. PICK F \in [1..(N + 1) -> Filtered(A)] : Unfolds(F, text, secret)
  BY FilteredUnfolds, Zenon
<1> DEFINE G == [i \in 1..(N + 1) |-> F[i].out \o F[i].pending]
<1>3. \A i \in 1..(N + 1) : F[i].out \in Seq(B) /\ F[i].pending \in Seq(B)
  BY DEF Filtered
<1>4. ASSUME NEW i \in 1..N
      PROVE  /\ Occurs(text, secret, i) =>
                   /\ i + Len(secret) \in (i + 1)..(N + 1)
                   /\ G[i] = <<secretReplacement>> \o G[i + Len(secret)]
             /\ ~Occurs(text, secret, i) /\ Begins(text, secret, i) => G[i] = rest(text, i)
             /\ ~Occurs(text, secret, i) /\ ~Begins(text, secret, i) =>
                   G[i] = <<text[i]>> \o G[i + 1]
  <2>1. i \in 1..(N + 1) /\ i + 1 \in 1..(N + 1)
    BY <1>1
  <2>2. /\ Occurs(text, secret, i) =>
              /\ i + Len(secret) \in (i + 1)..(N + 1)
              /\ F[i].out = <<secretReplacement>> \o F[i + Len(secret)].out
              /\ F[i].pending = F[i + Len(secret)].pending
        /\ ~Occurs(text, secret, i) /\ Begins(text, secret, i) =>
              F[i].out = <<>> /\ F[i].pending = rest(text, i)
        /\ ~Occurs(text, secret, i) /\ ~Begins(text, secret, i) =>
              F[i].out = <<text[i]>> \o F[i + 1].out /\ F[i].pending = F[i + 1].pending
    BY <1>2, Zenon DEF Unfolds
  <2>3. ASSUME NEW a \in B, NEW j \in 1..(N + 1),
               F[i].out = <<a>> \o F[j].out, F[i].pending = F[j].pending
        PROVE  G[i] = <<a>> \o G[j]
    <3>1. F[j].out \in Seq(B) /\ F[j].pending \in Seq(B)
      BY <1>3
    <3>2. (<<a>> \o F[j].out) \o F[j].pending = <<a>> \o (F[j].out \o F[j].pending)
      <4> HIDE DEF B
      <4>1. \A x, y \in Seq(B) : (<<a>> \o x) \o y = <<a>> \o (x \o y)
        BY ConcatAfterOne
      <4>2. QED
        BY <3>1, <4>1, Zenon
    <3>3. G[i] = F[i].out \o F[i].pending /\ G[j] = F[j].out \o F[j].pending
      BY <2>1
    <3>4. QED
      BY <2>3, <3>2, <3>3, Zenon
  <2> HIDE DEF G
  <2>4. CASE Occurs(text, secret, i)
    <3>1. secretReplacement \in B /\ i + Len(secret) \in 1..(N + 1)
      BY <1>1, <2>2, <2>4
    <3> HIDE DEF B
    <3>2. QED
      BY <2>2, <2>3, <2>4, <3>1, Zenon
  <2>5. CASE ~Occurs(text, secret, i) /\ Begins(text, secret, i)
    <3>1. <<>> \o rest(text, i) = rest(text, i)
      <4>1. rest(text, i) \in Seq(A)
        BY <2>1, RestType, Zenon
      <4>2. QED
        BY <4>1
    <3>2. G[i] = F[i].out \o F[i].pending
      BY <2>1 DEF G
    <3>3. QED
      BY <2>2, <2>5, <3>1, <3>2, Zenon
  <2>6. CASE ~Occurs(text, secret, i) /\ ~Begins(text, secret, i)
    <3>1. text[i] \in B
      OBVIOUS
    <3> HIDE DEF B
    <3>2. QED
      BY <2>1, <2>2, <2>3, <2>6, <3>1, Zenon
  <2>7. QED
    BY <2>4, <2>5, <2>6, Zenon
<1>5. G[N + 1] = <<>> /\ rest(text, N + 1) = <<>>
  <2>1. N + 1 \in 1..(N + 1)
    BY <1>1
  <2>2. F[N + 1].out = <<>> /\ F[N + 1].pending = <<>>
    BY <1>2 DEF Unfolds
  <2>3. <<>> \o <<>> = <<>>
    OBVIOUS
  <2>4. rest(text, N + 1) = <<>>
    BY <1>1 DEF rest
  <2>5. QED
    BY <2>1, <2>2, <2>3, <2>4
<1>6. G[1] = filtered(text, secret).out \o filtered(text, secret).pending
  <2>1. rest(text, 1) = text /\ 1 \in 1..(N + 1)
    BY <1>1, SubSeqFull DEF rest
  <2>2. F[1] = filtered(text, secret)
    BY <1>2, <2>1 DEF Unfolds
  <2>3. QED
    BY <2>1, <2>2
<1>7. G = [i \in 1..(N + 1) |-> G[i]]
  OBVIOUS
<1> HIDE DEF G
\* Nothing is replaced in an end shorter than the secret.
<1>8. \A i \in 1..(N + 1) : N - i + 1 < Len(secret) => G[i] = rest(text, i)
  <2> DEFINE S == {i \in 1..(N + 1) : N - i + 1 < Len(secret) => G[i] = rest(text, i)}
  <2>1. N + 1 \in S
    BY <1>1, <1>5
  <2>2. ASSUME NEW i \in 1..N, (i + 1)..(N + 1) \subseteq S PROVE i \in S
    <3>1. i \in 1..(N + 1) /\ i + 1 \in (i + 1)..(N + 1)
      BY <1>1
    <3>2. ASSUME N - i + 1 < Len(secret) PROVE G[i] = rest(text, i)
      <4>1. ~Occurs(text, secret, i) /\ N - (i + 1) + 1 < Len(secret)
        BY <1>1, <3>2 DEF Occurs
      <4>2. G[i + 1] = rest(text, i + 1)
        BY <2>2, <3>1, <4>1
      <4>3. rest(text, i) = <<text[i]>> \o rest(text, i + 1)
        BY RestFirst
      <4>4. QED
        BY <1>4, <4>1, <4>2, <4>3, Zenon
    <3>3. QED
      BY <3>1, <3>2
  <2>3. 1..(N + 1) \subseteq S
    <3> HIDE DEF S
    <3>1. QED
      BY <1>1, <2>1, <2>2, DownwardInduction
  <2>4. QED
    BY <2>3
<1>9. ASSUME NEW i \in 1..(N + 1) PROVE G[i] = RepAt(G, text, secret, i)
  <2>1. CASE i = N + 1
    BY <1>1, <1>5, <2>1 DEF RepAt
  <2>2. CASE i \in 1..N
    <3>1. IsPrefix(secret, SubSeq(text, i, Len(text))) <=> Occurs(text, secret, i)
      BY PrefixOfRest, Zenon DEF rest
    <3>2. ~(i > Len(text))
      BY <1>1, <2>2
    <3>3. CASE Occurs(text, secret, i)
      BY <1>4, <2>2, <3>1, <3>2, <3>3, Zenon DEF RepAt
    <3>4. CASE ~Occurs(text, secret, i)
      <4>1. G[i] = <<text[i]>> \o G[i + 1]
        <5>1. CASE Begins(text, secret, i)
          <6>1. N - (i + 1) + 1 < Len(secret) /\ i + 1 \in 1..(N + 1)
            BY <1>1, <2>2, <5>1 DEF Begins
          <6>2. G[i + 1] = rest(text, i + 1)
            BY <1>8, <6>1
          <6>3. rest(text, i) = <<text[i]>> \o rest(text, i + 1)
            BY <2>2, RestFirst
          <6>4. QED
            BY <1>4, <2>2, <3>4, <5>1, <6>2, <6>3, Zenon
        <5>2. CASE ~Begins(text, secret, i)
          BY <1>4, <2>2, <3>4, <5>2, Zenon
        <5>3. QED
          BY <5>1, <5>2
      <4>2. QED
        BY <3>1, <3>2, <3>4, <4>1, Zenon DEF RepAt
    <3>5. QED
      BY <3>3, <3>4
  <2>3. QED
    BY <1>1, <2>1, <2>2
<1>10. Replaces(G, text, secret)
  BY <1>7, <1>9, Zenon DEF Replaces
<1> DEFINE R == CHOOSE R : Replaces(R, text, secret)
<1>11. Replaces(R, text, secret)
  BY <1>10
<1>12. ReplaceSecret(text, secret) = R[1]
  BY DEF ReplaceSecret, Replaces, RepAt
<1> HIDE DEF R
<1>13. R[1] = G[1]
  <2> DEFINE S == {i \in 1..(N + 1) : R[i] = G[i]}
  <2>1. ASSUME NEW i \in 1..(N + 1), \A j \in (i + 1)..(N + 1) : R[j] = G[j] PROVE i \in S
    <3>1. RepAt(R, text, secret, i) = RepAt(G, text, secret, i)
      BY <2>1, RepLooksAhead
    <3>2. R[i] = RepAt(R, text, secret, i)
      BY <1>11 DEF Replaces
    <3>3. QED
      BY <1>9, <3>1, <3>2
  <2>2. N + 1 \in S
    <3>1. N + 1 \in 1..(N + 1) /\ \A j \in (N + 1 + 1)..(N + 1) : R[j] = G[j]
      BY <1>1
    <3>2. QED
      BY <2>1, <3>1
  <2>3. ASSUME NEW i \in 1..N, (i + 1)..(N + 1) \subseteq S PROVE i \in S
    <3>1. i \in 1..(N + 1) /\ \A j \in (i + 1)..(N + 1) : R[j] = G[j]
      BY <1>1, <2>3
    <3>2. QED
      BY <2>1, <3>1
  <2>4. 1 \in S
    <3>1. 1 \in 1..(N + 1)
      BY <1>1
    <3> HIDE DEF S, N
    <3>2. 1..(N + 1) \subseteq S
      BY <1>1, <2>2, <2>3, DownwardInduction
    <3>3. QED
      BY <3>1, <3>2
  <2>5. QED
    BY <2>4
<1>14. QED
  BY <1>6, <1>12, <1>13

\* Replacing the pending end of the kept text is what flush prints.
LEMMA KeptIsShown ==
    ASSUME NEW A, NEW text \in Seq(A), NEW secret \in Seq(A), secret # <<>>
    PROVE  LET f == Pushed(secret, text)
           IN  redactAssembled(f, text) = f.out \o flush(f)
<1> DEFINE f == Pushed(secret, text)
           out == filtered(text, secret).out
           p == filtered(text, secret).pending
           all == ReplaceSecret(text, secret)
           B == A \cup {secretReplacement}
<1>1. out \in Seq(B) /\ p \in Seq(B)
  <2>1. out \in Seq(B) /\ p \in Seq(A)
    BY FilteredType, Zenon
  <2>2. QED
    BY <2>1
<1>2. f.out = out /\ f.pending = p /\ f.secret = secret
  BY DEF Pushed
<1>3. all = out \o p
  BY ReplaceIsFiltered
<1> HIDE DEF f, out, p, all, B
<1>4. CASE p = <<>>
  <2>1. all = out /\ flush(f) = <<>> /\ out \o <<>> = out
    BY <1>1, <1>2, <1>3, <1>4 DEF flush
  <2>2. redactAssembled(f, text) = all
    BY <1>2, <1>4 DEF redactAssembled, all
  <2>3. QED
    BY <1>2, <2>1, <2>2 DEF f
<1>5. CASE p # <<>>
  <2>1. /\ all \in Seq(B) /\ Len(all) = Len(out) + Len(p)
        /\ Len(out) \in Nat /\ Len(p) \in Nat \ {0}
        /\ \A m \in 1..Len(out) : all[m] = out[m]
        /\ \A m \in 1..Len(p) : all[Len(out) + m] = p[m]
    BY <1>1, <1>3, <1>5, ConcatElements
  <2>2. IsSuffix(p, all)
    <3> DEFINE rp == Reverse(p)
               ra == Reverse(all)
    <3>1. /\ rp \in Seq(B) /\ Len(rp) = Len(p)
          /\ \A m \in 1..Len(p) : rp[m] = p[(Len(p) - m) + 1]
      BY <1>1 DEF Reverse
    <3>2. /\ ra \in Seq(B) /\ Len(ra) = Len(all)
          /\ \A m \in 1..Len(all) : ra[m] = all[(Len(all) - m) + 1]
      BY <2>1 DEF Reverse
    <3> HIDE DEF rp, ra
    <3>3. ASSUME NEW m \in 1..Len(rp) PROVE rp[m] = ra[m]
      <4> DEFINE k == (Len(p) - m) + 1
      <4>1. /\ k \in 1..Len(p) /\ m \in 1..Len(all) /\ m \in 1..Len(p)
            /\ (Len(all) - m) + 1 = Len(out) + k
        BY <2>1, <3>1
      <4>2. rp[m] = p[k] /\ ra[m] = all[Len(out) + k]
        BY <3>1, <3>2, <4>1
      <4> HIDE DEF k
      <4>3. QED
        BY <2>1, <4>1, <4>2
    <3>4. IsPrefix(rp, ra)
      <4>1. rp \in Seq(B) /\ ra \in Seq(B)
        BY <3>1, <3>2, Zenon
      <4>2. Len(rp) <= Len(ra)
        BY <2>1, <3>1, <3>2
      <4>3. QED
        BY <3>3, <4>1, <4>2, AgreeingIsPrefix, Zenon
    <3>5. QED
      BY <3>4 DEF IsSuffix, rp, ra
  <2>3. SubSeq(all, 1, Len(all) - Len(p)) = out
    <3> DEFINE front == SubSeq(all, 1, Len(all) - Len(p))
    <3>1. Len(all) - Len(p) = Len(out)
      BY <2>1
    <3>2. /\ front \in Seq(B) /\ Len(front) = Len(out)
          /\ \A m \in 1..Len(out) : front[m] = all[m]
      BY <2>1, <3>1
    <3> HIDE DEF front
    <3>3. front = out
      BY <1>1, <2>1, <3>2, SeqEqual
    <3>4. QED
      BY <3>3 DEF front
  <2>4. redactAssembled(f, text) = out \o <<secretReplacement>>
    BY <1>2, <1>5, <2>2, <2>3 DEF redactAssembled, all
  <2>5. flush(f) = <<secretReplacement>>
    BY <1>2, <1>5 DEF flush
  <2>6. QED
    BY <1>2, <2>4, <2>5 DEF f
<1>6. QED
  BY <1>4, <1>5

-----------------------------------------------------------------------------
(* The secret is in nothing that goes out.                                 *)

\* As far as no secret was replaced, what goes out is the text.
OutCopies(F, text) ==
    \A i \in 1..(Len(text) + 1) : \A k \in 1..Len(F[i].out) :
       (\A m \in 1..k : F[i].out[m] # secretReplacement) =>
           /\ i + k - 1 <= Len(text)
           /\ \A m \in 1..k : F[i].out[m] = text[i + m - 1]

LEMMA OutIsText ==
    ASSUME NEW A, NEW text \in Seq(A), NEW secret \in Seq(A), secret # <<>>,
           NEW F \in [1..(Len(text) + 1) -> Filtered(A)], Unfolds(F, text, secret)
    PROVE  OutCopies(F, text)
<1> DEFINE N == Len(text)
           B == A \cup {secretReplacement}
           Plain(i, k) == \A m \in 1..k : F[i].out[m] # secretReplacement
           Same(i, k) == i + k - 1 <= N /\ \A m \in 1..k : F[i].out[m] = text[i + m - 1]
           S == {i \in 1..(N + 1) : \A k \in 1..Len(F[i].out) : Plain(i, k) => Same(i, k)}
<1>1. N \in Nat /\ Len(secret) \in Nat \ {0}
  OBVIOUS
<1>2. \A i \in 1..(N + 1) : F[i].out \in Seq(B)
  BY DEF Filtered
<1>3. N + 1 \in S
  <2>1. F[N + 1] = [out |-> <<>>, pending |-> <<>>]
    BY Zenon DEF Unfolds
  <2>4. F[N + 1].out = <<>>
    BY <2>1
  <2>2. 1..Len(<<>>) = {} /\ N + 1 \in 1..(N + 1)
    BY <1>1
  <2>3. QED
    BY <2>2, <2>4, Zenon
<1>4. ASSUME NEW i \in 1..N, (i + 1)..(N + 1) \subseteq S PROVE i \in S
  <2>1. i \in 1..(N + 1) /\ i + 1 \in (i + 1)..(N + 1) /\ i + 1 \in 1..(N + 1)
    BY <1>1
  <2>2. /\ Occurs(text, secret, i) =>
              /\ i + Len(secret) \in (i + 1)..(N + 1)
              /\ F[i].out = <<secretReplacement>> \o F[i + Len(secret)].out
        /\ ~Occurs(text, secret, i) /\ Begins(text, secret, i) => F[i].out = <<>>
        /\ ~Occurs(text, secret, i) /\ ~Begins(text, secret, i) =>
              F[i].out = <<text[i]>> \o F[i + 1].out
    BY Zenon DEF Unfolds
  <2>3. ASSUME NEW k \in 1..Len(F[i].out), Plain(i, k) PROVE Same(i, k)
    <3>1. k \in Nat /\ 1 \in 1..k
      OBVIOUS
    <3>2. CASE Occurs(text, secret, i)
      <4>1. F[i + Len(secret)].out \in Seq(B)
        BY <1>1, <1>2, <2>1, <2>2, <3>2
      <4>2. F[i].out[1] = secretReplacement
        BY <2>2, <3>2, <4>1
      <4>3. QED
        BY <2>3, <3>1, <4>2
    <3>3. CASE ~Occurs(text, secret, i) /\ Begins(text, secret, i)
      BY <2>2, <3>3
    <3>4. CASE ~Occurs(text, secret, i) /\ ~Begins(text, secret, i)
      <4> DEFINE o == F[i + 1].out
                 h == F[i].out
      <4>1. o \in Seq(B) /\ h = <<text[i]>> \o o
        BY <1>2, <2>1, <2>2, <3>4
      <4>2. Len(h) = 1 + Len(o) /\ h[1] = text[i] /\ \A m \in 1..Len(o) : h[1 + m] = o[m]
        <5> HIDE DEF o, h
        <5>1. QED
          BY <4>1
      <4>3. Len(o) \in Nat
        <5> HIDE DEF o
        <5>1. QED
          BY <4>1
      <4>4. k <= 1 + Len(o)
        BY <4>2
      <4>5. CASE k = 1
        BY <1>1, <4>2, <4>5
      <4>6. CASE k # 1
        <5>1. k - 1 \in 1..Len(o)
          BY <3>1, <4>3, <4>4, <4>6
        <5>2. Plain(i + 1, k - 1)
          <6>1. ASSUME NEW m \in 1..(k - 1) PROVE o[m] # secretReplacement
            <7>1. m \in 1..Len(o) /\ 1 + m \in 1..k
              BY <5>1
            <7>2. h[1 + m] = o[m] /\ h[1 + m] # secretReplacement
              BY <2>3, <4>2, <7>1
            <7>3. QED
              BY <7>2
          <6>2. QED
            BY <6>1
        <5>3. Same(i + 1, k - 1)
          BY <1>4, <2>1, <5>1, <5>2
        <5>4. i + k - 1 <= N
          BY <3>1, <5>3
        <5>5. ASSUME NEW m \in 1..k PROVE h[m] = text[i + m - 1]
          <6>1. CASE m = 1
            BY <4>2, <6>1
          <6>2. CASE m # 1
            <7> DEFINE l == m - 1
            <7>1. l \in 1..(k - 1) /\ l \in 1..Len(o) /\ m = 1 + l /\ (i + 1) + l - 1 = i + m - 1
              BY <5>1, <6>2
            <7> HIDE DEF l
            <7>2. o[l] = text[(i + 1) + l - 1]
              BY <5>3, <7>1
            <7>3. h[1 + l] = o[l]
              BY <4>2, <7>1
            <7>4. QED
              BY <7>1, <7>2, <7>3
          <6>3. QED
            BY <6>1, <6>2
        <5>6. QED
          BY <5>4, <5>5
      <4>7. QED
        BY <4>5, <4>6
    <3>5. QED
      BY <3>2, <3>3, <3>4
  <2>4. QED
    BY <2>1, <2>3
<1>5. 1..(N + 1) \subseteq S
  <2> HIDE DEF S, N
  <2>1. QED
    BY <1>1, <1>3, <1>4, DownwardInduction
<1>6. QED
  BY <1>5 DEF OutCopies

\* The secret is never in what goes out.
LEMMA NoSecretOut ==
    ASSUME NEW A, secretReplacement \notin A,
           NEW text \in Seq(A), NEW secret \in Seq(A), secret # <<>>
    PROVE  \A j \in 1..Len(filtered(text, secret).out) :
              ~Occurs(filtered(text, secret).out, secret, j)
<1> DEFINE N == Len(text)
           B == A \cup {secretReplacement}
<1>1. N \in Nat /\ Len(secret) \in Nat \ {0} /\ 1 \in 1..Len(secret)
  OBVIOUS
<1>2. PICK F \in [1..(N + 1) -> Filtered(A)] : Unfolds(F, text, secret)
  BY FilteredUnfolds
<1>3. \A i \in 1..(N + 1) : F[i].out \in Seq(B)
  BY DEF Filtered
<1>4. \A m \in 1..Len(secret) : secret[m] \in A /\ secret[m] # secretReplacement
  OBVIOUS
<1> DEFINE S == {i \in 1..(N + 1) : \A j \in 1..Len(F[i].out) : ~Occurs(F[i].out, secret, j)}
<1>5. N + 1 \in S
  <2>1. F[N + 1] = [out |-> <<>>, pending |-> <<>>]
    BY <1>2, Zenon DEF Unfolds
  <2>2. F[N + 1].out = <<>>
    BY <2>1
  <2>3. 1..Len(<<>>) = {} /\ N + 1 \in 1..(N + 1)
    BY <1>1
  <2>4. QED
    BY <2>2, <2>3, Zenon
<1>6. ASSUME NEW i \in 1..N, (i + 1)..(N + 1) \subseteq S PROVE i \in S
  <2>1. i \in 1..(N + 1) /\ i + 1 \in (i + 1)..(N + 1) /\ i + 1 \in 1..(N + 1)
    BY <1>1
  <2>2. /\ Occurs(text, secret, i) =>
              /\ i + Len(secret) \in (i + 1)..(N + 1)
              /\ F[i].out = <<secretReplacement>> \o F[i + Len(secret)].out
        /\ ~Occurs(text, secret, i) /\ Begins(text, secret, i) => F[i].out = <<>>
        /\ ~Occurs(text, secret, i) /\ ~Begins(text, secret, i) =>
              F[i].out = <<text[i]>> \o F[i + 1].out
    BY <1>2, Zenon DEF Unfolds
  <2>3. ASSUME NEW j \in 1..Len(F[i].out), Occurs(F[i].out, secret, j) PROVE FALSE
    <3>1. CASE ~Occurs(text, secret, i) /\ Begins(text, secret, i)
      BY <2>2, <3>1
    <3>2. CASE Occurs(text, secret, i) \/ ~Begins(text, secret, i)
      <4>1. PICK q \in (i + 1)..(N + 1), a \in B :
               /\ F[i].out = <<a>> \o F[q].out
               /\ Occurs(text, secret, i) => a = secretReplacement
               /\ ~Occurs(text, secret, i) => q = i + 1
        <5>1. CASE Occurs(text, secret, i)
          BY <2>2, <5>1
        <5>2. CASE ~Occurs(text, secret, i)
          <6>1. text[i] \in B
            OBVIOUS
          <6>2. QED
            BY <2>1, <2>2, <3>2, <5>2, <6>1
        <5>3. QED
          BY <5>1, <5>2
      <4> DEFINE o == F[q].out
                 h == F[i].out
      <4>2. q \in 1..(N + 1) /\ q \in S
        BY <1>1, <1>6, <4>1
      <4>3. o \in Seq(B) /\ h = <<a>> \o o
        BY <1>3, <4>1, <4>2
      <4>4. /\ Len(o) \in Nat /\ Len(h) = 1 + Len(o) /\ h[1] = a
            /\ \A m \in 1..Len(o) : h[1 + m] = o[m]
        <5> HIDE DEF o, h
        <5>1. QED
          BY <4>1, <4>3
      <4>5. j \in 1..Len(h) /\ Occurs(h, secret, j) /\ h = F[i].out
        BY <2>3
      <4>6. j + Len(secret) - 1 <= Len(h) /\ \A m \in 1..Len(secret) : h[j + m - 1] = secret[m]
        BY <4>5, Zenon DEF Occurs
      <4>7. \A l \in 1..Len(o) : ~Occurs(o, secret, l)
        BY <4>2
      <4>8. CASE j > 1
        <5> DEFINE l == j - 1
        <5>1. l \in 1..Len(o) /\ l + Len(secret) - 1 <= Len(o)
          <6> HIDE DEF o, h
          <6>1. QED
            BY <1>1, <4>4, <4>5, <4>6, <4>8
        <5>2. ASSUME NEW m \in 1..Len(secret) PROVE o[l + m - 1] = secret[m]
          <6>1. l + m - 1 \in 1..Len(o) /\ 1 + (l + m - 1) = j + m - 1
            <7> HIDE DEF o, h
            <7>1. QED
              BY <1>1, <4>4, <4>5, <5>1
          <6>2. h[1 + (l + m - 1)] = o[l + m - 1]
            <7> HIDE DEF o, h, l
            <7>1. QED
              BY <4>4, <6>1
          <6>3. h[j + m - 1] = secret[m]
            BY <4>6
          <6> HIDE DEF o, h
          <6>4. QED
            BY <6>1, <6>2, <6>3
        <5>3. Occurs(o, secret, l)
          BY <5>1, <5>2, Zenon DEF Occurs
        <5>4. QED
          BY <4>7, <5>1, <5>3, Zenon
      <4>9. CASE j = 1
        <5>1. \A m \in 1..Len(secret) : h[m] = secret[m]
          <6>1. \A m \in 1..Len(secret) : 1 + m - 1 = m
            OBVIOUS
          <6>2. QED
            BY <4>6, <4>9, <6>1
        <5>2. Len(secret) \in 1..Len(h)
          <6> HIDE DEF o, h
          <6>1. QED
            BY <1>1, <4>4, <4>6, <4>9
        <5>3. CASE Occurs(text, secret, i)
          <6>1. h[1] = secretReplacement
            BY <4>1, <4>4, <5>3
          <6>2. h[1] = secret[1] /\ secret[1] # secretReplacement
            BY <1>1, <1>4, <5>1
          <6>3. QED
            BY <6>1, <6>2
        <5>4. CASE ~Occurs(text, secret, i)
          <6>1. \A m \in 1..Len(secret) : h[m] # secretReplacement
            BY <1>4, <5>1
          <6>2. /\ i + Len(secret) - 1 <= N
                /\ \A m \in 1..Len(secret) : h[m] = text[i + m - 1]
            <7>1. OutCopies(F, text)
              BY <1>2, OutIsText
            <7>2. QED
              BY <2>1, <5>2, <6>1, <7>1, Zenon DEF OutCopies
          <6>3. \A m \in 1..Len(secret) : text[i + m - 1] = secret[m]
            BY <5>1, <6>2
          <6>4. QED
            BY <5>4, <6>2, <6>3, Zenon DEF Occurs
        <5>5. QED
          BY <5>3, <5>4
      <4>10. QED
        <5>1. j \in Nat /\ j >= 1
          OBVIOUS
        <5>2. QED
          BY <4>8, <4>9, <5>1
    <3>3. QED
      BY <3>1, <3>2
  <2>4. QED
    BY <2>1, <2>3
<1>7. 1..(N + 1) \subseteq S
  <2> HIDE DEF S, N
  <2>1. QED
    BY <1>1, <1>5, <1>6, DownwardInduction
<1>8. filtered(text, secret) = F[1]
  <2>1. rest(text, 1) = text
    BY DEF rest
  <2>2. 1 \in 1..(N + 1)
    BY <1>1
  <2>3. F[1] = filtered(rest(text, 1), secret)
    BY <1>2, <2>2, Zenon DEF Unfolds
  <2>4. QED
    BY <2>1, <2>3
<1>9. QED
  <2>1. 1 \in 1..(N + 1)
    BY <1>1
  <2>2. 1 \in S
    BY <1>7, <2>1
  <2>3. QED
    BY <1>8, <2>2

\* Nothing that is shown of a reply has the secret in it.
LEMMA SecretNotShown ==
    ASSUME NEW B, NEW out \in Seq(B), NEW tail \in {<<>>, <<secretReplacement>>},
           secretReplacement \in B, NEW secret \in Seq(B), secret # <<>>,
           \A m \in 1..Len(secret) : secret[m] # secretReplacement,
           \A j \in 1..Len(out) : ~Occurs(out, secret, j)
    PROVE  \A i, j \in 1..Len(out \o tail) : SubSeq(out \o tail, i, j) # secret
<1> DEFINE shown == out \o tail
<1>1. tail \in Seq(B) /\ Len(tail) \in 0..1 /\ Len(out) \in Nat /\ Len(secret) \in Nat \ {0}
  <2>1. <<>> \in Seq(B) /\ <<secretReplacement>> \in Seq(B)
    OBVIOUS
  <2>2. tail \in Seq(B)
    BY <2>1
  <2>3. Len(<<>>) = 0 /\ Len(<<secretReplacement>>) = 1
    OBVIOUS
  <2>4. Len(tail) = 0 \/ Len(tail) = 1
    BY <2>3, Zenon
  <2>5. Len(out) \in Nat /\ Len(secret) \in Nat \ {0}
    OBVIOUS
  <2>6. QED
    BY <2>2, <2>4, <2>5
<1>2. /\ shown \in Seq(B) /\ Len(shown) = Len(out) + Len(tail)
      /\ \A m \in 1..Len(out) : shown[m] = out[m]
      /\ \A m \in 1..Len(tail) : shown[Len(out) + m] = tail[m]
  BY <1>1, ConcatElements
<1>3. Len(shown) > Len(out) => shown[Len(out) + 1] = secretReplacement /\ Len(shown) = Len(out) + 1
  <2>1. CASE tail = <<>>
    <3>1. Len(tail) = 0
      BY <2>1
    <3> HIDE DEF shown
    <3>2. QED
      BY <1>1, <1>2, <3>1
  <2>2. CASE tail = <<secretReplacement>>
    <3>1. Len(tail) = 1 /\ tail[1] = secretReplacement
      BY <2>2
    <3>2. 1 \in 1..Len(tail)
      BY <3>1
    <3> HIDE DEF shown
    <3>3. QED
      BY <1>1, <1>2, <3>1, <3>2
  <2>3. QED
    BY <2>1, <2>2
<1> SUFFICES ASSUME NEW i \in 1..Len(shown), NEW j \in 1..Len(shown),
                    SubSeq(shown, i, j) = secret
             PROVE  FALSE
  OBVIOUS
<1> HIDE DEF shown
<1>4. Len(SubSeq(shown, i, j)) = Len(secret) /\ j = i + Len(secret) - 1
  <2>1. Len(SubSeq(shown, i, j)) = Len(secret)
    OBVIOUS
  <2>2. Len(SubSeq(shown, i, j)) = IF i <= j THEN j - i + 1 ELSE 0
    <3>1. Len(shown) \in Nat /\ \A m \in i..j : m \in 1..Len(shown)
      BY <1>2
    <3>2. QED
      BY <1>2, <3>1, SubSeqProperties
  <2>3. i \in Int /\ j \in Int
    BY <1>1, <1>2
  <2>4. Len(secret) = IF i <= j THEN j - i + 1 ELSE 0
    BY <2>1, <2>2
  <2>5. QED
    BY <1>1, <2>1, <2>3, <2>4
<1>5. \A m \in 1..Len(secret) : shown[i + m - 1] = secret[m]
  <2>1. \A m \in 1..(j - i + 1) : SubSeq(shown, i, j)[m] = shown[i + m - 1]
    BY <1>1, <1>2
  <2>2. j - i + 1 = Len(secret)
    BY <1>1, <1>4
  <2>3. QED
    BY <2>1, <2>2
<1>6. CASE j > Len(out)
  <2>1. j = Len(out) + 1 /\ Len(secret) \in 1..Len(secret)
    BY <1>1, <1>2, <1>3, <1>6
  <2>2. shown[i + Len(secret) - 1] = secret[Len(secret)]
    BY <1>5, <2>1
  <2>3. shown[j] = secretReplacement
    BY <1>1, <1>2, <1>3, <1>6, <2>1
  <2>4. secret[Len(secret)] # secretReplacement
    BY <2>1
  <2>5. QED
    BY <1>4, <2>2, <2>3, <2>4
<1>7. CASE j <= Len(out)
  <2>1. i \in 1..Len(out) /\ i + Len(secret) - 1 <= Len(out)
    BY <1>1, <1>2, <1>4, <1>7
  <2>2. ASSUME NEW m \in 1..Len(secret) PROVE out[i + m - 1] = secret[m]
    <3>1. i + m - 1 \in 1..Len(out)
      BY <1>1, <2>1
    <3>2. QED
      BY <1>2, <1>5, <3>1
  <2>3. Occurs(out, secret, i)
    BY <2>1, <2>2, Zenon DEF Occurs
  <2>4. QED
    BY <2>1, <2>3
<1>8. QED
  BY <1>1, <1>2, <1>6, <1>7

\* However a reply over any letters is split into deltas, the filter shows what
\* is kept of it and no secret.
THEOREM RedactionIsFaithful ==
    ASSUME NEW A, secretReplacement \notin A,
           NEW secret \in Seq(A), secret # <<>>, NEW deltas \in Seq(Seq(A))
    PROVE  ShowsWhatItKeeps(secret, deltas)
<1> DEFINE reply == FlattenSeq(deltas)
           f == pushAll(secret, deltas)
           kept == redactAssembled(f, reply)
           shown == f.out \o flush(f)
           B == A \cup {secretReplacement}
<1>1. reply \in Seq(A) /\ f = Pushed(secret, reply)
  BY PushedAtOnce
<1>2. f.out = filtered(reply, secret).out /\ f.out \in Seq(B)
  <2>1. Pushed(secret, reply).out = filtered(reply, secret).out
    BY DEF Pushed
  <2>2. filtered(reply, secret).out \in Seq(B)
    <3> HIDE DEF reply
    <3>1. QED
      BY <1>1, FilteredType
  <2>3. QED
    BY <1>1, <2>1, <2>2, Zenon
<1>3. flush(f) \in {<<>>, <<secretReplacement>>}
  <2> HIDE DEF f
  <2>1. QED
    BY DEF flush
<1> HIDE DEF f, reply
<1>4. kept = shown
  <2>1. redactAssembled(Pushed(secret, reply), reply) =
           Pushed(secret, reply).out \o flush(Pushed(secret, reply))
    BY <1>1, KeptIsShown, Zenon
  <2>2. QED
    BY <1>1, <2>1, Zenon
<1>5. \A i, j \in 1..Len(shown) : SubSeq(shown, i, j) # secret
  <2>1. \A j \in 1..Len(f.out) : ~Occurs(f.out, secret, j)
    <3>1. \A j \in 1..Len(filtered(reply, secret).out) :
             ~Occurs(filtered(reply, secret).out, secret, j)
      BY <1>1, NoSecretOut, Zenon
    <3>2. QED
      BY <1>2, <3>1, Zenon
  <2>2. \A m \in 1..Len(secret) : secret[m] # secretReplacement
    OBVIOUS
  <2>3. secret \in Seq(B) /\ secretReplacement \in B
    OBVIOUS
  <2> DEFINE out == f.out
             tail == flush(f)
  <2>4. out \in Seq(B) /\ tail \in {<<>>, <<secretReplacement>>}
    BY <1>2, <1>3
  <2>5. \A j \in 1..Len(out) : ~Occurs(out, secret, j)
    BY <2>1
  <2> HIDE DEF out, tail, B
  <2>6. \A i, j \in 1..Len(out \o tail) : SubSeq(out \o tail, i, j) # secret
    BY <2>2, <2>3, <2>4, <2>5, SecretNotShown
  <2>7. QED
    BY <2>6, Zenon DEF out, tail
<1>6. IsPrefix(f.out, kept)
  <2> DEFINE out == f.out
             tail == flush(f)
  <2>1. out \in Seq(B) /\ tail \in Seq(B)
    <3>1. <<>> \in Seq(B) /\ <<secretReplacement>> \in Seq(B)
      OBVIOUS
    <3>2. QED
      BY <1>2, <1>3, <3>1
  <2> HIDE DEF out, tail, B
  <2>2. /\ out \o tail \in Seq(B) /\ Len(out \o tail) = Len(out) + Len(tail)
        /\ \A m \in 1..Len(out) : (out \o tail)[m] = out[m]
    BY <2>1, ConcatElements
  <2>3. Len(out) <= Len(out \o tail)
    BY <2>1, <2>2
  <2>4. IsPrefix(out, out \o tail)
    <3>1. \A m \in 1..Len(out) : out[m] = (out \o tail)[m]
      BY <2>2
    <3>2. QED
      BY <2>1, <2>2, <2>3, <3>1, AgreeingIsPrefix, Zenon
  <2>5. QED
    BY <1>4, <2>4, Zenon DEF out, tail
<1>7. f = pushAll(secret, <<reply>>)
  <2>1. <<reply>> \in Seq(Seq(A))
    BY <1>1
  <2>2. FlattenSeq(<<reply>>) = reply
    BY <1>1, FlattenOne, Zenon
  <2>3. pushAll(secret, <<reply>>) = Pushed(secret, FlattenSeq(<<reply>>))
    BY <2>1, PushedAtOnce, Zenon
  <2>4. QED
    BY <1>1, <2>2, <2>3, Zenon
<1>8. QED
  BY <1>4, <1>5, <1>6, <1>7, Zenon DEF ShowsWhatItKeeps, f, reply

-----------------------------------------------------------------------------
(* The members of a set of positions, in order.                            *)

OrderAt(F, S, n, i) ==
    IF i > n THEN <<>> ELSE IF i \in S THEN <<i>> \o F[i + 1] ELSE F[i + 1]

Orders(F, S, n, lo) == F = [i \in lo..(n + 1) |-> OrderAt(F, S, n, i)]

LEMMA OrdersExist ==
    ASSUME NEW n \in Nat, NEW S
    PROVE  \E F : Orders(F, S, n, 1)
<1> DEFINE T == {i \in 1..(n + 1) : \E F : Orders(F, S, n, i)}
<1>1. n + 1 \in T
  <2> DEFINE F == [i \in (n + 1)..(n + 1) |-> <<>>]
  <2>1. Orders(F, S, n, n + 1)
    BY DEF Orders, OrderAt
  <2>2. QED
    BY <2>1
<1>2. ASSUME NEW i \in 1..n, (i + 1)..(n + 1) \subseteq T PROVE i \in T
  <2>1. i + 1 \in T
    <3>1. i + 1 \in (i + 1)..(n + 1)
      OBVIOUS
    <3> HIDE DEF T
    <3>2. QED
      BY <1>2, <3>1
  <2>2. PICK F : Orders(F, S, n, i + 1)
    BY <2>1
  <2> DEFINE G == [j \in i..(n + 1) |-> IF j = i THEN OrderAt(F, S, n, i) ELSE F[j]]
  <2>3. \A j \in (i + 1)..(n + 1) : F[j] = G[j]
    OBVIOUS
  <2>4. ASSUME NEW j \in i..(n + 1) PROVE G[j] = OrderAt(G, S, n, j)
    <3>1. OrderAt(F, S, n, j) = OrderAt(G, S, n, j)
      <4>1. j <= n => F[j + 1] = G[j + 1]
        BY <2>3
      <4> HIDE DEF G
      <4>2. QED
        BY <4>1 DEF OrderAt
    <3>2. G[j] = OrderAt(F, S, n, j)
      <4>1. CASE j = i
        BY <4>1
      <4>2. CASE j \in (i + 1)..(n + 1)
        BY <2>2, <2>3, <4>2 DEF Orders
      <4>3. QED
        BY <4>1, <4>2
    <3>3. QED
      BY <3>1, <3>2
  <2>5. G = [j \in i..(n + 1) |-> G[j]]
    OBVIOUS
  <2>6. Orders(G, S, n, i)
    <3> HIDE DEF G
    <3>1. QED
      BY <2>4, <2>5, Zenon DEF Orders
  <2>7. QED
    BY <2>6
<1>3. 1 \in T
  <2>1. 1 \in 1..(n + 1)
    OBVIOUS
  <2> HIDE DEF T
  <2>2. 1..(n + 1) \subseteq T
    BY <1>1, <1>2, DownwardInduction
  <2>3. QED
    BY <2>1, <2>2
<1>4. QED
  BY <1>3

OrderSolves(F, S, n) == \A i \in 1..(n + 1) : F[i] = OrderAt(F, S, n, i)

LEMMA InOrderScans ==
    ASSUME NEW n \in Nat, NEW S
    PROVE  \E F : OrderSolves(F, S, n) /\ InOrder(S, n) = F[1]
<1> DEFINE F == CHOOSE F : Orders(F, S, n, 1)
<1>1. Orders(F, S, n, 1)
  BY OrdersExist
<1>2. InOrder(S, n) = F[1]
  BY DEF InOrder, Orders, OrderAt
<1> HIDE DEF F
<1>3. OrderSolves(F, S, n)
  BY <1>1 DEF Orders, OrderSolves
<1>4. QED
  BY <1>2, <1>3

\* s has the members of T, numbers, and no others, in increasing order.
Lists(s, T) ==
    /\ s \in Seq(T)
    /\ s = <<>> => T = {}
    /\ s # <<>> => \A x \in T : s[1] <= x /\ x <= s[Len(s)]
    /\ \A k \in 1..(Len(s) - 1) :
           /\ s[k] < s[k + 1]
           /\ \A x \in T : ~(s[k] < x /\ x < s[k + 1])

LEMMA ListsOneMore ==
    ASSUME NEW T, T \subseteq Int, NEW s, Lists(s, T), NEW x \in Int, \A y \in T : x < y
    PROVE  Lists(<<x>> \o s, T \cup {x})
<1> DEFINE U == T \cup {x}
           t == <<x>> \o s
<1>1. s \in Seq(T) /\ Len(s) \in Nat
  BY DEF Lists
<1>2. t \in Seq(U) /\ Len(t) = Len(s) + 1 /\ t[1] = x /\ \A k \in 1..Len(s) : t[k + 1] = s[k]
  BY <1>1
<1>3. \A k \in 1..Len(s) : s[k] \in T
  BY <1>1
<1> HIDE DEF t
<1>0. \A y \in U : y \in Int /\ (y \in T \/ y = x)
  OBVIOUS
<1>4. t # <<>>
  BY <1>1, <1>2
<1>5. ASSUME NEW y \in U PROVE t[1] <= y /\ y <= t[Len(t)]
  <2>1. CASE s = <<>>
    <3>1. T = {} /\ Len(s) = 0
      BY <2>1 DEF Lists
    <3>2. QED
      BY <1>2, <3>1
  <2>2. CASE s # <<>>
    <3>1. Len(s) \in 1..Len(s) /\ t[Len(t)] = s[Len(s)]
      BY <1>1, <1>2, <2>2
    <3>2. s[Len(s)] \in T
      BY <1>3, <3>1
    <3>3. \A z \in T : z <= s[Len(s)]
      BY <2>2 DEF Lists
    <3>4. s[Len(s)] \in Int /\ x < s[Len(s)]
      BY <3>2
    <3>5. CASE y = x
      BY <1>2, <3>1, <3>4, <3>5
    <3>6. CASE y \in T
      <4>1. y \in Int /\ x < y /\ y <= s[Len(s)]
        BY <3>3, <3>6
      <4>2. QED
        BY <1>2, <3>1, <4>1
    <3>7. QED
      BY <3>5, <3>6
  <2>3. QED
    BY <2>1, <2>2
<1>6. ASSUME NEW k \in 1..(Len(t) - 1)
      PROVE  t[k] < t[k + 1] /\ \A y \in U : ~(t[k] < y /\ y < t[k + 1])
  <2>1. k \in 1..Len(s) /\ t[k + 1] = s[k] /\ s[k] \in T
    BY <1>1, <1>2, <1>3
  <2>2. CASE k = 1
    <3>1. s # <<>>
      BY <2>1
    <3>2. \A y \in T : s[1] <= y
      BY <3>1 DEF Lists
    <3>3. t[k] = x /\ t[k + 1] = s[1] /\ s[1] \in T /\ s[1] \in Int /\ x < s[1]
      BY <1>2, <2>1, <2>2
    <3>4. ASSUME NEW y \in U PROVE ~(t[k] < y /\ y < t[k + 1])
      <4>1. CASE y = x
        BY <3>3, <4>1
      <4>2. CASE y \in T
        <5>1. y \in Int /\ s[1] <= y
          BY <3>2, <4>2
        <5>2. QED
          BY <3>3, <5>1
      <4>3. QED
        BY <4>1, <4>2
    <3>5. QED
      BY <3>3, <3>4
  <2>3. CASE k # 1
    <3>1. k - 1 \in 1..(Len(s) - 1) /\ t[k] = s[k - 1] /\ (k - 1) + 1 = k /\ s[k - 1] \in T
      BY <1>2, <1>3, <2>1, <2>3
    <3>2. s[k - 1] < s[k] /\ \A y \in T : ~(s[k - 1] < y /\ y < s[k])
      BY <3>1 DEF Lists
    <3>3. s[k] \in Int /\ s[k - 1] \in Int /\ x < s[k - 1]
      BY <2>1, <3>1
    <3>4. ASSUME NEW y \in U PROVE ~(t[k] < y /\ y < t[k + 1])
      <4>1. CASE y = x
        BY <2>1, <3>1, <3>3, <4>1
      <4>2. CASE y \in T
        BY <2>1, <3>1, <3>2, <4>2
      <4>3. QED
        BY <4>1, <4>2
    <3>5. QED
      BY <2>1, <3>1, <3>2, <3>4
  <2>4. QED
    BY <2>2, <2>3
<1>7. QED
  BY <1>2, <1>4, <1>5, <1>6 DEF Lists, t

LEMMA InOrderLists ==
    ASSUME NEW n \in Nat, NEW S, S \subseteq 1..n
    PROVE  Lists(InOrder(S, n), S)
<1>1. PICK F : OrderSolves(F, S, n) /\ InOrder(S, n) = F[1]
  BY InOrderScans
<1> DEFINE T == {i \in 1..(n + 1) : Lists(F[i], S \cap i..n)}
<1>2. n + 1 \in T
  <2>1. n + 1 \in 1..(n + 1) /\ n + 1 > n
    OBVIOUS
  <2>2. F[n + 1] = <<>>
    BY <1>1, <2>1, Zenon DEF OrderSolves, OrderAt
  <2>3. S \cap (n + 1)..n = {}
    OBVIOUS
  <2>4. Lists(<<>>, {})
    BY DEF Lists
  <2>5. Lists(F[n + 1], S \cap (n + 1)..n)
    BY <2>2, <2>3, <2>4, Zenon
  <2>6. QED
    BY <2>1, <2>5
<1>3. ASSUME NEW i \in 1..n, (i + 1)..(n + 1) \subseteq T PROVE i \in T
  <2>1. Lists(F[i + 1], S \cap (i + 1)..n)
    <3>1. i + 1 \in (i + 1)..(n + 1)
      OBVIOUS
    <3>2. QED
      BY <1>3, <3>1
  <2>2. F[i] = IF i \in S THEN <<i>> \o F[i + 1] ELSE F[i + 1]
    BY <1>1 DEF OrderSolves, OrderAt
  <2>3. CASE i \in S
    <3>1. S \cap i..n = (S \cap (i + 1)..n) \cup {i}
      BY <2>3
    <3>2. \A y \in S \cap (i + 1)..n : i < y
      OBVIOUS
    <3>3. S \cap (i + 1)..n \subseteq Int /\ i \in Int
      OBVIOUS
    <3>4. Lists(<<i>> \o F[i + 1], (S \cap (i + 1)..n) \cup {i})
      BY <2>1, <3>2, <3>3, ListsOneMore
    <3>5. F[i] = <<i>> \o F[i + 1]
      BY <2>2, <2>3, Zenon
    <3>6. Lists(F[i], S \cap i..n)
      BY <3>1, <3>4, <3>5, Zenon
    <3>7. QED
      BY <3>6
  <2>4. CASE i \notin S
    <3>1. S \cap i..n = S \cap (i + 1)..n
      BY <2>4
    <3>2. F[i] = F[i + 1]
      BY <2>2, <2>4, Zenon
    <3>3. Lists(F[i], S \cap i..n)
      BY <2>1, <3>1, <3>2, Zenon
    <3>4. QED
      BY <3>3
  <2>5. QED
    BY <2>3, <2>4
<1>4. 1 \in T
  <2>1. 1 \in 1..(n + 1)
    OBVIOUS
  <2> HIDE DEF T
  <2>2. 1..(n + 1) \subseteq T
    BY <1>2, <1>3, DownwardInduction
  <2>3. QED
    BY <2>1, <2>2
<1>5. S \cap 1..n = S
  OBVIOUS
<1>6. QED
  BY <1>1, <1>4, <1>5

\* The first of them, and the others.
LEMMA InOrderFirst ==
    ASSUME NEW n \in Nat, NEW S, S \subseteq 1..n, NEW x \in S, \A y \in S : x <= y
    PROVE  InOrder(S, n) = <<x>> \o InOrder(S \ {x}, n)
<1>1. PICK F : OrderSolves(F, S, n) /\ InOrder(S, n) = F[1]
  BY InOrderScans
<1>2. PICK G : OrderSolves(G, S \ {x}, n) /\ InOrder(S \ {x}, n) = G[1]
  BY InOrderScans
<1>3. x \in 1..n
  OBVIOUS
<1> DEFINE T == {i \in 1..(n + 1) : IF i <= x THEN F[i] = <<x>> \o G[i] ELSE F[i] = G[i]}
<1>4. n + 1 \in T
  <2>1. n + 1 \in 1..(n + 1) /\ n + 1 > n /\ ~(n + 1 <= x)
    BY <1>3
  <2>2. F[n + 1] = <<>> /\ G[n + 1] = <<>>
    BY <1>1, <1>2, <2>1, Zenon DEF OrderSolves, OrderAt
  <2>3. QED
    BY <2>1, <2>2
<1>5. ASSUME NEW i \in 1..n, (i + 1)..(n + 1) \subseteq T PROVE i \in T
  <2>1. IF i + 1 <= x THEN F[i + 1] = <<x>> \o G[i + 1] ELSE F[i + 1] = G[i + 1]
    <3>1. i + 1 \in (i + 1)..(n + 1)
      OBVIOUS
    <3>2. QED
      BY <1>5, <3>1
  <2>2. F[i] = IF i \in S THEN <<i>> \o F[i + 1] ELSE F[i + 1]
    BY <1>1 DEF OrderSolves, OrderAt
  <2>3. G[i] = IF i \in S \ {x} THEN <<i>> \o G[i + 1] ELSE G[i + 1]
    BY <1>2 DEF OrderSolves, OrderAt
  <2>4. CASE i > x
    BY <1>3, <2>1, <2>2, <2>3, <2>4
  <2>5. CASE i = x
    BY <1>3, <2>1, <2>2, <2>3, <2>5
  <2>6. CASE i < x
    <3>1. i \notin S /\ i + 1 <= x /\ i <= x
      BY <1>3, <2>6
    <3>2. F[i] = F[i + 1] /\ G[i] = G[i + 1] /\ F[i + 1] = <<x>> \o G[i + 1]
      BY <2>1, <2>2, <2>3, <3>1, Zenon
    <3>3. F[i] = <<x>> \o G[i]
      BY <3>2, Zenon
    <3>4. QED
      BY <3>1, <3>3
  <2>7. QED
    BY <1>3, <2>4, <2>5, <2>6
<1>6. 1 \in T
  <2>1. 1 \in 1..(n + 1)
    OBVIOUS
  <2> HIDE DEF T
  <2>2. 1..(n + 1) \subseteq T
    BY <1>4, <1>5, DownwardInduction
  <2>3. QED
    BY <2>1, <2>2
<1>7. 1 <= x
  BY <1>3
<1>8. F[1] = <<x>> \o G[1]
  BY <1>6, <1>7
<1>9. QED
  BY <1>1, <1>2, <1>8, Zenon

LEMMA InOrderNone ==
    ASSUME NEW n \in Nat
    PROVE  InOrder({}, n) = <<>>
<1>1. Lists(InOrder({}, n), {})
  BY InOrderLists
<1>2. InOrder({}, n) \in Seq({})
  BY <1>1 DEF Lists
<1>3. QED
  BY <1>2

\* Behind a 0: the ends of consecutive stretches of 1..n.
Borders(N, S, n) ==
    /\ N \in Seq(0..n) /\ Len(N) >= 1 /\ N[1] = 0
    /\ \A k \in 1..(Len(N) - 1) :
           /\ N[k + 1] \in S /\ N[k] < N[k + 1]
           /\ \A x \in S : ~(N[k] < x /\ x < N[k + 1])
    /\ \A x \in S : x <= N[Len(N)]

LEMMA InOrderBorders ==
    ASSUME NEW n \in Nat, NEW S, S \subseteq 1..n
    PROVE  Borders(<<0>> \o InOrder(S, n), S, n)
<1> DEFINE s == InOrder(S, n)
           N == <<0>> \o s
<1>1. Lists(s, S)
  BY InOrderLists
<1>2. s \in Seq(S)
  BY <1>1 DEF Lists
<1> HIDE DEF s
<1>3. /\ N \in Seq(0..n) /\ Len(N) = Len(s) + 1 /\ Len(s) \in Nat /\ N[1] = 0 /\ N # <<>>
      /\ \A k \in 1..Len(s) : N[k + 1] = s[k] /\ s[k] \in S
  <2>1. s \in Seq(0..n) /\ <<0>> \in Seq(0..n)
    <3>1. S \subseteq 0..n
      OBVIOUS
    <3>2. s \in Seq(0..n)
      BY <1>2, <3>1, SeqMonotonic, Zenon
    <3>3. QED
      BY <3>2
  <2>2. Len(s) \in Nat /\ \A k \in 1..Len(s) : s[k] \in S
    BY <1>2
  <2>3. N \in Seq(0..n)
    BY <2>1
  <2>4. Len(N) = Len(s) + 1 /\ N[1] = 0 /\ \A k \in 1..Len(s) : N[k + 1] = s[k]
    BY <2>1
  <2>5. N # <<>>
    <3> HIDE DEF N
    <3>1. QED
      BY <2>2, <2>3, <2>4
  <2>6. QED
    BY <2>2, <2>3, <2>4, <2>5
<1>4. Lists(N, S \cup {0})
  <2>1. S \subseteq Int /\ 0 \in Int /\ \A y \in S : 0 < y
    OBVIOUS
  <2>2. QED
    BY <1>1, <2>1, ListsOneMore
<1> HIDE DEF N
<1>5. \A x \in S : x <= N[Len(N)]
  BY <1>3, <1>4 DEF Lists
<1>6. ASSUME NEW k \in 1..(Len(N) - 1)
      PROVE  /\ N[k + 1] \in S /\ N[k] < N[k + 1]
             /\ \A x \in S : ~(N[k] < x /\ x < N[k + 1])
  <2>1. N[k + 1] \in S
    BY <1>3
  <2>2. N[k] < N[k + 1] /\ \A x \in S \cup {0} : ~(N[k] < x /\ x < N[k + 1])
    BY <1>4 DEF Lists
  <2>3. QED
    BY <2>1, <2>2
<1>7. QED
  BY <1>3, <1>5, <1>6 DEF Borders, N, s

-----------------------------------------------------------------------------
(* The data fields among some lines.                                       *)

LEMMA DataOfNone ==
    ASSUME NEW lines, NEW last \in Nat
    PROVE  dataOf(lines, last + 1, last) = <<>>
<1>1. {k \in (last + 1)..last : lines[k][1] = "data:"} = {}
  OBVIOUS
<1>2. InOrder({k \in (last + 1)..last : lines[k][1] = "data:"}, last) = <<>>
  BY <1>1, InOrderNone, Zenon
<1> DEFINE f == InOrder({k \in (last + 1)..last : lines[k][1] = "data:"}, last)
<1>3. dataOf(lines, last + 1, last) = [i \in DOMAIN f |-> Tail(lines[f[i]])]
  BY Zenon DEF dataOf
<1> HIDE DEF f
<1>4. f = <<>>
  BY <1>2, Zenon DEF f
<1>5. QED
  BY <1>3, <1>4

LEMMA DataOfType ==
    ASSUME NEW B, NEW lines \in Seq(Seq(B)), NEW last \in 0..Len(lines),
           NEW first \in 1..(last + 1), \A k \in first..last : lines[k] # <<>>
    PROVE  dataOf(lines, first, last) \in Seq(Seq(B))
<1> DEFINE D == {k \in first..last : lines[k][1] = "data:"}
           f == InOrder(D, last)
<1>1. last \in Nat /\ D \subseteq 1..last /\ D \subseteq first..last
  OBVIOUS
<1>2. f \in Seq(D)
  BY <1>1, InOrderLists DEF Lists
<1>3. dataOf(lines, first, last) = [i \in DOMAIN f |-> Tail(lines[f[i]])]
  BY Zenon DEF dataOf
<1> HIDE DEF f
<1>4. DOMAIN f = 1..Len(f) /\ Len(f) \in Nat /\ \A i \in 1..Len(f) : f[i] \in first..last
  BY <1>2
<1>5. ASSUME NEW i \in 1..Len(f) PROVE Tail(lines[f[i]]) \in Seq(B)
  <2>1. lines[f[i]] \in Seq(B) /\ lines[f[i]] # <<>>
    BY <1>1, <1>4
  <2>2. QED
    BY <2>1
<1>6. [i \in 1..Len(f) |-> Tail(lines[f[i]])] \in Seq(Seq(B))
  BY <1>4, <1>5, IsASeq
<1>7. QED
  BY <1>3, <1>4, <1>6

LEMMA DataOfFirst ==
    ASSUME NEW B, NEW lines \in Seq(Seq(B)), NEW last \in 1..Len(lines),
           NEW first \in 1..last, \A k \in first..last : lines[k] # <<>>
    PROVE  dataOf(lines, first, last) = dataValues(lines[first]) \o dataOf(lines, first + 1, last)
<1> DEFINE D == {k \in first..last : lines[k][1] = "data:"}
           E == {k \in (first + 1)..last : lines[k][1] = "data:"}
           f == InOrder(D, last)
           g == InOrder(E, last)
           later == dataOf(lines, first + 1, last)
<1>1. last \in Nat /\ D \subseteq 1..last /\ E \subseteq 1..last
  OBVIOUS
<1>2. dataOf(lines, first, last) = [i \in DOMAIN f |-> Tail(lines[f[i]])]
  BY Zenon DEF dataOf
<1>3. later = [i \in DOMAIN g |-> Tail(lines[g[i]])]
  BY Zenon DEF dataOf
<1>4. later \in Seq(Seq(B))
  <2>1. last \in 0..Len(lines) /\ first + 1 \in 1..(last + 1)
    OBVIOUS
  <2>2. \A k \in (first + 1)..last : lines[k] # <<>>
    OBVIOUS
  <2>3. QED
    BY <2>1, <2>2, DataOfType
<1>5. CASE lines[first][1] # "data:"
  <2>1. D = E
    BY <1>5
  <2>2. dataValues(lines[first]) = <<>>
    BY <1>5 DEF dataValues
  <2>3. dataOf(lines, first, last) = later
    BY <1>2, <1>3, <2>1, Zenon
  <2>4. <<>> \o later = later
    <3> HIDE DEF later
    <3>1. QED
      BY <1>4
  <2>5. QED
    BY <2>2, <2>3, <2>4, Zenon
<1>6. CASE lines[first][1] = "data:"
  <2>1. first \in D /\ D \ {first} = E /\ \A y \in D : first <= y
    BY <1>6
  <2>2. f = <<first>> \o InOrder(D \ {first}, last)
    <3> HIDE DEF D
    <3>1. QED
      BY <1>1, <2>1, InOrderFirst
  <2>3. f = <<first>> \o g
    BY <2>1, <2>2, Zenon
  <2>4. g \in Seq(E)
    BY <1>1, InOrderLists DEF Lists
  <2> HIDE DEF f, g, D, E
  <2>5. /\ DOMAIN f = 1..(Len(g) + 1) /\ f[1] = first /\ Len(g) \in Nat /\ DOMAIN g = 1..Len(g)
        /\ \A i \in 1..Len(g) : f[i + 1] = g[i]
    BY <2>3, <2>4
  <2>6. dataValues(lines[first]) = <<Tail(lines[first])>>
    BY <1>6 DEF dataValues
  <2> DEFINE one == Tail(lines[first])
  <2>7. one \in Seq(B)
    <3>1. lines[first] \in Seq(B) /\ lines[first] # <<>>
      OBVIOUS
    <3>2. QED
      BY <3>1
  <2>8. later = [i \in 1..Len(g) |-> Tail(lines[g[i]])]
    BY <1>3, <2>5, Zenon
  <2>9. \A i \in 1..(Len(g) + 1) : Tail(lines[f[i]]) = IF i = 1 THEN one ELSE later[i - 1]
    <3>1. ASSUME NEW i \in 1..(Len(g) + 1), i # 1 PROVE Tail(lines[f[i]]) = later[i - 1]
      <4>1. i - 1 \in 1..Len(g) /\ f[i] = g[i - 1]
        BY <2>5, <3>1
      <4>2. later[i - 1] = Tail(lines[g[i - 1]])
        <5> HIDE DEF later
        <5>1. QED
          BY <2>8, <4>1
      <4>3. QED
        BY <4>1, <4>2, Zenon
    <3>2. QED
      BY <2>5, <3>1, Zenon
  <2> HIDE DEF later, one
  <2>10. Len(later) = Len(g)
    BY <2>5, <2>8, <1>4
  <2>11. <<one>> \o later = [i \in 1..(Len(g) + 1) |-> IF i = 1 THEN one ELSE later[i - 1]]
    BY <1>4, <2>5, <2>7, <2>10
  <2>12. dataOf(lines, first, last) = [i \in 1..(Len(g) + 1) |-> Tail(lines[f[i]])]
    BY <1>2, <2>5, Zenon
  <2>13. dataOf(lines, first, last) = [i \in 1..(Len(g) + 1) |-> IF i = 1 THEN one ELSE later[i - 1]]
    BY <2>9, <2>12
  <2>14. QED
    BY <2>6, <2>11, <2>13, Zenon DEF one, later
<1>7. QED
  BY <1>5, <1>6

-----------------------------------------------------------------------------
(* One line.                                                               *)

LEMMA LineEndIs ==
    ASSUME NEW B, NEW b \in Seq(B), NEW from \in 1..(Len(b) + 1)
    PROVE  /\ lineEnd(b, from) \in from..(Len(b) + 1)
           /\ lineEnd(b, from) <= Len(b) => b[lineEnd(b, from)] \in LineEnds
           /\ \A i \in from..Len(b) : b[i] \in LineEnds => lineEnd(b, from) <= i
<1> DEFINE ends == {j \in from..Len(b) : b[j] \in LineEnds}
<1>1. Len(b) \in Nat
  OBVIOUS
<1>2. CASE ends = {}
  <2>1. lineEnd(b, from) = Len(b) + 1
    BY <1>2 DEF lineEnd
  <2>2. QED
    BY <1>1, <1>2, <2>1
<1>3. CASE ends # {}
  <2>1. ends \subseteq Nat
    BY <1>1
  <2>2. \E x \in ends : \A y \in ends : x <= y
    <3> HIDE DEF ends
    <3>1. QED
      BY <1>3, <2>1, LeastElement
  <2>3. Min(ends) \in ends /\ \A y \in ends : Min(ends) <= y
    <3> HIDE DEF ends
    <3>1. QED
      BY <2>2 DEF Min
  <2>4. lineEnd(b, from) = Min(ends)
    BY <1>3 DEF lineEnd
  <2>5. QED
    BY <1>1, <2>3, <2>4
<1>4. QED
  BY <1>2, <1>3

\* How a read of a line ends, by where the line does.
LineIs(b, over, from, remaining, end, r) ==
    /\ remaining <= 0 => r = [result |-> "limit", n |-> 0]
    /\ remaining > 0 /\ end <= Len(b) /\ end - from + 1 > remaining =>
           r = [result |-> "limit", n |-> remaining + 1]
    /\ remaining > 0 /\ end > Len(b) /\ end - from > remaining =>
           r = [result |-> "limit", n |-> remaining + 1]
    /\ remaining > 0 /\ end > Len(b) /\ end - from <= remaining =>
           r = [result |-> IF over THEN "eof" ELSE "blocks", n |-> end - from]
    /\ remaining > 0 /\ end <= Len(b) /\ end - from + 1 <= remaining =>
           r = IF waitsAfterCR(b, over, end) THEN [result |-> "blocks", n |-> end - from + 1]
               ELSE [result |-> "line", n |-> end - from + lineBytes(b, end),
                     line |-> SubSeq(b, from, end - 1)]

LEMMA LineReadIs ==
    ASSUME NEW b, NEW over, Len(b) \in Nat, NEW from \in Int, NEW remaining \in Int, NEW end \in Int
    PROVE  LineIs(b, over, from, remaining, end, lineRead(b, over, from, remaining, end))
<1> DEFINE r == lineRead(b, over, from, remaining, end)
           m == IF end <= Len(b) THEN end - from + 1 ELSE end - from
<1>1. r = CASE remaining <= 0 -> [result |-> "limit", n |-> 0]
            [] remaining > 0 /\ m > remaining -> [result |-> "limit", n |-> remaining + 1]
            [] remaining > 0 /\ m <= remaining /\ ~(end <= Len(b)) ->
                   [result |-> IF over THEN "eof" ELSE "blocks", n |-> m]
            [] OTHER ->
                   IF waitsAfterCR(b, over, end) THEN [result |-> "blocks", n |-> m]
                   ELSE [result |-> "line", n |-> end - from + lineBytes(b, end),
                         line |-> SubSeq(b, from, end - 1)]
  BY DEF lineRead
<1>2. m \in Int
  OBVIOUS
<1>3. /\ end <= Len(b) => m = end - from + 1
      /\ end > Len(b) => m = end - from /\ ~(end <= Len(b))
  OBVIOUS
<1> HIDE DEF m, r
<1>4. remaining <= 0 => r = [result |-> "limit", n |-> 0]
  <2>1. remaining <= 0 => ~(remaining > 0)
    OBVIOUS
  <2>2. QED
    BY <1>1, <2>1
<1>5. remaining > 0 /\ m > remaining => r = [result |-> "limit", n |-> remaining + 1]
  <2>1. remaining > 0 /\ m > remaining => ~(remaining <= 0) /\ ~(m <= remaining)
    BY <1>2
  <2>2. QED
    BY <1>1, <2>1
<1>6. remaining > 0 /\ m <= remaining /\ ~(end <= Len(b)) =>
          r = [result |-> IF over THEN "eof" ELSE "blocks", n |-> m]
  <2>1. remaining > 0 /\ m <= remaining => ~(remaining <= 0) /\ ~(m > remaining)
    BY <1>2
  <2>2. QED
    BY <1>1, <2>1
<1>7. remaining > 0 /\ m <= remaining /\ end <= Len(b) =>
          r = IF waitsAfterCR(b, over, end) THEN [result |-> "blocks", n |-> m]
              ELSE [result |-> "line", n |-> end - from + lineBytes(b, end),
                    line |-> SubSeq(b, from, end - 1)]
  <2>1. remaining > 0 /\ m <= remaining => ~(remaining <= 0) /\ ~(m > remaining)
    BY <1>2
  <2>2. QED
    BY <1>1, <2>1
<1>8. QED
  BY <1>2, <1>3, <1>4, <1>5, <1>6, <1>7 DEF r, LineIs

\* What a read of a line takes in.
LEMMA ReadType ==
    ASSUME NEW B, NEW b \in Seq(B), NEW over \in BOOLEAN,
           NEW from \in 1..(Len(b) + 1), NEW remaining \in Int
    PROVE  LET r == readSSELine(b, over, from, remaining)
           IN /\ r.result \in {"line", "limit", "eof", "blocks"}
              /\ r.n \in Nat /\ from + r.n <= Len(b) + 1
              /\ r.result = "line" => r.n > 0 /\ r.line \in Seq(B)
<1> DEFINE end == lineEnd(b, from)
           r == lineRead(b, over, from, remaining, end)
<1>1. end \in from..(Len(b) + 1) /\ Len(b) \in Nat
  BY LineEndIs
<1>2. readSSELine(b, over, from, remaining) = r
  BY DEF readSSELine
<1> HIDE DEF end
<1>0. LineIs(b, over, from, remaining, end, r)
  <2>1. end \in Int /\ from \in Int
    BY <1>1
  <2>2. QED
    BY <1>1, <2>1, LineReadIs
<1>3. CASE remaining <= 0
  <2>1. r = [result |-> "limit", n |-> 0]
    BY <1>1, <1>3, <1>0 DEF LineIs
  <2>2. QED
    BY <1>1, <1>2, <2>1
<1>4. CASE remaining > 0 /\ end <= Len(b) /\ end - from + 1 > remaining
  <2>1. r = [result |-> "limit", n |-> remaining + 1]
    BY <1>1, <1>4, <1>0 DEF LineIs
  <2>2. QED
    BY <1>1, <1>2, <1>4, <2>1
<1>5. CASE remaining > 0 /\ end > Len(b) /\ end - from > remaining
  <2>1. r = [result |-> "limit", n |-> remaining + 1]
    BY <1>1, <1>5, <1>0 DEF LineIs
  <2>2. QED
    BY <1>1, <1>2, <1>5, <2>1
<1>6. CASE remaining > 0 /\ end > Len(b) /\ end - from <= remaining
  <2>1. r = [result |-> IF over THEN "eof" ELSE "blocks", n |-> end - from]
    BY <1>1, <1>6, <1>0 DEF LineIs
  <2>2. QED
    BY <1>1, <1>2, <1>6, <2>1
<1>7. CASE remaining > 0 /\ end <= Len(b) /\ end - from + 1 <= remaining /\ waitsAfterCR(b, over, end)
  <2>1. r = [result |-> "blocks", n |-> end - from + 1]
    BY <1>1, <1>7, <1>0 DEF LineIs
  <2>2. QED
    BY <1>1, <1>2, <1>7, <2>1
<1>8. CASE remaining > 0 /\ end <= Len(b) /\ end - from + 1 <= remaining /\ ~waitsAfterCR(b, over, end)
  <2>1. r = [result |-> "line", n |-> end - from + lineBytes(b, end), line |-> SubSeq(b, from, end - 1)]
    BY <1>1, <1>8, <1>0 DEF LineIs
  <2>2. lineBytes(b, end) \in 1..2 /\ end + lineBytes(b, end) <= Len(b) + 1
    BY <1>1, <1>8 DEF lineBytes, FollowedByLF
  <2>3. SubSeq(b, from, end - 1) \in Seq(B)
    BY <1>1, <1>8
  <2>4. QED
    BY <1>1, <1>2, <2>1, <2>2, <2>3
<1>9. QED
  BY <1>1, <1>3, <1>4, <1>5, <1>6, <1>7, <1>8

-----------------------------------------------------------------------------
(* The standard's lines are the lines that are read.  t is what there is to *)
(* be read of b: all of it, but for a CR at the end of a stream that goes   *)
(* on.                                                                     *)

ToBeRead(t, b, over) ==
    \/ t = b /\ (over \/ b = <<>> \/ b[Len(b)] # "CR")
    \/ t = SubSeq(b, 1, Len(b) - 1) /\ ~over /\ b # <<>> /\ b[Len(b)] = "CR"

endings(t) == {j \in DOMAIN t : t[j] = "LF" \/ (t[j] = "CR" /\ ~FollowedByLF(t, j))}

LEMMA LineEndingsBorder ==
    ASSUME NEW B, NEW t \in Seq(B)
    PROVE  Borders(lineEndings(t), endings(t), Len(t))
<1>1. Len(t) \in Nat /\ endings(t) \subseteq 1..Len(t)
  BY DEF endings
<1>2. lineEndings(t) = <<0>> \o InOrder(endings(t), Len(t))
  BY DEF lineEndings, endings
<1>3. QED
  BY <1>1, <1>2, InOrderBorders

LEMMA ReadableBytes ==
    ASSUME NEW B, NEW b \in Seq(B), NEW over \in BOOLEAN, NEW t, ToBeRead(t, b, over)
    PROVE  /\ t \in Seq(B) /\ Len(t) \in {Len(b), Len(b) - 1} /\ Len(t) \in Nat /\ Len(b) \in Nat
           /\ \A j \in 1..Len(t) : t[j] = b[j]
           /\ Len(t) = Len(b) => over \/ b = <<>> \/ b[Len(b)] # "CR"
           /\ Len(t) = Len(b) - 1 => ~over /\ Len(b) > 0 /\ b[Len(b)] = "CR"
<1>1. Len(b) \in Nat /\ (b # <<>> => Len(b) > 0)
  OBVIOUS
<1>2. CASE t = b
  BY <1>1, <1>2 DEF ToBeRead
<1>3. CASE t # b
  <2>1. t = SubSeq(b, 1, Len(b) - 1) /\ ~over /\ b # <<>> /\ b[Len(b)] = "CR"
    BY <1>3 DEF ToBeRead
  <2>2. Len(b) - 1 \in Nat
    BY <1>1, <2>1
  <2>3. t \in Seq(B) /\ Len(t) = Len(b) - 1 /\ \A j \in 1..Len(t) : t[j] = b[j]
    <3> DEFINE n == Len(b) - 1
               u == SubSeq(b, 1, n)
    <3>1. \A j \in 1..n : b[j] \in B
      BY <1>1
    <3>2. n \in Nat
      BY <2>2
    <3> HIDE DEF n
    <3>3. u \in Seq(B) /\ Len(u) = (IF 1 <= n THEN n - 1 + 1 ELSE 0) /\ \A i \in 1..(n - 1 + 1) : u[i] = b[1 + i - 1]
      BY <3>1, <3>2, SubSeqProperties
    <3> HIDE DEF u
    <3>4. u \in Seq(B) /\ Len(u) = n /\ \A i \in 1..Len(u) : u[i] = b[i]
      BY <3>2, <3>3
    <3>5. QED
      BY <2>1, <3>4 DEF u, n
  <2>4. Len(t) \in Nat /\ Len(b) > 0 /\ Len(t) # Len(b)
    BY <1>1, <2>2, <2>3
  <2>5. QED
    BY <1>1, <2>1, <2>3, <2>4
<1>4. QED
  BY <1>2, <1>3

\* A stretch of what is readable.
LEMMA SameStretch ==
    ASSUME NEW B, NEW b \in Seq(B), NEW t \in Seq(B), Len(t) <= Len(b),
           \A j \in 1..Len(t) : t[j] = b[j], NEW from \in 1..(Len(t) + 1), NEW to \in 0..Len(t)
    PROVE  SubSeq(b, from, to) = SubSeq(t, from, to) /\ SubSeq(t, from, to) \in Seq(B)
<1>1. Len(b) \in Nat /\ Len(t) \in Nat
  OBVIOUS
<1>2. \A i \in from..to : i \in 1..Len(t) /\ t[i] \in B /\ b[i] = t[i]
  BY <1>1
<1> DEFINE u == SubSeq(b, from, to)
           v == SubSeq(t, from, to)
           l == IF from <= to THEN to - from + 1 ELSE 0
<1>3. \A i \in from..to : b[i] \in B
  BY <1>2
<1>4. v \in Seq(B) /\ Len(v) = l /\ \A i \in 1..(to - from + 1) : v[i] = t[from + i - 1]
  BY <1>2, SubSeqProperties
<1>5. u \in Seq(B) /\ Len(u) = l /\ \A i \in 1..(to - from + 1) : u[i] = b[from + i - 1]
  BY <1>3, SubSeqProperties
<1> HIDE DEF u, v
<1>6. ASSUME NEW i \in 1..Len(u) PROVE u[i] = v[i]
  <2>1. i \in 1..(to - from + 1) /\ from + i - 1 \in from..to
    BY <1>1, <1>5
  <2>2. QED
    BY <1>2, <1>4, <1>5, <2>1
<1>7. u = v
  BY <1>4, <1>5, <1>6, SeqEqual
<1>8. QED
  BY <1>4, <1>7 DEF u, v

LEMMA LineIsRead ==
    ASSUME NEW B, NEW b \in Seq(B), NEW over \in BOOLEAN, NEW t, ToBeRead(t, b, over),
           NEW k \in 1..(Len(lineEndings(t)) - 1), NEW remaining \in Int,
           remaining >= lineEndings(t)[k + 1] - lineEndings(t)[k]
    PROVE  /\ readSSELine(b, over, lineEndings(t)[k] + 1, remaining) =
                  [result |-> "line", n |-> lineEndings(t)[k + 1] - lineEndings(t)[k],
                   line |-> StandardLines(t)[k]]
           /\ StandardLines(t)[k] \in Seq(B)
<1> DEFINE N == lineEndings(t)
           last == N[k]
           from == last + 1
           e == N[k + 1]
           end == lineEnd(b, from)
           isCRLF(j) == j > 1 /\ t[j] = "LF" /\ t[j - 1] = "CR"
<1>1. /\ t \in Seq(B) /\ Len(t) \in {Len(b), Len(b) - 1} /\ Len(t) \in Nat /\ Len(b) \in Nat
      /\ \A j \in 1..Len(t) : t[j] = b[j]
      /\ Len(t) = Len(b) => over \/ b = <<>> \/ b[Len(b)] # "CR"
      /\ Len(t) = Len(b) - 1 => ~over /\ Len(b) > 0 /\ b[Len(b)] = "CR"
  BY ReadableBytes
<1>2. Borders(N, endings(t), Len(t))
  BY <1>1, LineEndingsBorder
<1>3. /\ last \in 0..Len(t) /\ last < e /\ e \in endings(t)
      /\ \A x \in endings(t) : ~(last < x /\ x < e)
      /\ last # 0 => last \in endings(t)
  <2>1. N \in Seq(0..Len(t)) /\ k \in 1..Len(N)
    BY <1>2 DEF Borders
  <2>2. N[k] \in 0..Len(t)
    BY <2>1
  <2>3. k # 1 => k - 1 \in 1..(Len(N) - 1) /\ (k - 1) + 1 = k
    BY <2>1
  <2>4. k # 1 => N[k] \in endings(t)
    BY <1>2, <2>3 DEF Borders
  <2>5. k = 1 => N[k] = 0
    BY <1>2 DEF Borders
  <2>6. QED
    BY <1>2, <2>1, <2>2, <2>4, <2>5 DEF Borders
<1>4. StandardLines(t)[k] = SubSeq(t, from, e - (IF isCRLF(e) THEN 2 ELSE 1))
  BY DEF StandardLines
<1>0. remaining >= e - last
  OBVIOUS
<1> HIDE DEF N, e, last
<1>5. /\ e \in 1..Len(t) /\ (t[e] = "LF" \/ (t[e] = "CR" /\ ~FollowedByLF(t, e)))
      /\ from \in 1..e /\ from \in 1..(Len(b) + 1) /\ last = from - 1
  <2>1. e \in 1..Len(t) /\ (t[e] = "LF" \/ (t[e] = "CR" /\ ~FollowedByLF(t, e)))
    BY <1>1, <1>3 DEF endings
  <2>2. QED
    BY <1>1, <1>3, <2>1
<1> HIDE DEF from
<1>6. /\ end \in from..(Len(b) + 1)
      /\ end <= Len(b) => b[end] \in LineEnds
      /\ \A i \in from..Len(b) : b[i] \in LineEnds => end <= i
  BY <1>1, <1>5, LineEndIs
<1> HIDE DEF end
<1>7. end \in from..e /\ b[end] \in LineEnds /\ t[end] = b[end]
  <2>1. e \in from..Len(b) /\ b[e] \in LineEnds
    BY <1>1, <1>5 DEF LineEnds
  <2>2. QED
    BY <1>1, <1>5, <1>6, <2>1
<1>8. CASE end = e
  <2>1. ~isCRLF(e)
    <3> SUFFICES ASSUME e > 1, t[e] = "LF", t[e - 1] = "CR" PROVE FALSE
      OBVIOUS
    <3>1. CASE e - 1 >= from
      <4>1. e - 1 \in from..Len(b) /\ b[e - 1] \in LineEnds
        <5>1. e - 1 \in from..Len(b) /\ e - 1 \in 1..Len(t)
          BY <1>1, <1>5, <3>1
        <5>2. b[e - 1] = "CR"
          BY <1>1, <5>1
        <5>3. QED
          BY <5>1, <5>2 DEF LineEnds
      <4>2. end <= e - 1
        BY <1>6, <4>1
      <4>3. QED
        BY <1>5, <1>8, <4>2
    <3>2. CASE ~(e - 1 >= from)
      <4>1. e - 1 = last
        BY <1>3, <1>5, <3>2
      <4>2. last \in endings(t) /\ last \in 1..Len(t)
        BY <1>3, <1>5, <4>1
      <4>3. FollowedByLF(t, last)
        BY <1>1, <1>5, <4>1, <4>2 DEF FollowedByLF
      <4>4. QED
        BY <4>1, <4>2, <4>3 DEF endings
    <3>3. QED
      BY <3>1, <3>2
  <2>2. ~(b[e] = "CR" /\ FollowedByLF(b, e))
    <3> SUFFICES ASSUME b[e] = "CR", FollowedByLF(b, e) PROVE FALSE
      OBVIOUS
    <3>1. t[e] = "CR" /\ ~FollowedByLF(t, e) /\ e < Len(b) /\ b[e + 1] = "LF"
      BY <1>1, <1>5 DEF FollowedByLF
    <3>2. CASE e < Len(t)
      <4>1. e + 1 \in 1..Len(t)
        BY <1>1, <1>5, <3>2
      <4>2. t[e + 1] = "LF"
        BY <1>1, <3>1, <4>1
      <4>3. QED
        BY <3>1, <3>2, <4>2 DEF FollowedByLF
    <3>3. CASE e = Len(t)
      BY <1>1, <1>5, <3>1, <3>3
    <3>4. QED
      BY <1>5, <3>2, <3>3
  <2>3. ~waitsAfterCR(b, over, e)
    BY <1>1, <1>5 DEF waitsAfterCR
  <2>4. lineBytes(b, e) = 1
    BY <2>2 DEF lineBytes
  <2>5. SubSeq(b, from, e - 1) = SubSeq(t, from, e - 1) /\ SubSeq(t, from, e - 1) \in Seq(B)
    <3>1. from \in 1..(Len(t) + 1) /\ e - 1 \in 0..Len(t) /\ Len(t) <= Len(b)
      BY <1>1, <1>5
    <3>2. QED
      BY <1>1, <3>1, SameStretch
  <2>6. lineRead(b, over, from, remaining, e) =
            [result |-> "line", n |-> e - from + lineBytes(b, e), line |-> SubSeq(b, from, e - 1)]
    <3>1. e <= Len(b) /\ remaining > 0 /\ e - from + 1 <= remaining
      BY <1>0, <1>1, <1>3, <1>5
    <3>2. LineIs(b, over, from, remaining, e, lineRead(b, over, from, remaining, e))
      BY <1>1, <1>5, LineReadIs
    <3>3. QED
      BY <1>1, <2>3, <3>1, <3>2 DEF LineIs
  <2>7. e - from + 1 = e - last
    BY <1>3, <1>5
  <2>8. lineRead(b, over, from, remaining, e) =
            [result |-> "line", n |-> e - last, line |-> SubSeq(t, from, e - 1)]
    BY <2>4, <2>5, <2>6, <2>7
  <2>9. readSSELine(b, over, from, remaining) = lineRead(b, over, from, remaining, e)
    BY <1>8 DEF readSSELine, end
  <2>10. StandardLines(t)[k] = SubSeq(t, from, e - 1)
    BY <1>4, <2>1
  <2>11. QED
    BY <2>5, <2>8, <2>9, <2>10, Zenon DEF N, e, from, last
<1>9. CASE end # e
  <2>1. end < e /\ end \in 1..Len(t) /\ end \notin endings(t)
    BY <1>3, <1>5, <1>7, <1>9
  <2>2. t[end] = "CR" /\ FollowedByLF(t, end)
    BY <1>1, <1>7, <2>1 DEF endings, LineEnds
  <2>3. end + 1 \in 1..Len(t) /\ t[end + 1] = "LF"
    BY <2>1, <2>2 DEF FollowedByLF
  <2>4. end + 1 \in endings(t)
    BY <1>1, <2>3 DEF endings
  <2>5. e = end + 1
    BY <1>3, <1>5, <1>7, <2>1, <2>4
  <2>6. isCRLF(e)
    BY <1>5, <2>1, <2>2, <2>3, <2>5
  <2>7. lineBytes(b, end) = 2
    BY <1>1, <1>7, <2>1, <2>2, <2>3 DEF lineBytes, FollowedByLF
  <2>8. ~waitsAfterCR(b, over, end)
    BY <1>1, <2>1, <2>3 DEF waitsAfterCR
  <2>9. SubSeq(b, from, end - 1) = SubSeq(t, from, end - 1) /\ SubSeq(t, from, end - 1) \in Seq(B)
    <3>1. from \in 1..(Len(t) + 1) /\ end - 1 \in 0..Len(t) /\ Len(t) <= Len(b)
      BY <1>1, <1>5, <2>1
    <3>2. QED
      BY <1>1, <3>1, SameStretch
  <2>10. lineRead(b, over, from, remaining, end) =
            [result |-> "line", n |-> end - from + lineBytes(b, end), line |-> SubSeq(b, from, end - 1)]
    <3>1. end <= Len(b) /\ remaining > 0 /\ end - from + 1 <= remaining
      BY <1>0, <1>1, <1>3, <1>5, <1>7, <2>1, <2>5
    <3>2. QED
      <4>1. end \in Int /\ from \in Int
        BY <1>5, <1>7
      <4>2. LineIs(b, over, from, remaining, end, lineRead(b, over, from, remaining, end))
        BY <1>1, <4>1, LineReadIs
      <4>3. QED
        BY <1>1, <2>8, <3>1, <4>2 DEF LineIs
  <2>11. end - from + 2 = e - last /\ end - 1 = e - 2
    BY <1>3, <1>5, <1>7, <2>5
  <2>12. lineRead(b, over, from, remaining, end) =
            [result |-> "line", n |-> e - last, line |-> SubSeq(t, from, e - 2)]
    BY <2>7, <2>9, <2>10, <2>11
  <2>13. readSSELine(b, over, from, remaining) = lineRead(b, over, from, remaining, end)
    BY DEF readSSELine, end
  <2>14. StandardLines(t)[k] = SubSeq(t, from, e - 2)
    BY <1>4, <2>6
  <2>15. QED
    <3>1. StandardLines(t)[k] \in Seq(B)
      BY <2>9, <2>11, <2>14, Zenon
    <3>2. QED
      BY <2>12, <2>13, <2>14, <3>1, Zenon DEF N, e, from, last
<1>10. QED
  BY <1>8, <1>9

\* Behind the last of them there is no line.
LEMMA NoLineIsRead ==
    ASSUME NEW B, NEW b \in Seq(B), NEW over \in BOOLEAN, NEW t, ToBeRead(t, b, over),
           NEW k, k = Len(lineEndings(t)), NEW remaining \in Int,
           remaining > Len(b) - lineEndings(t)[k]
    PROVE  readSSELine(b, over, lineEndings(t)[k] + 1, remaining).result \in {"eof", "blocks"}
<1> DEFINE N == lineEndings(t)
           last == N[k]
           from == last + 1
           end == lineEnd(b, from)
<1>1. /\ t \in Seq(B) /\ Len(t) \in {Len(b), Len(b) - 1} /\ Len(t) \in Nat /\ Len(b) \in Nat
      /\ \A j \in 1..Len(t) : t[j] = b[j]
      /\ Len(t) = Len(b) - 1 => ~over /\ Len(b) > 0 /\ b[Len(b)] = "CR"
  BY ReadableBytes
<1>2. /\ last \in 0..Len(t)
      /\ \A x \in endings(t) : x <= last
  <2>1. Borders(N, endings(t), Len(t))
    BY <1>1, LineEndingsBorder
  <2> HIDE DEF N
  <2>2. N \in Seq(0..Len(t)) /\ Len(N) \in 1..Len(N) /\ k = Len(N)
    BY <2>1 DEF Borders, N
  <2>3. QED
    BY <2>1, <2>2 DEF Borders
<1>5. remaining > Len(b) - last
  OBVIOUS
<1> HIDE DEF N, last
<1>3. /\ end \in from..(Len(b) + 1)
      /\ end <= Len(b) => b[end] \in LineEnds
  BY <1>1, <1>2, LineEndIs
<1> HIDE DEF end
<1>4. end > Len(t)
  <2> SUFFICES ASSUME end <= Len(t) PROVE FALSE
    BY <1>1, <1>2, <1>3
  <2>1. end \in 1..Len(t) /\ t[end] \in LineEnds /\ end \notin endings(t)
    BY <1>1, <1>2, <1>3
  <2>2. t[end] = "CR" /\ FollowedByLF(t, end)
    BY <1>1, <2>1 DEF endings, LineEnds
  <2>3. end + 1 \in 1..Len(t) /\ t[end + 1] = "LF"
    BY <2>1, <2>2 DEF FollowedByLF
  <2>4. end + 1 \in endings(t)
    BY <1>1, <2>3 DEF endings
  <2>5. QED
    BY <1>1, <1>2, <1>3, <2>1, <2>4
<1>6. readSSELine(b, over, from, remaining) = lineRead(b, over, from, remaining, end)
  BY DEF readSSELine, end
<1>7. CASE end = Len(b) + 1
  <2>1. remaining > 0 /\ ~(end <= Len(b)) /\ end - from <= remaining
    BY <1>1, <1>2, <1>3, <1>5, <1>7
  <2>2. lineRead(b, over, from, remaining, end).result = IF over THEN "eof" ELSE "blocks"
    <3>1. end > Len(b)
      BY <1>1, <1>7
    <3>2. LineIs(b, over, from, remaining, end, lineRead(b, over, from, remaining, end))
      <4>1. end \in Int /\ from \in Int
        BY <1>1, <1>2, <1>7
      <4>2. QED
        BY <1>1, <4>1, LineReadIs
    <3>3. QED
      BY <1>1, <2>1, <3>1, <3>2 DEF LineIs
  <2>3. QED
    BY <1>6, <2>2 DEF N, last
<1>8. CASE end # Len(b) + 1
  <2>1. end = Len(b) /\ ~over /\ b[end] = "CR"
    BY <1>1, <1>2, <1>3, <1>4, <1>8
  <2>2. remaining > 0 /\ end <= Len(b) /\ end - from + 1 <= remaining
    BY <1>1, <1>2, <1>3, <1>5, <2>1
  <2>3. waitsAfterCR(b, over, end)
    BY <2>1 DEF waitsAfterCR
  <2>4. lineRead(b, over, from, remaining, end).result = "blocks"
    <3>1. LineIs(b, over, from, remaining, end, lineRead(b, over, from, remaining, end))
      <4>1. end \in Int /\ from \in Int
        BY <1>1, <1>2, <2>1
      <4>2. QED
        BY <1>1, <4>1, LineReadIs
    <3>2. QED
      BY <2>2, <2>3, <3>1 DEF LineIs
  <2>5. QED
    BY <1>6, <2>4 DEF N, last
<1>9. QED
  BY <1>7, <1>8

-----------------------------------------------------------------------------
(* One event.                                                              *)

EventAt(F, b, over, start, max, p) ==
    LET read == readSSELine(b, over, p, max - (p - start))
    IN CASE read.result # "line" ->
              [result |-> read.result, n |-> p + read.n - start, data |-> <<>>]
         [] read.result = "line" /\ read.line = <<>> ->
              [result |-> IF p = start THEN "nothing" ELSE "event", n |-> p + read.n - start,
               data |-> <<>>]
         [] OTHER ->
              [result |-> F[p + read.n].result, n |-> F[p + read.n].n,
               data |-> dataValues(read.line) \o F[p + read.n].data]

\* A position depends on later ones only.
LEMMA EventLooksAhead ==
    ASSUME NEW B, NEW b \in Seq(B), NEW over \in BOOLEAN, NEW start \in Int, NEW max \in Int,
           NEW p \in 1..(Len(b) + 1), NEW F, NEW G,
           \A j \in (p + 1)..(Len(b) + 1) : F[j] = G[j]
    PROVE  EventAt(F, b, over, start, max, p) = EventAt(G, b, over, start, max, p)
<1> DEFINE read == readSSELine(b, over, p, max - (p - start))
<1>1. read.n \in Nat /\ p + read.n <= Len(b) + 1 /\ (read.result = "line" => read.n > 0)
  <2>1. max - (p - start) \in Int
    OBVIOUS
  <2>2. QED
    BY <2>1, ReadType
<1> HIDE DEF read
<1>2. read.result = "line" => p + read.n \in (p + 1)..(Len(b) + 1)
  BY <1>1
<1>3. read.result = "line" => F[p + read.n] = G[p + read.n]
  BY <1>2
<1>4. QED
  BY <1>3 DEF EventAt, read

EventScan(F, b, over, start, max, lo) ==
    F = [p \in lo..(Len(b) + 1) |-> EventAt(F, b, over, start, max, p)]

LEMMA EventScansExist ==
    ASSUME NEW B, NEW b \in Seq(B), NEW over \in BOOLEAN, NEW start \in 1..(Len(b) + 1), NEW max \in Int
    PROVE  \E F : EventScan(F, b, over, start, max, start)
<1> DEFINE N == Len(b)
           S == {i \in 1..(N + 1) : \E F : EventScan(F, b, over, start, max, i)}
<1>1. N \in Nat /\ start \in Int
  OBVIOUS
<1>2. N + 1 \in S
  <2> DEFINE e == EventAt(<<>>, b, over, start, max, N + 1)
             F == [i \in (N + 1)..(N + 1) |-> e]
  <2>1. e = EventAt(F, b, over, start, max, N + 1)
    <3> DEFINE G == <<>>
    <3>1. Len(b) + 1 \in 1..(Len(b) + 1) /\ \A j \in (Len(b) + 1 + 1)..(Len(b) + 1) : G[j] = F[j]
      BY <1>1
    <3> HIDE DEF F, G
    <3>2. EventAt(G, b, over, start, max, Len(b) + 1) = EventAt(F, b, over, start, max, Len(b) + 1)
      BY <1>1, <3>1, EventLooksAhead
    <3>3. QED
      BY <3>2 DEF G
  <2> HIDE DEF e
  <2>2. F = [p \in (N + 1)..(N + 1) |-> EventAt(F, b, over, start, max, p)]
    <3>1. \A p \in (N + 1)..(N + 1) : p = N + 1
      BY <1>1
    <3>2. F = [p \in (N + 1)..(N + 1) |-> e]
      OBVIOUS
    <3>3. \A p \in (N + 1)..(N + 1) : e = EventAt(F, b, over, start, max, p)
      BY <2>1, <3>1, Zenon
    <3> HIDE DEF F
    <3>4. QED
      BY <3>2, <3>3, Zenon
  <2>3. EventScan(F, b, over, start, max, N + 1)
    BY <2>2, Zenon DEF EventScan
  <2>4. QED
    BY <1>1, <2>3
<1>3. ASSUME NEW i \in 1..N, (i + 1)..(N + 1) \subseteq S PROVE i \in S
  <2>1. i + 1 \in S
    <3>1. i + 1 \in (i + 1)..(N + 1)
      BY <1>1
    <3> HIDE DEF S
    <3>2. QED
      BY <1>3, <3>1
  <2>2. PICK F : EventScan(F, b, over, start, max, i + 1)
    BY <2>1
  <2> DEFINE G == [j \in i..(N + 1) |-> IF j = i THEN EventAt(F, b, over, start, max, i) ELSE F[j]]
  <2>3. \A j \in (i + 1)..(N + 1) : F[j] = G[j]
    BY <1>1
  <2>4. ASSUME NEW j \in i..(N + 1) PROVE G[j] = EventAt(G, b, over, start, max, j)
    <3>1. j \in 1..(Len(b) + 1) /\ \A k \in (j + 1)..(Len(b) + 1) : F[k] = G[k]
      BY <1>1, <2>3
    <3>2. EventAt(F, b, over, start, max, j) = EventAt(G, b, over, start, max, j)
      <4> HIDE DEF G, S, N
      <4>1. j \in 1..(Len(b) + 1)
        BY <3>1
      <4>2. QED
        BY <1>1, <3>1, <4>1, EventLooksAhead
    <3>3. G[j] = EventAt(F, b, over, start, max, j)
      <4>1. CASE j = i
        BY <4>1
      <4>2. CASE j \in (i + 1)..(N + 1)
        BY <2>2, <2>3, <4>2 DEF EventScan
      <4>3. QED
        BY <1>1, <4>1, <4>2
    <3>4. QED
      BY <3>2, <3>3
  <2>5. G = [j \in i..(N + 1) |-> G[j]]
    OBVIOUS
  <2>6. EventScan(G, b, over, start, max, i)
    <3> HIDE DEF G
    <3>1. QED
      BY <2>4, <2>5, Zenon DEF EventScan
  <2>7. QED
    BY <1>1, <2>6
<1>4. start \in S
  <2> HIDE DEF S
  <2>1. 1..(N + 1) \subseteq S
    BY <1>1, <1>2, <1>3, DownwardInduction
  <2>2. QED
    BY <2>1
<1>5. QED
  BY <1>4

EventSolves(F, b, over, start, max) ==
    \A p \in start..(Len(b) + 1) : F[p] = EventAt(F, b, over, start, max, p)

\* What readSSEEvent returns, by the positions of the bytes.
LEMMA EventScans ==
    ASSUME NEW B, NEW b \in Seq(B), NEW over \in BOOLEAN, NEW start \in 1..(Len(b) + 1), NEW max \in Int
    PROVE  \E F : EventSolves(F, b, over, start, max) /\ readSSEEvent(b, over, start, max) = F[start]
<1> DEFINE F == CHOOSE F : EventScan(F, b, over, start, max, start)
<1>1. EventScan(F, b, over, start, max, start)
  BY EventScansExist
<1>2. readSSEEvent(b, over, start, max) = F[start]
  BY DEF readSSEEvent, EventScan, EventAt
<1> HIDE DEF F
<1>3. EventSolves(F, b, over, start, max)
  BY <1>1 DEF EventScan, EventSolves
<1>4. QED
  BY <1>2, <1>3

EventResults == {"event", "nothing"}

\* An event takes in a byte at least, and no byte that has not arrived.
LEMMA EventTakes ==
    ASSUME NEW B, NEW b \in Seq(B), NEW over \in BOOLEAN, NEW start \in 1..(Len(b) + 1), NEW max \in Int,
           readSSEEvent(b, over, start, max).result \in EventResults
    PROVE  /\ readSSEEvent(b, over, start, max).n \in Nat \ {0}
           /\ start + readSSEEvent(b, over, start, max).n <= Len(b) + 1
<1>1. PICK F : EventSolves(F, b, over, start, max) /\ readSSEEvent(b, over, start, max) = F[start]
  BY EventScans
<1> DEFINE N == Len(b)
           Good(p) == F[p].result \in EventResults =>
                          F[p].n \in Int /\ F[p].n > p - start /\ start + F[p].n <= N + 1
           S == {p \in 1..(N + 1) : p >= start => Good(p)}
<1>2. N \in Nat
  OBVIOUS
<1>3. ASSUME NEW p \in 1..(N + 1), p >= start, \A q \in (p + 1)..(N + 1) : q \in S
      PROVE  Good(p)
  <2> DEFINE read == readSSELine(b, over, p, max - (p - start))
  <2>1. F[p] = EventAt(F, b, over, start, max, p)
    BY <1>1, <1>2, <1>3 DEF EventSolves
  <2>2. /\ read.result \in {"line", "limit", "eof", "blocks"}
        /\ read.n \in Nat /\ p + read.n <= N + 1
        /\ read.result = "line" => read.n > 0
    <3>1. max - (p - start) \in Int
      OBVIOUS
    <3>2. QED
      BY <3>1, ReadType
  <2> HIDE DEF read
  <2>3. CASE read.result # "line"
    <3>1. F[p].result = read.result
      BY <2>1, <2>3 DEF EventAt, read
    <3>2. QED
      BY <2>2, <2>3, <3>1 DEF EventResults
  <2>4. CASE read.result = "line" /\ read.line = <<>>
    <3>1. F[p].n = p + read.n - start
      BY <2>1, <2>4 DEF EventAt, read
    <3>2. QED
      BY <1>2, <2>2, <2>4, <3>1
  <2>5. CASE read.result = "line" /\ read.line # <<>>
    <3> DEFINE q == p + read.n
    <3>1. F[p].n = F[q].n /\ F[p].result = F[q].result
      BY <2>1, <2>5 DEF EventAt, read
    <3>2. q \in (p + 1)..(N + 1) /\ q >= start /\ q > p
      BY <1>2, <1>3, <2>2, <2>5
    <3>3. Good(q)
      BY <1>3, <3>2
    <3> HIDE DEF q
    <3>4. QED
      BY <1>2, <3>1, <3>2, <3>3
  <2>6. QED
    BY <2>3, <2>4, <2>5
<1>4. N + 1 \in S
  <2>1. \A q \in (N + 1 + 1)..(N + 1) : q \in S
    BY <1>2
  <2>2. N + 1 \in 1..(N + 1)
    BY <1>2
  <2>3. N + 1 >= start => Good(N + 1)
    <3> HIDE DEF S, Good
    <3>1. QED
      BY <1>3, <2>1, <2>2
  <2>4. QED
    BY <2>2, <2>3
<1>5. ASSUME NEW i \in 1..N, (i + 1)..(N + 1) \subseteq S PROVE i \in S
  <2>1. i \in 1..(N + 1) /\ \A q \in (i + 1)..(N + 1) : q \in S
    BY <1>2, <1>5
  <2>2. i >= start => Good(i)
    <3> HIDE DEF S, Good
    <3>1. QED
      BY <1>3, <2>1
  <2>3. QED
    BY <2>1, <2>2
<1>6. Good(start)
  <2>1. start \in 1..(N + 1) /\ start >= start
    BY <1>2
  <2>2. 1..(N + 1) \subseteq S
    <3> HIDE DEF S
    <3>1. QED
      BY <1>2, <1>4, <1>5, DownwardInduction
  <2>3. QED
    BY <2>1, <2>2
<1>7. QED
  BY <1>1, <1>2, <1>6

\* Borders come in order.
LEMMA BordersInOrder ==
    ASSUME NEW n \in Nat, NEW S, NEW N, Borders(N, S, n),
           NEW s \in 1..Len(N), NEW k \in s..Len(N)
    PROVE  N[s] <= N[k]
<1> DEFINE d == Len(N) - s
           T == {i \in 0..d : N[s] <= N[s + i]}
<1>1. Len(N) \in Nat /\ d \in Nat /\ \A j \in 1..Len(N) : N[j] \in Int
  BY DEF Borders
<1>2. 0 \in T
  BY <1>1
<1>3. ASSUME NEW i \in 0..(d - 1), i \in T PROVE i + 1 \in T
  <2>1. s + i \in 1..(Len(N) - 1) /\ (s + i) + 1 = s + (i + 1)
    BY <1>1
  <2>2. N[s + i] < N[(s + i) + 1]
    BY <2>1 DEF Borders
  <2>3. N[s + i] \in Int /\ N[s + (i + 1)] \in Int /\ N[s] \in Int
    BY <1>1, <2>1
  <2>4. QED
    BY <1>1, <1>3, <2>1, <2>2, <2>3
<1>4. k - s \in 0..d /\ s + (k - s) = k
  BY <1>1
<1>5. 0..d \subseteq T
  <2> HIDE DEF T, d
  <2>1. QED
    BY <1>1, <1>2, <1>3, IntervalInduction
<1>6. k - s \in T
  BY <1>4, <1>5
<1>7. QED
  BY <1>4, <1>6

\* The lines and their borders: what the lemmas below use of them.
LEMMA LinesType ==
    ASSUME NEW B, NEW b \in Seq(B), NEW over \in BOOLEAN, NEW t, ToBeRead(t, b, over)
    PROVE  /\ Borders(lineEndings(t), endings(t), Len(t)) /\ Len(t) \in Nat /\ Len(t) <= Len(b)
           /\ StandardLines(t) \in Seq(Seq(B))
           /\ Len(lineEndings(t)) = Len(StandardLines(t)) + 1
           /\ \A k \in 1..Len(lineEndings(t)) : lineEndings(t)[k] \in 0..Len(b)
<1> DEFINE N == lineEndings(t)
           L == StandardLines(t)
<1>1. t \in Seq(B) /\ Len(t) \in {Len(b), Len(b) - 1} /\ Len(t) \in Nat /\ Len(b) \in Nat
  BY ReadableBytes
<1>2. Borders(N, endings(t), Len(t))
  BY <1>1, LineEndingsBorder
<1>3. L = [k \in 1..(Len(N) - 1) |-> L[k]]
  BY DEF StandardLines
<1>4. \A k \in 1..(Len(N) - 1) : L[k] \in Seq(B)
  <2>1. ASSUME NEW k \in 1..(Len(N) - 1) PROVE L[k] \in Seq(B)
    <3>1. N[k + 1] \in Int /\ N[k] \in Int
      <4>1. k \in 1..Len(N) /\ k + 1 \in 1..Len(N)
        OBVIOUS
      <4>2. N \in Seq(0..Len(t))
        BY <1>2 DEF Borders
      <4> HIDE DEF N
      <4>3. QED
        BY <1>1, <4>1, <4>2
    <3>2. N[k + 1] - N[k] \in Int /\ N[k + 1] - N[k] >= N[k + 1] - N[k]
      BY <3>1
    <3>3. QED
      BY <3>2, LineIsRead
  <2>2. QED
    BY <2>1
<1>5. Len(N) \in Nat \ {0} /\ \A k \in 1..Len(N) : N[k] \in 0..Len(t)
  <2>1. N \in Seq(0..Len(t)) /\ Len(N) >= 1
    BY <1>2 DEF Borders
  <2> HIDE DEF N
  <2>2. QED
    BY <2>1
<1> HIDE DEF N, L
<1>6. L \in Seq(Seq(B)) /\ Len(L) = Len(N) - 1
  <2>1. Len(N) - 1 \in Nat
    BY <1>5
  <2>2. L \in [1..(Len(N) - 1) -> Seq(B)]
    BY <1>3, <1>4
  <2>3. QED
    BY <2>1, <2>2
<1>7. QED
  BY <1>1, <1>2, <1>5, <1>6 DEF N, L

\* The line that ends an event that begins with line k.
EndsEvent(L, k, K) == L[K] = <<>> /\ \A j \in k..(K - 1) : L[j] # <<>>

\* What is read from line s on, up to the empty line.
LEMMA EventIsRead ==
    ASSUME NEW B, NEW b \in Seq(B), NEW over \in BOOLEAN, NEW t, ToBeRead(t, b, over),
           NEW s \in 1..Len(lineEndings(t))
    PROVE  LET N == lineEndings(t)
               L == StandardLines(t)
               read == readSSEEvent(b, over, N[s] + 1, Len(b) + 1)
           IN /\ \A K \in s..Len(L) : EndsEvent(L, s, K) =>
                     /\ read.result \in EventResults /\ read.n = N[K + 1] - N[s]
                     /\ read.data = dataOf(L, s, K - 1)
              /\ (\A j \in s..Len(L) : L[j] # <<>>) => read.result \notin EventResults
<1> DEFINE N == lineEndings(t)
           L == StandardLines(t)
           n == Len(L)
           start == N[s] + 1
           max == Len(b) + 1
<1>1. /\ Borders(N, endings(t), Len(t)) /\ Len(t) \in Nat /\ Len(t) <= Len(b)
      /\ L \in Seq(Seq(B)) /\ Len(N) = n + 1 /\ n \in Nat
      /\ \A k \in 1..Len(N) : N[k] \in 0..Len(b)
  BY LinesType
<1>2. start \in 1..(Len(b) + 1) /\ max \in Int /\ Len(b) \in Nat /\ s \in 1..(n + 1)
  BY <1>1
<1>3. PICK F : EventSolves(F, b, over, start, max) /\ readSSEEvent(b, over, start, max) = F[start]
  BY <1>2, EventScans
<1> DEFINE at(k) == F[N[k] + 1]
           Says(k) == /\ \A K \in k..n : EndsEvent(L, k, K) =>
                             /\ at(k).result \in EventResults /\ at(k).n = N[K + 1] - N[s]
                             /\ at(k).data = dataOf(L, k, K - 1)
                      /\ (\A j \in k..n : L[j] # <<>>) => at(k).result \notin EventResults
           S == {k \in 1..(n + 1) : k >= s => Says(k)}
<1> DEFINE Reached(k) ==
               /\ N[k] + 1 \in start..(Len(b) + 1) /\ max - ((N[k] + 1) - start) \in Int
               /\ max - ((N[k] + 1) - start) > Len(b) - N[k]
               /\ F[N[k] + 1] = EventAt(F, b, over, start, max, N[k] + 1)
<1>4. ASSUME NEW k \in 1..(n + 1), k >= s PROVE Reached(k)
  <2>1. N[s] <= N[k] /\ N[k] \in 0..Len(b) /\ N[s] \in 0..Len(b)
    <3>1. s \in 1..Len(N) /\ k \in s..Len(N)
      BY <1>1, <1>4
    <3> HIDE DEF N
    <3>2. N[s] <= N[k]
      BY <1>1, <3>1, BordersInOrder
    <3>3. QED
      BY <1>1, <1>2, <1>4, <3>2
  <2> HIDE DEF N
  <2>2. N[k] + 1 \in start..(Len(b) + 1)
    BY <1>2, <2>1
  <2>3. max - ((N[k] + 1) - start) \in Int /\ max - ((N[k] + 1) - start) > Len(b) - N[k]
    BY <1>2, <2>1
  <2>4. F[N[k] + 1] = EventAt(F, b, over, start, max, N[k] + 1)
    BY <1>3, <2>2 DEF EventSolves
  <2>5. QED
    BY <2>2, <2>3, <2>4
<1>5. n + 1 \in S
  <2> SUFFICES ASSUME n + 1 >= s PROVE Says(n + 1)
    BY <1>1
  <2> DEFINE p == N[n + 1] + 1
             read == readSSELine(b, over, p, max - (p - start))
  <2>1. /\ max - (p - start) \in Int /\ max - (p - start) > Len(b) - N[n + 1]
        /\ F[p] = EventAt(F, b, over, start, max, p)
    <3>1. n + 1 \in 1..(n + 1) /\ n + 1 >= s
      BY <1>1
    <3>2. Reached(n + 1)
      <4> HIDE DEF Reached, n
      <4>1. QED
        BY <1>4, <3>1
    <3> HIDE DEF n, N, max, start, L, Says, S
    <3>3. QED
      BY <3>2, Zenon
  <2>2. n + 1 = Len(lineEndings(t))
    BY <1>1
  <2>3. read.result \in {"eof", "blocks"}
    <3> HIDE DEF n
    <3>1. QED
      BY <2>1, <2>2, NoLineIsRead
  <2> HIDE DEF read
  <2>4. F[p].result = read.result
    <3>1. read.result # "line"
      BY <2>3
    <3>2. QED
      <4>1. F[p] = EventAt(F, b, over, start, max, p)
        BY <2>1
      <4> HIDE DEF n, N, L, p, at, Says, S, Reached
      <4>2. F[p] = [result |-> read.result, n |-> p + read.n - start, data |-> <<>>]
        BY <3>1, <4>1 DEF EventAt, read
      <4>3. QED
        BY <4>2
  <2>5. (n + 1)..n = {}
    BY <1>1
  <2>6. F[p].result \notin EventResults
    BY <2>3, <2>4 DEF EventResults
  <2>7. QED
    BY <2>5, <2>6
<1>6. ASSUME NEW k \in 1..n, (k + 1)..(n + 1) \subseteq S PROVE k \in S
  <2> SUFFICES ASSUME k >= s PROVE Says(k)
    BY <1>1
  <2> DEFINE p == N[k] + 1
             read == readSSELine(b, over, p, max - (p - start))
             q == N[k + 1] + 1
  <2>1. /\ max - (p - start) \in Int /\ max - (p - start) > Len(b) - N[k]
        /\ F[p] = EventAt(F, b, over, start, max, p)
    <3>1. k \in 1..(n + 1) /\ k >= s
      BY <1>1
    <3>2. Reached(k)
      <4> HIDE DEF Reached, n
      <4>1. QED
        BY <1>4, <3>1
    <3> HIDE DEF n, N, max, start, L, Says, S
    <3>3. QED
      BY <3>2, Zenon
  <2>2. Says(k + 1)
    <3>1. k + 1 \in (k + 1)..(n + 1) /\ k + 1 >= s
      BY <1>1
    <3>2. k + 1 \in S
      <4> HIDE DEF S
      <4>1. QED
        BY <1>6, <3>1
    <3> HIDE DEF Says
    <3>3. QED
      BY <3>1, <3>2
  <2>3. N[k + 1] \in 0..Len(b) /\ N[k] \in 0..Len(b) /\ N[s] \in 0..Len(b)
    BY <1>1, <1>2
  <2>4. max - (p - start) >= N[k + 1] - N[k]
    <3>1. N[k + 1] - N[k] \in Int /\ Len(b) - N[k] >= N[k + 1] - N[k]
      <4> HIDE DEF N
      <4>1. QED
        BY <1>2, <2>3
    <3> DEFINE x == max - (p - start)
               y == Len(b) - N[k]
               z == N[k + 1] - N[k]
    <3>2. y \in Int
      BY <1>2, <2>3
    <3>3. x \in Int /\ x > y /\ y >= z /\ z \in Int
      BY <2>1, <3>1
    <3> HIDE DEF x, y, z
    <3>4. x >= z
      BY <3>2, <3>3
    <3>5. QED
      BY <3>4 DEF x, z
  <2>5. read = [result |-> "line", n |-> N[k + 1] - N[k], line |-> L[k]]
    <3>1. k \in 1..(Len(N) - 1)
      BY <1>1
    <3>2. QED
      BY <2>1, <2>4, <3>1, LineIsRead
  <2>6. p + read.n = q /\ p + read.n - start = N[k + 1] - N[s]
    <3>1. read.n = N[k + 1] - N[k]
      BY <2>5
    <3> DEFINE x == N[k]
               y == N[k + 1]
               z == N[s]
               m == read.n
    <3>2. x \in Int /\ y \in Int /\ z \in Int /\ m = y - x
      BY <2>3, <3>1
    <3> HIDE DEF x, y, z, m
    <3>3. (x + 1) + m = y + 1 /\ (x + 1) + m - (z + 1) = y - z
      BY <3>2
    <3>4. QED
      BY <3>3 DEF x, y, z, m
  <2>7. read.result = "line" /\ read.line = L[k]
    BY <2>5
  <2> HIDE DEF read
  <2>8. CASE L[k] = <<>>
    <3>1. F[p] = [result |-> IF p = start THEN "nothing" ELSE "event", n |-> p + read.n - start,
                  data |-> <<>>]
      BY <2>1, <2>7, <2>8 DEF EventAt, read
    <3>2. at(k).result \in EventResults /\ at(k).n = N[k + 1] - N[s] /\ at(k).data = <<>>
      BY <2>6, <3>1 DEF EventResults
    <3>3. dataOf(L, k, k - 1) = <<>>
      <4>1. k - 1 \in Nat /\ (k - 1) + 1 = k
        OBVIOUS
      <4> HIDE DEF L
      <4>2. dataOf(L, (k - 1) + 1, k - 1) = <<>>
        BY <4>1, DataOfNone, Zenon
      <4>3. QED
        BY <4>1, <4>2
    <3>4. ASSUME NEW K \in k..n, EndsEvent(L, k, K) PROVE K = k
      <4>1. CASE K # k
        <5>1. k \in k..(K - 1)
          BY <1>1, <4>1
        <5>2. QED
          BY <2>8, <3>4, <5>1 DEF EndsEvent
      <4>2. QED
        BY <4>1
    <3>5. k \in k..n
      BY <1>1
    <3>6. QED
      BY <2>8, <3>2, <3>3, <3>4, <3>5
  <2>9. CASE L[k] # <<>>
    <3> DEFINE later == F[q]
    <3>1. F[p] = [result |-> later.result, n |-> later.n, data |-> dataValues(L[k]) \o later.data]
      <4>1. F[p] = [result |-> F[p + read.n].result, n |-> F[p + read.n].n,
                    data |-> dataValues(read.line) \o F[p + read.n].data]
        BY <2>1, <2>7, <2>9 DEF EventAt, read
      <4>2. QED
        BY <2>6, <2>7, <4>1, Zenon
    <3>2. later = at(k + 1)
      OBVIOUS
    <3>3. ASSUME NEW K \in k..n, EndsEvent(L, k, K)
          PROVE  /\ at(k).result \in EventResults /\ at(k).n = N[K + 1] - N[s]
                 /\ at(k).data = dataOf(L, k, K - 1)
      <4>1. K \in (k + 1)..n
        <5>1. K # k
          BY <2>9, <3>3 DEF EndsEvent
        <5>2. QED
          BY <1>1, <5>1
      <4>2. EndsEvent(L, k + 1, K)
        BY <3>3, <4>1 DEF EndsEvent
      <4>3. /\ at(k + 1).result \in EventResults /\ at(k + 1).n = N[K + 1] - N[s]
            /\ at(k + 1).data = dataOf(L, k + 1, K - 1)
        BY <2>2, <4>1, <4>2
      <4>4. dataOf(L, k, K - 1) = dataValues(L[k]) \o dataOf(L, k + 1, K - 1)
        <5>1. K - 1 \in 1..Len(L) /\ k \in 1..(K - 1)
          BY <1>1, <4>1
        <5>2. \A j \in k..(K - 1) : L[j] # <<>>
          BY <3>3 DEF EndsEvent
        <5> HIDE DEF L
        <5>3. QED
          BY <1>1, <5>1, <5>2, DataOfFirst
      <4> HIDE DEF L, N
      <4>5. QED
        BY <3>1, <3>2, <4>3, <4>4
    <3>4. ASSUME \A j \in k..n : L[j] # <<>> PROVE at(k).result \notin EventResults
      <4>1. \A j \in (k + 1)..n : L[j] # <<>>
        <5>1. \A j \in (k + 1)..n : j \in k..n
          BY <1>1
        <5>2. QED
          BY <3>4, <5>1, Zenon
      <4>2. at(k + 1).result \notin EventResults
        BY <2>2, <4>1
      <4>3. QED
        BY <3>1, <3>2, <4>2
    <3>5. QED
      BY <3>3, <3>4
  <2>10. QED
    BY <2>8, <2>9
<1>7. Says(s)
  <2>1. 1..(n + 1) \subseteq S
    <3> HIDE DEF S, n
    <3>1. QED
      BY <1>1, <1>5, <1>6, DownwardInduction
  <2>2. s \in S /\ s >= s
    BY <1>2, <2>1
  <2> HIDE DEF Says
  <2>3. QED
    BY <2>2
<1>8. QED
  BY <1>3, <1>7, Zenon

-----------------------------------------------------------------------------
(* The events, one after the other.                                        *)

EventsAt(G, b, over, max, p) ==
    LET read == readSSEEvent(b, over, p, max)
    IN IF read.result \in {"event", "nothing"} THEN <<read>> \o G[p + read.n] ELSE <<read>>

LEMMA EventsLookAhead ==
    ASSUME NEW B, NEW b \in Seq(B), NEW over \in BOOLEAN, NEW max \in Int,
           NEW p \in 1..(Len(b) + 1), NEW F, NEW G,
           \A j \in (p + 1)..(Len(b) + 1) : F[j] = G[j]
    PROVE  EventsAt(F, b, over, max, p) = EventsAt(G, b, over, max, p)
<1> DEFINE read == readSSEEvent(b, over, p, max)
<1>1. read.result \in EventResults => read.n \in Nat \ {0} /\ p + read.n <= Len(b) + 1
  BY EventTakes
<1> HIDE DEF read
<1>2. read.result \in EventResults => p + read.n \in (p + 1)..(Len(b) + 1)
  BY <1>1
<1>3. read.result \in EventResults => F[p + read.n] = G[p + read.n]
  BY <1>2
<1>4. QED
  BY <1>3, Zenon DEF EventsAt, EventResults, read

EventsScan(F, b, over, max, lo) ==
    F = [p \in lo..(Len(b) + 1) |-> EventsAt(F, b, over, max, p)]

LEMMA EventsScansExist ==
    ASSUME NEW B, NEW b \in Seq(B), NEW over \in BOOLEAN, NEW max \in Int
    PROVE  \E F : EventsScan(F, b, over, max, 1)
<1> DEFINE N == Len(b)
           S == {i \in 1..(N + 1) : \E F : EventsScan(F, b, over, max, i)}
<1>1. N \in Nat
  OBVIOUS
<1>2. N + 1 \in S
  <2> DEFINE e == EventsAt(<<>>, b, over, max, N + 1)
             F == [i \in (N + 1)..(N + 1) |-> e]
  <2>1. e = EventsAt(F, b, over, max, N + 1)
    <3> DEFINE G == <<>>
    <3>1. Len(b) + 1 \in 1..(Len(b) + 1) /\ \A j \in (Len(b) + 1 + 1)..(Len(b) + 1) : G[j] = F[j]
      BY <1>1
    <3> HIDE DEF F, G
    <3>2. EventsAt(G, b, over, max, Len(b) + 1) = EventsAt(F, b, over, max, Len(b) + 1)
      BY <1>1, <3>1, EventsLookAhead
    <3>3. QED
      BY <3>2 DEF G
  <2> HIDE DEF e
  <2>2. F = [p \in (N + 1)..(N + 1) |-> EventsAt(F, b, over, max, p)]
    <3>1. \A p \in (N + 1)..(N + 1) : p = N + 1
      BY <1>1
    <3>2. F = [p \in (N + 1)..(N + 1) |-> e]
      OBVIOUS
    <3>3. \A p \in (N + 1)..(N + 1) : e = EventsAt(F, b, over, max, p)
      BY <2>1, <3>1, Zenon
    <3> HIDE DEF F
    <3>4. QED
      BY <3>2, <3>3, Zenon
  <2>3. EventsScan(F, b, over, max, N + 1)
    BY <2>2, Zenon DEF EventsScan
  <2>4. QED
    BY <1>1, <2>3
<1>3. ASSUME NEW i \in 1..N, (i + 1)..(N + 1) \subseteq S PROVE i \in S
  <2>1. i + 1 \in S
    <3>1. i + 1 \in (i + 1)..(N + 1)
      BY <1>1
    <3> HIDE DEF S
    <3>2. QED
      BY <1>3, <3>1
  <2>2. PICK F : EventsScan(F, b, over, max, i + 1)
    BY <2>1
  <2> DEFINE G == [j \in i..(N + 1) |-> IF j = i THEN EventsAt(F, b, over, max, i) ELSE F[j]]
  <2>3. \A j \in (i + 1)..(N + 1) : F[j] = G[j]
    BY <1>1
  <2>4. ASSUME NEW j \in i..(N + 1) PROVE G[j] = EventsAt(G, b, over, max, j)
    <3>1. j \in 1..(Len(b) + 1) /\ \A k \in (j + 1)..(Len(b) + 1) : F[k] = G[k]
      BY <1>1, <2>3
    <3>2. EventsAt(F, b, over, max, j) = EventsAt(G, b, over, max, j)
      <4> HIDE DEF G, S, N
      <4>1. j \in 1..(Len(b) + 1)
        BY <3>1
      <4>2. QED
        BY <3>1, <4>1, EventsLookAhead
    <3>3. G[j] = EventsAt(F, b, over, max, j)
      <4>1. CASE j = i
        BY <4>1
      <4>2. CASE j \in (i + 1)..(N + 1)
        BY <2>2, <2>3, <4>2 DEF EventsScan
      <4>3. QED
        BY <1>1, <4>1, <4>2
    <3>4. QED
      BY <3>2, <3>3
  <2>5. G = [j \in i..(N + 1) |-> G[j]]
    OBVIOUS
  <2>6. EventsScan(G, b, over, max, i)
    <3> HIDE DEF G
    <3>1. QED
      BY <2>4, <2>5, Zenon DEF EventsScan
  <2>7. QED
    BY <1>1, <2>6
<1>4. 1 \in S
  <2>1. 1 \in 1..(N + 1)
    BY <1>1
  <2> HIDE DEF S
  <2>2. QED
    BY <1>1, <1>2, <1>3, <2>1, DownwardInduction
<1>5. QED
  BY <1>4

EventsSolve(F, b, over, max) ==
    \A p \in 1..(Len(b) + 1) : F[p] = EventsAt(F, b, over, max, p)

LEMMA EventsScans ==
    ASSUME NEW B, NEW b \in Seq(B), NEW over \in BOOLEAN, NEW max \in Int
    PROVE  \E F : EventsSolve(F, b, over, max) /\ readEvents(b, over, max) = F[1]
<1> DEFINE F == CHOOSE F : EventsScan(F, b, over, max, 1)
<1>1. EventsScan(F, b, over, max, 1)
  BY EventsScansExist
<1>2. readEvents(b, over, max) = F[1]
  BY DEF readEvents, EventsScan, EventsAt
<1> HIDE DEF F
<1>3. EventsSolve(F, b, over, max)
  BY <1>1 DEF EventsScan, EventsSolve
<1>4. QED
  BY <1>2, <1>3

\* The reads of the events of b.
Reads(b, over, max) == {readSSEEvent(b, over, p, max) : p \in 1..(Len(b) + 1)}

LEMMA EventsType ==
    ASSUME NEW B, NEW b \in Seq(B), NEW over \in BOOLEAN, NEW max \in Int,
           NEW G, EventsSolve(G, b, over, max)
    PROVE  \A p \in 1..(Len(b) + 1) : G[p] \in Seq(Reads(b, over, max)) /\ Len(G[p]) > 0
<1> DEFINE N == Len(b)
           R == Reads(b, over, max)
           S == {p \in 1..(N + 1) : G[p] \in Seq(R) /\ Len(G[p]) > 0}
<1>1. N \in Nat
  OBVIOUS
<1>2. ASSUME NEW p \in 1..(N + 1), \A q \in (p + 1)..(N + 1) : q \in S PROVE p \in S
  <2> DEFINE read == readSSEEvent(b, over, p, max)
  <2>1. read.result \in EventResults => read.n \in Nat \ {0} /\ p + read.n <= Len(b) + 1
    BY EventTakes
  <2>2. G[p] = IF read.result \in EventResults THEN <<read>> \o G[p + read.n] ELSE <<read>>
    BY DEF EventsSolve, EventsAt, EventResults
  <2>3. read \in R
    BY DEF Reads
  <2> HIDE DEF read, R
  <2>4. read.result \in EventResults => p + read.n \in (p + 1)..(N + 1)
    BY <1>1, <2>1
  <2>5. read.result \in EventResults => G[p + read.n] \in Seq(R) /\ Len(G[p + read.n]) > 0
    BY <1>2, <2>4
  <2>6. G[p] \in Seq(R) /\ Len(G[p]) > 0
    BY <2>2, <2>3, <2>5
  <2>7. QED
    BY <2>6
<1>3. N + 1 \in S
  <2>1. N + 1 \in 1..(N + 1) /\ \A q \in (N + 1 + 1)..(N + 1) : q \in S
    BY <1>1
  <2> HIDE DEF S
  <2>2. QED
    BY <1>2, <2>1
<1>4. ASSUME NEW i \in 1..N, (i + 1)..(N + 1) \subseteq S PROVE i \in S
  <2>1. i \in 1..(N + 1) /\ \A q \in (i + 1)..(N + 1) : q \in S
    BY <1>1, <1>4
  <2> HIDE DEF S
  <2>2. QED
    BY <1>2, <2>1
<1>5. 1..(N + 1) \subseteq S
  <2> HIDE DEF S
  <2>1. QED
    BY <1>1, <1>3, <1>4, DownwardInduction
<1>6. QED
  BY <1>5

EmptyLines(L) == {k \in DOMAIN L : L[k] = <<>>}

LEMMA EmptyLinesBorder ==
    ASSUME NEW C, NEW L \in Seq(C)
    PROVE  Borders(emptyLines(L), EmptyLines(L), Len(L))
<1>1. Len(L) \in Nat /\ EmptyLines(L) \subseteq 1..Len(L)
  BY DEF EmptyLines
<1>2. emptyLines(L) = <<0>> \o InOrder(EmptyLines(L), Len(L))
  BY DEF emptyLines, EmptyLines
<1>3. QED
  BY <1>1, <1>2, InOrderBorders

\* The reads that follow those of the first e - 1 events of the standard.
LEMMA EventsAreRead ==
    ASSUME NEW B, NEW b \in Seq(B), NEW over \in BOOLEAN, NEW t, ToBeRead(t, b, over),
           NEW max, max = Len(b) + 1
    PROVE  Delivered(readEvents(b, over, max)) = StandardEvents(t)
<1> DEFINE N == lineEndings(t)
           L == StandardLines(t)
           n == Len(L)
           M == emptyLines(L)
           m == Len(M) - 1
           at(e) == N[M[e] + 1] + 1
           event(e) == dataOf(L, M[e] + 1, M[e + 1] - 1)
<1>1. /\ L \in Seq(Seq(B)) /\ Len(N) = n + 1 /\ n \in Nat
      /\ \A k \in 1..Len(N) : N[k] \in 0..Len(b)
      /\ Len(t) \in Nat /\ Borders(N, endings(t), Len(t))
  BY LinesType
<1>2. Borders(M, EmptyLines(L), n)
  BY <1>1, EmptyLinesBorder
<1>3. /\ m \in Nat /\ M[1] = 0 /\ N[1] = 0 /\ Len(b) \in Nat /\ max \in Int
      /\ \A e \in 1..(m + 1) : M[e] \in 0..n /\ M[e] + 1 \in 1..Len(N)
      /\ \A k \in DOMAIN L : k \in 1..n
  <2> HIDE DEF M, N, L
  <2>1. M \in Seq(0..n) /\ M[1] = 0 /\ N[1] = 0 /\ Len(M) >= 1
    BY <1>1, <1>2 DEF Borders
  <2>2. QED
    <3> DEFINE w == Len(M)
    <3>1. w \in Nat /\ w >= 1 /\ \A e \in 1..w : M[e] \in 0..n
      BY <2>1
    <3>2. m \in Nat /\ w = m + 1 /\ n \in Nat
      BY <1>1, <3>1
    <3> HIDE DEF w, m
    <3>3. \A e \in 1..(m + 1) : M[e] \in 0..n
      BY <3>1, <3>2
    <3>4. \A e \in 1..(m + 1) : M[e] + 1 \in 1..Len(N)
      <4> HIDE DEF n
      <4>1. Len(N) = n + 1
        BY <1>1
      <4>2. QED
        BY <3>2, <3>3, <4>1
    <3>5. Len(b) \in Nat /\ max \in Int
      OBVIOUS
    <3>6. \A k \in DOMAIN L : k \in 1..n
      BY <1>1
    <3>7. QED
      BY <2>1, <3>2, <3>3, <3>4, <3>5, <3>6, Zenon
<1>4. \A e \in 1..(m + 1) : at(e) \in 1..(Len(b) + 1)
  <2> HIDE DEF M, N, L, m
  <2>1. QED
    BY <1>1, <1>3
<1>5. PICK G : EventsSolve(G, b, over, max) /\ readEvents(b, over, max) = G[1]
  BY <1>3, EventsScans
<1> DEFINE R == Reads(b, over, max)
           Says(e) == /\ G[at(e)] \in Seq(R) /\ Len(G[at(e)]) = m - e + 2
                      /\ \A i \in 1..(m - e + 1) : G[at(e)][i].data = event(e + (i - 1))
           S == {e \in 1..(m + 1) : Says(e)}
<1>6. ASSUME NEW e \in 1..(m + 1)
      PROVE  /\ G[at(e)] \in Seq(R)
             /\ readSSEEvent(b, over, at(e), max) \in R
             /\ G[at(e)] = EventsAt(G, b, over, max, at(e))
  <2>1. at(e) \in 1..(Len(b) + 1)
    BY <1>4
  <2> HIDE DEF at, m
  <2>2. G[at(e)] \in Seq(R)
    BY <1>3, <1>5, <2>1, EventsType
  <2>3. readSSEEvent(b, over, at(e), max) \in R
    BY <2>1 DEF Reads
  <2>4. G[at(e)] = EventsAt(G, b, over, max, at(e))
    BY <1>5, <2>1 DEF EventsSolve
  <2>5. QED
    BY <2>2, <2>3, <2>4
<1>7. m + 1 \in S
  <2> DEFINE s == M[m + 1] + 1
             p == N[s] + 1
             read == readSSEEvent(b, over, p, max)
  <2>1. m + 1 \in 1..(m + 1) /\ s \in 1..Len(N) /\ m + 1 = Len(M)
    BY <1>3
  <2>2. \A j \in s..n : L[j] # <<>>
    <3>1. \A x \in EmptyLines(L) : x <= M[m + 1]
      BY <1>2, <2>1 DEF Borders
    <3>2. ASSUME NEW j \in s..n PROVE L[j] # <<>>
      <4>1. j > M[m + 1] /\ j \in 1..n /\ j \in Int /\ M[m + 1] \in Int
        <5> HIDE DEF M, m, n
        <5>1. QED
          BY <1>1, <1>3, <2>1
      <4>2. j \notin EmptyLines(L)
        <5> HIDE DEF M, m, n
        <5>1. QED
          BY <3>1, <4>1
      <4>3. j \in DOMAIN L
        BY <1>1, <4>1
      <4>4. QED
        BY <4>2, <4>3 DEF EmptyLines
    <3>3. QED
      BY <3>2
  <2>3. read.result \notin EventResults
    <3> HIDE DEF s
    <3>1. readSSEEvent(b, over, N[s] + 1, Len(b) + 1).result \notin EventResults
      BY <2>1, <2>2, EventIsRead
    <3>2. QED
      BY <3>1
  <2>4. G[at(m + 1)] = <<read>>
    <3>1. G[p] = EventsAt(G, b, over, max, p)
      <4> HIDE DEF m, M, N, L
      <4>1. QED
        BY <1>6, <2>1
    <3> HIDE DEF p
    <3>2. G[p] = <<read>>
      BY <2>3, <3>1, Zenon DEF EventsAt, EventResults
    <3>3. QED
      BY <3>2 DEF p
  <2>5. read \in R
    <3> HIDE DEF m, M, N, L
    <3>1. QED
      BY <1>6, <2>1
  <2> HIDE DEF read, R, at, event, m, M, N, L
  <2>6. Says(m + 1)
    <3>1. G[at(m + 1)] \in Seq(R) /\ Len(G[at(m + 1)]) = 1
      BY <2>4, <2>5
    <3>2. m - (m + 1) + 2 = 1 /\ 1..(m - (m + 1) + 1) = {}
      BY <1>3
    <3>3. QED
      BY <3>1, <3>2
  <2>7. QED
    BY <2>1, <2>6
<1>8. ASSUME NEW e \in 1..m, (e + 1)..(m + 1) \subseteq S PROVE e \in S
  <2> DEFINE s == M[e] + 1
             K == M[e + 1]
             p == N[s] + 1
             read == readSSEEvent(b, over, p, max)
             q == N[K + 1] + 1
  <2>1. /\ e \in 1..(m + 1) /\ e + 1 \in 1..(m + 1) /\ e + 1 \in (e + 1)..(m + 1)
        /\ s \in 1..Len(N) /\ e \in 1..(Len(M) - 1)
    BY <1>3
  <2>2. K \in s..n /\ EndsEvent(L, s, K)
    <3>1. K \in EmptyLines(L) /\ M[e] < K /\ \A x \in EmptyLines(L) : ~(M[e] < x /\ x < K)
      BY <1>2, <2>1 DEF Borders
    <3>2. K \in DOMAIN L /\ L[K] = <<>>
      BY <3>1 DEF EmptyLines
    <3>3. K \in 1..n /\ M[e] \in 0..n
      BY <1>3, <2>1, <3>2
    <3>4. ASSUME NEW j \in s..(K - 1) PROVE L[j] # <<>>
      <4>1. M[e] < j /\ j < K /\ j \in 1..n
        <5> HIDE DEF M, K, n
        <5>1. QED
          BY <1>1, <3>3
      <4>2. j \in DOMAIN L /\ j \notin EmptyLines(L)
        BY <1>1, <3>1, <4>1
      <4>3. QED
        BY <4>2 DEF EmptyLines
    <3>5. K \in s..n
      <4> HIDE DEF M, K, n
      <4>1. QED
        BY <1>1, <3>1, <3>3
    <3>6. QED
      BY <3>2, <3>4, <3>5 DEF EndsEvent
  <2>3. read.result \in EventResults /\ read.n = N[K + 1] - N[s] /\ read.data = event(e)
    <3> HIDE DEF s, K, N, L
    <3>1. /\ readSSEEvent(b, over, N[s] + 1, Len(b) + 1).result \in EventResults
          /\ readSSEEvent(b, over, N[s] + 1, Len(b) + 1).n = N[K + 1] - N[s]
          /\ readSSEEvent(b, over, N[s] + 1, Len(b) + 1).data = dataOf(L, s, K - 1)
      BY <2>1, <2>2, EventIsRead DEF N, L
    <3>2. QED
      BY <3>1 DEF s, K
  <2>4. p + read.n = q
    <3>1. N[K + 1] \in Int /\ N[s] \in Int
      <4> HIDE DEF N, s, M
      <4>1. QED
        BY <1>1, <1>3, <2>1
    <3> DEFINE x == N[s]
               y == N[K + 1]
               z == read.n
    <3>2. x \in Int /\ y \in Int /\ z = y - x
      BY <2>3, <3>1
    <3> HIDE DEF x, y, z
    <3>3. (x + 1) + z = y + 1
      BY <3>2
    <3>4. QED
      BY <3>3 DEF x, y, z
  <2>5. G[at(e)] = <<read>> \o G[at(e + 1)]
    <3>1. G[p] = EventsAt(G, b, over, max, p)
      <4> HIDE DEF m, M, N, L
      <4>1. QED
        BY <1>6, <2>1
    <3> HIDE DEF p, q
    <3>2. G[p] = <<read>> \o G[p + read.n]
      BY <2>3, <3>1, Zenon DEF EventsAt, EventResults
    <3>3. G[p] = <<read>> \o G[q]
      BY <2>4, <3>2
    <3>4. QED
      BY <3>3 DEF p, q
  <2>6. read \in R
    <3> HIDE DEF m, M, N, L
    <3>1. QED
      BY <1>6, <2>1
  <2>7. Says(e + 1)
    <3> HIDE DEF Says
    <3>1. QED
      BY <1>8, <2>1
  <2>8. read.data = event(e)
    BY <2>3
  <2> HIDE DEF read, R, at, event, m, M, N, L
  <2>9. Says(e)
    <3> DEFINE g == G[at(e + 1)]
               f == G[at(e)]
    <3>1. /\ g \in Seq(R) /\ Len(g) = m - (e + 1) + 2
          /\ \A i \in 1..(m - (e + 1) + 1) : g[i].data = event((e + 1) + (i - 1))
      BY <2>7
    <3>2. f = <<read>> \o g
      BY <2>5
    <3> HIDE DEF f, g
    <3>3. f \in Seq(R) /\ Len(f) = Len(g) + 1 /\ f[1] = read /\ \A i \in 1..Len(g) : f[i + 1] = g[i]
      BY <2>6, <3>1, <3>2
    <3>4. Len(f) = m - e + 2
      BY <1>3, <3>1, <3>3
    <3>5. ASSUME NEW i \in 1..(m - e + 1) PROVE f[i].data = event(e + (i - 1))
      <4>1. CASE i = 1
        <5>1. e + (i - 1) = e
          BY <4>1
        <5>2. QED
          BY <2>8, <3>3, <4>1, <5>1
      <4>2. CASE i # 1
        <5>1. /\ i - 1 \in 1..(m - (e + 1) + 1) /\ i - 1 \in 1..Len(g) /\ (i - 1) + 1 = i
              /\ (e + 1) + ((i - 1) - 1) = e + (i - 1)
          BY <1>3, <3>1, <4>2
        <5>2. f[i] = g[i - 1]
          BY <3>3, <5>1
        <5>3. g[i - 1].data = event((e + 1) + ((i - 1) - 1))
          BY <3>1, <5>1
        <5>4. QED
          BY <5>1, <5>2, <5>3
      <4>3. QED
        BY <4>1, <4>2
    <3>6. QED
      BY <3>3, <3>4, <3>5 DEF f
  <2>10. QED
    BY <2>1, <2>9
<1>9. 1 \in S
  <2>1. 1 \in 1..(m + 1)
    BY <1>3
  <2> HIDE DEF S, m
  <2>2. 1..(m + 1) \subseteq S
    BY <1>3, <1>7, <1>8, DownwardInduction
  <2>3. QED
    BY <2>1, <2>2
<1>10. at(1) = 1
  BY <1>3
<1> DEFINE reads == readEvents(b, over, max)
<1>11. /\ reads \in Seq(R) /\ Len(reads) = m + 1
       /\ \A i \in 1..m : reads[i].data = event(i)
  <2>1. Says(1)
    <3> HIDE DEF Says
    <3>1. QED
      BY <1>9
  <2>2. G[at(1)] = reads
    BY <1>5, <1>10
  <2> HIDE DEF reads, R, at, event, m
  <2>3. /\ reads \in Seq(R) /\ Len(reads) = m - 1 + 2
        /\ \A i \in 1..(m - 1 + 1) : reads[i].data = event(1 + (i - 1))
    BY <2>1, <2>2
  <2>4. m - 1 + 2 = m + 1 /\ m - 1 + 1 = m /\ \A i \in 1..m : 1 + (i - 1) = i
    BY <1>3
  <2>5. QED
    BY <2>3, <2>4
<1>12. Delivered(reads) = [i \in 1..m |-> event(i)]
  <2> HIDE DEF reads, event, R, m
  <2>1. Len(reads) - 1 = m
    BY <1>3, <1>11
  <2>2. QED
    BY <1>11, <2>1 DEF Delivered
<1>13. StandardEvents(t) = [i \in 1..m |-> event(i)]
  BY DEF StandardEvents
<1>14. QED
  BY <1>12, <1>13

-----------------------------------------------------------------------------
(* The limit: what is read with one, r, and without, g.                     *)

LineLimited(b, over, from, remaining, r, g) ==
    /\ g.result \in {"line", "eof", "blocks"} /\ g.n \in Nat /\ from + g.n <= Len(b) + 1
    /\ g.result = "blocks" => ~over
    /\ g.result = "line" => from <= Len(b) /\ g.n > 0
    /\ g.result # "line" => from + g.n = Len(b) + 1
    /\ remaining <= 0 => r = [result |-> "limit", n |-> 0]
    /\ remaining > 0 => \/ r = g /\ g.n <= remaining + 1
                        \/ r = [result |-> "limit", n |-> remaining + 1] /\ g.n > remaining

LEMMA LineKeepsLimit ==
    ASSUME NEW B, NEW b \in Seq(B), NEW over \in BOOLEAN, NEW from \in 1..(Len(b) + 1),
           NEW remaining \in Int, NEW free \in Int, free > Len(b) + 1 - from
    PROVE  LineLimited(b, over, from, remaining, readSSELine(b, over, from, remaining),
                       readSSELine(b, over, from, free))
<1> DEFINE end == lineEnd(b, from)
           r == lineRead(b, over, from, remaining, end)
           g == lineRead(b, over, from, free, end)
           line == [result |-> "line", n |-> end - from + lineBytes(b, end), line |-> SubSeq(b, from, end - 1)]
           eof == [result |-> IF over THEN "eof" ELSE "blocks", n |-> end - from]
           blocks == [result |-> "blocks", n |-> end - from + 1]
           limit == [result |-> "limit", n |-> remaining + 1]
<1>1. end \in from..(Len(b) + 1) /\ Len(b) \in Nat
  BY LineEndIs
<1>2. readSSELine(b, over, from, remaining) = r /\ readSSELine(b, over, from, free) = g
  BY DEF readSSELine
<1> HIDE DEF end
<1>0. from \in Int /\ end \in Int /\ Len(b) \in Nat
  BY <1>1
<1>3. LineIs(b, over, from, remaining, end, r) /\ LineIs(b, over, from, free, end, g)
  BY <1>0, LineReadIs
<1>4. remaining <= 0 => r = [result |-> "limit", n |-> 0]
  <2> HIDE DEF r
  <2>1. QED
    BY <1>3 DEF LineIs
<1> DEFINE Goal == /\ g.result \in {"line", "eof", "blocks"} /\ g.n \in Nat /\ from + g.n <= Len(b) + 1
                   /\ g.result = "blocks" => ~over
                   /\ g.result = "line" => from <= Len(b) /\ g.n > 0
                   /\ g.result # "line" => from + g.n = Len(b) + 1
                   /\ remaining > 0 => \/ r = g /\ g.n <= remaining + 1
                                       \/ r = limit /\ (g.n > remaining)
<1>5. ASSUME end > Len(b) PROVE Goal
  <2>1. free > 0 /\ end - from <= free /\ end = Len(b) + 1
    BY <1>1, <1>5
  <2> HIDE DEF r, g
  <2>2. g = eof
    BY <1>0, <1>3, <1>5, <2>1 DEF LineIs
  <2>3. remaining > 0 /\ end - from <= remaining => r = eof
    BY <1>0, <1>3, <1>5 DEF LineIs
  <2>4. remaining > 0 /\ end - from > remaining => r = limit
    BY <1>0, <1>3, <1>5 DEF LineIs
  <2>5. eof.n = end - from /\ eof.result \in {"eof", "blocks"} /\ (eof.result = "blocks" => ~over)
    OBVIOUS
  <2> HIDE DEF eof, limit
  <2>6. remaining > 0 => (r = g /\ g.n <= remaining + 1) \/ (r = limit /\ g.n > remaining)
    <3>1. CASE end - from <= remaining
      <4>1. end - from <= remaining + 1
        BY <1>1, <3>1
      <4>2. QED
        BY <2>2, <2>3, <2>5, <3>1, <4>1
    <3>2. CASE end - from > remaining
      BY <2>2, <2>4, <2>5, <3>2
    <3>3. QED
      BY <1>1, <3>1, <3>2
  <2>7. g.result \in {"eof", "blocks"} /\ g.n \in Nat /\ from + g.n = Len(b) + 1 /\ (g.result = "blocks" => ~over)
    BY <1>1, <2>1, <2>2, <2>5
  <2>8. QED
    BY <1>1, <2>6, <2>7
<1>6. ASSUME end <= Len(b) PROVE Goal
  <2> DEFINE either == IF waitsAfterCR(b, over, end) THEN blocks ELSE line
             l == lineBytes(b, end)
  <2>1. free > 0 /\ end - from + 1 <= free
    BY <1>1, <1>6
  <2> HIDE DEF r, g
  <2>2. g = either
    BY <1>0, <1>3, <1>6, <2>1 DEF LineIs
  <2>3. remaining > 0 /\ end - from + 1 <= remaining => r = either
    BY <1>0, <1>3, <1>6 DEF LineIs
  <2>4. remaining > 0 /\ end - from + 1 > remaining => r = limit
    BY <1>0, <1>3, <1>6 DEF LineIs
  <2>5. l \in 1..2 /\ end + l <= Len(b) + 1
    BY <1>1, <1>6 DEF lineBytes, FollowedByLF
  <2>6. waitsAfterCR(b, over, end) => ~over /\ end = Len(b)
    BY DEF waitsAfterCR
  <2>7. /\ waitsAfterCR(b, over, end) => either.n = end - from + 1 /\ either.result = "blocks"
        /\ ~waitsAfterCR(b, over, end) => either.n = end - from + l /\ either.result = "line"
    OBVIOUS
  <2> HIDE DEF either, limit, l
  <2>8. /\ g.n \in Nat /\ g.n >= end - from + 1 /\ g.n <= end - from + 2
        /\ from + g.n <= Len(b) + 1 /\ g.n > 0 /\ from <= Len(b) /\ g.result \in {"line", "blocks"}
        /\ g.result = "blocks" => ~over
        /\ g.result # "line" => from + g.n = Len(b) + 1
    <3>1. CASE waitsAfterCR(b, over, end)
      BY <1>1, <1>6, <2>2, <2>6, <2>7, <3>1
    <3>2. CASE ~waitsAfterCR(b, over, end)
      BY <1>1, <1>6, <2>2, <2>5, <2>7, <3>2
    <3>3. QED
      BY <3>1, <3>2
  <2>9. remaining > 0 => (r = g /\ g.n <= remaining + 1) \/ (r = limit /\ g.n > remaining)
    <3>1. CASE end - from + 1 <= remaining
      <4>1. g.n <= remaining + 1
        BY <1>1, <2>8, <3>1
      <4>2. QED
        BY <2>2, <2>3, <3>1, <4>1
    <3>2. CASE end - from + 1 > remaining
      <4>1. g.n > remaining
        BY <1>1, <2>8, <3>2
      <4>2. QED
        BY <2>4, <3>2, <4>1
    <3>3. QED
      BY <1>1, <3>1, <3>2
  <2>10. QED
    BY <2>8, <2>9
<1>7. Goal
  <2> HIDE DEF Goal
  <2>1. QED
    BY <1>0, <1>5, <1>6
<1> HIDE DEF r, g
<1>8. QED
  BY <1>2, <1>4, <1>7 DEF LineLimited

\* An event with a limit is the event, or the limit is what it breaks.
Limited(read, free, max) ==
    \/ read = free /\ read.result # "limit" /\ read.n <= max + 1
    \/ /\ read.result = "limit" /\ read.n <= max + 1
       /\ free.n > max \/ (free.result \in {"eof", "blocks"} /\ free.n = max)

LEMMA EventKeepsLimit ==
    ASSUME NEW B, NEW b \in Seq(B), NEW over \in BOOLEAN,
           NEW start \in 1..(Len(b) + 1), NEW max \in Nat \ {0}
    PROVE  /\ Limited(readSSEEvent(b, over, start, max), readSSEEvent(b, over, start, Len(b) + 1), max)
           /\ readSSEEvent(b, over, start, Len(b) + 1).result = "blocks" => ~over
<1> DEFINE N == Len(b)
           top == N + 1
<1>1. N \in Nat /\ top \in Int /\ max \in Int /\ start \in Int
  OBVIOUS
<1>2. PICK F : EventSolves(F, b, over, start, max) /\ readSSEEvent(b, over, start, max) = F[start]
  BY <1>1, EventScans
<1>3. PICK G : EventSolves(G, b, over, start, top) /\ readSSEEvent(b, over, start, top) = G[start]
  BY <1>1, EventScans
<1> DEFINE Free(p) == /\ G[p].n \in Int /\ G[p].n >= p - start /\ G[p].result # "limit"
                      /\ G[p].result = "blocks" => ~over
                      /\ p <= N => G[p].n > p - start
                      /\ p = N + 1 => G[p].result \in {"eof", "blocks"} /\ G[p].n = p - start
           Good(p) == Free(p) /\ (p - start <= max + 1 => Limited(F[p], G[p], max))
           S == {p \in 1..(N + 1) : p >= start => Good(p)}
<1>4. ASSUME NEW p \in 1..(N + 1), p >= start, \A q \in (p + 1)..(N + 1) : q \in S
      PROVE  Good(p)
  <2> DEFINE r == readSSELine(b, over, p, max - (p - start))
             g == readSSELine(b, over, p, top - (p - start))
             q == p + g.n
             gone == p - start
  <2>1. gone \in Nat /\ max - gone \in Int /\ top - gone \in Int /\ top - gone > N + 1 - p
    BY <1>1, <1>4
  <2>2. F[p] = EventAt(F, b, over, start, max, p) /\ G[p] = EventAt(G, b, over, start, top, p)
    BY <1>1, <1>2, <1>3, <1>4 DEF EventSolves
  <2>0. LineLimited(b, over, p, max - gone, r, g)
    BY <2>1, LineKeepsLimit
  <2> HIDE DEF r, g
  <2>3. /\ g.result \in {"line", "eof", "blocks"} /\ g.n \in Nat /\ p + g.n <= N + 1
        /\ g.result = "blocks" => ~over
        /\ g.result = "line" => p <= N /\ g.n > 0
        /\ g.result # "line" => p + g.n = N + 1
        /\ max - gone <= 0 => r = [result |-> "limit", n |-> 0]
        /\ max - gone > 0 => \/ r = g /\ g.n <= max - gone + 1
                             \/ r = [result |-> "limit", n |-> max - gone + 1]
                                /\ (g.n > max - gone)
    BY <2>0 DEF LineLimited
  <2>4. p + g.n - start = gone + g.n
    BY <1>1, <2>3
  <2>5. g.result = "line" => q \in (p + 1)..(N + 1) /\ Good(q) /\ q - start = gone + g.n
    <3>1. g.result = "line" => q \in (p + 1)..(N + 1) /\ q >= start /\ q - start = gone + g.n
      BY <1>1, <1>4, <2>3
    <3> HIDE DEF q, Good
    <3>2. QED
      BY <1>4, <3>1
  <2>6. \/ g.result # "line" /\ G[p] = [result |-> g.result, n |-> gone + g.n, data |-> <<>>]
        \/ /\ g.result = "line" /\ g.line = <<>>
           /\ G[p] = [result |-> IF p = start THEN "nothing" ELSE "event", n |-> gone + g.n, data |-> <<>>]
        \/ /\ g.result = "line" /\ g.line # <<>>
           /\ G[p] = [result |-> G[q].result, n |-> G[q].n, data |-> dataValues(g.line) \o G[q].data]
    <3>1. CASE g.result # "line"
      BY <2>2, <2>4, <3>1 DEF EventAt, g
    <3>2. CASE g.result = "line" /\ g.line = <<>>
      BY <2>2, <2>4, <3>2 DEF EventAt, g
    <3>3. CASE g.result = "line" /\ g.line # <<>>
      BY <2>2, <3>3 DEF EventAt, g
    <3>4. QED
      BY <2>3, <3>1, <3>2, <3>3
  <2>7. Free(p)
    <3>1. CASE g.result # "line"
      <4>1. G[p].n = gone + g.n /\ G[p].result = g.result /\ gone + g.n = N + 1 - start
        BY <1>1, <2>3, <2>6, <3>1
      <4>2. G[p].result \in {"eof", "blocks"} /\ (G[p].result = "blocks" => ~over)
        BY <2>3, <3>1, <4>1
      <4>3. /\ G[p].n \in Int /\ G[p].n >= p - start /\ (p <= N => G[p].n > p - start)
            /\ (p = N + 1 => G[p].n = p - start)
        <5> DEFINE z == G[p].n
        <5>1. z = gone + g.n /\ gone \in Nat /\ g.n \in Nat /\ p + g.n = N + 1 /\ gone = p - start
              /\ start \in Int /\ N \in Nat /\ p \in 1..(N + 1)
          BY <1>1, <1>4, <2>1, <2>3, <3>1, <4>1
        <5> HIDE DEF z, gone, N
        <5>2. z \in Int /\ z >= p - start /\ (p <= N => z > p - start) /\ (p = N + 1 => z = p - start)
          BY <5>1
        <5>3. QED
          BY <5>2 DEF z
      <4>4. QED
        BY <4>2, <4>3
    <3>2. CASE g.result = "line" /\ g.line = <<>>
      <4>1. G[p].n = gone + g.n /\ G[p].result \in {"nothing", "event"}
        BY <2>6, <3>2
      <4>2. QED
        BY <1>1, <1>4, <2>1, <2>3, <3>2, <4>1
    <3>3. CASE g.result = "line" /\ g.line # <<>>
      <4>1. G[p].n = G[q].n /\ G[p].result = G[q].result
        BY <2>6, <3>3
      <4>2. G[q].n \in Int /\ G[q].n >= gone + g.n /\ G[q].result # "limit"
            /\ (G[q].result = "blocks" => ~over)
        BY <2>5, <3>3
      <4>3. G[p].n \in Int /\ G[p].n > p - start /\ ~(p = N + 1)
        <5>1. G[p].n \in Int /\ G[p].n >= gone + g.n
          BY <4>1, <4>2
        <5>2. g.n \in Int /\ g.n > 0 /\ gone + g.n > gone /\ p <= N /\ gone \in Int
          BY <2>1, <2>3, <3>3
        <5> HIDE DEF gone
        <5>3. G[p].n > gone
          BY <5>1, <5>2
        <5>4. QED
          BY <1>1, <1>4, <5>1, <5>2, <5>3 DEF gone
      <4>4. G[p].n >= p - start
        BY <1>4, <4>3
      <4>5. QED
        BY <4>1, <4>2, <4>3, <4>4
    <3>4. QED
      BY <2>3, <3>1, <3>2, <3>3
  <2>8. ASSUME gone <= max + 1 PROVE Limited(F[p], G[p], max)
    <3>1. CASE r.result = "limit"
      <4>1. F[p] = [result |-> "limit", n |-> p + r.n - start, data |-> <<>>]
        BY <2>2, <3>1 DEF EventAt, r
      <4>2. CASE gone >= max
        <5>1. r.n = 0
          BY <2>1, <2>3, <4>2
        <5>2. p + r.n - start = gone /\ gone <= max + 1
          BY <1>1, <2>8, <5>1
        <5>3. F[p].result = "limit" /\ F[p].n <= max + 1
          BY <4>1, <5>2
        <5>4. G[p].n > max \/ (G[p].result \in {"eof", "blocks"} /\ G[p].n = max)
          BY <1>1, <1>4, <2>1, <2>7, <4>2
        <5>5. QED
          BY <5>3, <5>4 DEF Limited
      <4>3. CASE gone < max
        <5>1. r.n = max - gone + 1 /\ g.n > max - gone
          BY <2>1, <2>3, <3>1, <4>3
        <5>2. p + r.n - start = max + 1
          BY <1>1, <5>1
        <5>3. F[p].result = "limit" /\ F[p].n <= max + 1
          BY <1>1, <4>1, <5>2
        <5>4. G[p].n > max
          <6>1. gone + g.n > max
            BY <1>1, <2>1, <2>3, <5>1
          <6>2. CASE g.result # "line" \/ g.line = <<>>
            <7>1. G[p].n = gone + g.n
              BY <2>6, <6>2
            <7>2. QED
              BY <6>1, <7>1
          <6>3. CASE g.result = "line" /\ g.line # <<>>
            <7>1. G[p].n = G[q].n
              BY <2>6, <6>3
            <7>2. G[q].n \in Int /\ G[q].n >= gone + g.n
              BY <2>5, <6>3
            <7>3. QED
              BY <1>1, <2>1, <2>3, <6>1, <7>1, <7>2
          <6>4. QED
            BY <2>3, <6>2, <6>3
        <5>5. QED
          BY <5>3, <5>4 DEF Limited
      <4>4. QED
        BY <1>1, <2>1, <4>2, <4>3
    <3>2. CASE r.result # "limit"
      <4>1. r = g /\ gone < max /\ gone + g.n <= max + 1
        BY <1>1, <2>1, <2>3, <3>2
      <4>2. CASE g.result # "line"
        <5>1. F[p] = [result |-> g.result, n |-> gone + g.n, data |-> <<>>]
          BY <2>2, <2>4, <4>1, <4>2 DEF EventAt, r
        <5>2. F[p] = G[p]
          BY <2>6, <4>2, <5>1
        <5>3. F[p].result = g.result /\ F[p].n = gone + g.n
          BY <5>1
        <5>4. F[p].result # "limit" /\ F[p].n <= max + 1
          BY <2>3, <4>1, <5>3
        <5>5. QED
          BY <5>2, <5>4 DEF Limited
      <4>3. CASE g.result = "line" /\ g.line = <<>>
        <5>1. F[p] = [result |-> IF p = start THEN "nothing" ELSE "event", n |-> gone + g.n, data |-> <<>>]
          BY <2>2, <2>4, <4>1, <4>3 DEF EventAt, r
        <5>2. F[p] = G[p]
          BY <2>6, <4>3, <5>1
        <5>3. F[p].result # "limit" /\ F[p].n = gone + g.n
          BY <5>1
        <5>4. QED
          BY <4>1, <5>2, <5>3 DEF Limited
      <4>4. CASE g.result = "line" /\ g.line # <<>>
        <5>1. F[p] = [result |-> F[q].result, n |-> F[q].n, data |-> dataValues(g.line) \o F[q].data]
          <6>1. r.result = "line" /\ r.line # <<>>
            BY <4>1, <4>4
          <6>2. F[p] = [result |-> F[p + r.n].result, n |-> F[p + r.n].n,
                        data |-> dataValues(r.line) \o F[p + r.n].data]
            BY <2>2, <6>1 DEF EventAt, r
          <6>3. QED
            BY <4>1, <6>2
        <5>2. Limited(F[q], G[q], max)
          <6>1. q - start <= max + 1
            BY <2>5, <4>1, <4>4
          <6>2. QED
            BY <2>5, <4>4, <6>1
        <5>3. G[p] = [result |-> G[q].result, n |-> G[q].n, data |-> dataValues(g.line) \o G[q].data]
          BY <2>6, <4>4
        <5> HIDE DEF q, gone
        <5>4. F[p].result = F[q].result /\ F[p].n = F[q].n /\ G[p].result = G[q].result /\ G[p].n = G[q].n
          BY <5>1, <5>3
        <5>5. F[q] = G[q] => F[p] = G[p]
          BY <5>1, <5>3, Zenon
        <5>6. QED
          BY <5>2, <5>4, <5>5, Zenon DEF Limited
      <4>5. QED
        BY <2>3, <4>2, <4>3, <4>4
    <3>3. QED
      BY <3>1, <3>2
  <2>9. QED
    BY <2>7, <2>8
<1>5. N + 1 \in S
  <2>1. \A q \in (N + 1 + 1)..(N + 1) : q \in S
    BY <1>1
  <2>2. N + 1 \in 1..(N + 1)
    BY <1>1
  <2>3. N + 1 >= start => Good(N + 1)
    <3> HIDE DEF S, Good
    <3>1. QED
      BY <1>4, <2>1, <2>2
  <2>4. QED
    BY <2>2, <2>3
<1>6. ASSUME NEW i \in 1..N, (i + 1)..(N + 1) \subseteq S PROVE i \in S
  <2>1. i \in 1..(N + 1) /\ \A q \in (i + 1)..(N + 1) : q \in S
    BY <1>1, <1>6
  <2>2. i >= start => Good(i)
    <3> HIDE DEF S, Good
    <3>1. QED
      BY <1>4, <2>1
  <2>3. QED
    BY <2>1, <2>2
<1>7. Good(start)
  <2>1. start \in 1..(N + 1) /\ start >= start
    BY <1>1
  <2>2. 1..(N + 1) \subseteq S
    <3> HIDE DEF S
    <3>1. QED
      BY <1>1, <1>5, <1>6, DownwardInduction
  <2>3. QED
    BY <2>1, <2>2
<1>8. start - start <= max + 1
  BY <1>1
<1>9. Limited(F[start], G[start], max) /\ (G[start].result = "blocks" => ~over)
  BY <1>7, <1>8
<1>10. QED
  BY <1>2, <1>3, <1>9

\* All events that are read with a limit, and without.
Kept(free, reads, max) ==
    /\ Len(reads) \in 1..Len(free)
    /\ \A i \in 1..(Len(reads) - 1) : reads[i] = free[i]
    /\ \A i \in 1..Len(reads) : reads[i].n <= max + 1
    /\ reads[Len(reads)].result = "limit" =>
           LET last == free[Len(reads)]
           IN last.n > max \/ (last.result \in {"eof", "blocks"} /\ last.n = max)

LEMMA KeptOfOne ==
    ASSUME NEW C, NEW read \in C, NEW max \in Nat, NEW free \in Seq(C), Len(free) > 0,
           Limited(read, free[1], max)
    PROVE  Kept(free, <<read>>, max)
<1> DEFINE reads == <<read>>
<1>1. Len(reads) = 1 /\ reads[1] = read /\ Len(free) \in Nat
  OBVIOUS
<1>2. read.n <= max + 1
  BY DEF Limited
<1>3. read.result = "limit" =>
          free[1].n > max \/ (free[1].result \in {"eof", "blocks"} /\ free[1].n = max)
  BY DEF Limited
<1> HIDE DEF reads
<1>4. Kept(free, reads, max)
  BY <1>1, <1>2, <1>3 DEF Kept
<1>5. QED
  BY <1>4 DEF reads

LEMMA KeptAfterOne ==
    ASSUME NEW C, NEW read \in C, NEW max \in Nat, NEW free \in Seq(C), NEW reads \in Seq(C),
           Kept(free, reads, max), read.n <= max + 1
    PROVE  Kept(<<read>> \o free, <<read>> \o reads, max)
<1> DEFINE f == <<read>> \o free
           s == <<read>> \o reads
<1>1. /\ Len(f) = Len(free) + 1 /\ f[1] = read /\ \A i \in 1..Len(free) : f[i + 1] = free[i]
      /\ Len(s) = Len(reads) + 1 /\ s[1] = read /\ \A i \in 1..Len(reads) : s[i + 1] = reads[i]
      /\ Len(free) \in Nat /\ Len(reads) \in Nat
  OBVIOUS
<1> HIDE DEF f, s
<1>2. Len(reads) \in 1..Len(free)
  BY DEF Kept
<1>3. Len(s) \in 1..Len(f)
  BY <1>1, <1>2
<1>4. ASSUME NEW i \in 1..(Len(s) - 1) PROVE s[i] = f[i]
  <2>1. CASE i = 1
    BY <1>1, <2>1
  <2>2. CASE i # 1
    <3>1. i - 1 \in 1..(Len(reads) - 1) /\ i - 1 \in 1..Len(free) /\ i - 1 \in 1..Len(reads) /\ (i - 1) + 1 = i
      BY <1>1, <1>2, <2>2
    <3>2. reads[i - 1] = free[i - 1]
      BY <3>1 DEF Kept
    <3>3. QED
      BY <1>1, <3>1, <3>2
  <2>3. QED
    BY <2>1, <2>2
<1>5. ASSUME NEW i \in 1..Len(s) PROVE s[i].n <= max + 1
  <2>1. CASE i = 1
    BY <1>1, <2>1
  <2>2. CASE i # 1
    <3>1. i - 1 \in 1..Len(reads) /\ (i - 1) + 1 = i
      BY <1>1, <2>2
    <3>2. reads[i - 1].n <= max + 1
      BY <3>1 DEF Kept
    <3>3. QED
      BY <1>1, <3>1, <3>2
  <2>3. QED
    BY <2>1, <2>2
<1>6. s[Len(s)] = reads[Len(reads)] /\ f[Len(s)] = free[Len(reads)]
  BY <1>1, <1>2
<1>7. Kept(f, s, max)
  BY <1>3, <1>4, <1>5, <1>6 DEF Kept
<1>8. QED
  BY <1>7 DEF f, s

LEMMA EventsKeepLimit ==
    ASSUME NEW B, NEW b \in Seq(B), NEW over \in BOOLEAN, NEW max \in Nat \ {0}
    PROVE  LET top == Len(b) + 1
               C == Reads(b, over, max) \cup Reads(b, over, top)
           IN /\ Kept(readEvents(b, over, top), readEvents(b, over, max), max)
              /\ readEvents(b, over, top) \in Seq(C) /\ readEvents(b, over, max) \in Seq(C)
              /\ \A i \in 1..Len(readEvents(b, over, top)) :
                     readEvents(b, over, top)[i].result = "blocks" => ~over
<1> DEFINE N == Len(b)
           top == N + 1
           C == Reads(b, over, max) \cup Reads(b, over, top)
<1>1. N \in Nat /\ top \in Int /\ max \in Int /\ max \in Nat /\ Len(b) + 1 \in Int
  OBVIOUS
<1>2. PICK F : EventsSolve(F, b, over, max) /\ readEvents(b, over, max) = F[1]
  BY <1>1, EventsScans
<1>3. PICK G : EventsSolve(G, b, over, top) /\ readEvents(b, over, top) = G[1]
  BY <1>1, EventsScans
<1> DEFINE S == {p \in 1..(N + 1) : Kept(G[p], F[p], max)}
<1>4. ASSUME NEW p \in 1..(N + 1)
      PROVE  /\ F[p] \in Seq(C) /\ Len(F[p]) > 0
             /\ G[p] \in Seq(C) /\ Len(G[p]) > 0 /\ G[p] \in Seq(Reads(b, over, top))
  <2>1. F[p] \in Seq(Reads(b, over, max)) /\ Len(F[p]) > 0
    BY <1>1, <1>2, EventsType
  <2>2. G[p] \in Seq(Reads(b, over, top)) /\ Len(G[p]) > 0
    BY <1>1, <1>3, EventsType
  <2>3. Reads(b, over, max) \subseteq C /\ Reads(b, over, top) \subseteq C
    OBVIOUS
  <2>4. Seq(Reads(b, over, max)) \subseteq Seq(C) /\ Seq(Reads(b, over, top)) \subseteq Seq(C)
    BY <2>3, SeqMonotonic, Zenon
  <2>5. QED
    BY <2>1, <2>2, <2>4
<1>5. ASSUME NEW p \in 1..(N + 1), \A q \in (p + 1)..(N + 1) : q \in S PROVE p \in S
  <2> DEFINE r == readSSEEvent(b, over, p, max)
             g == readSSEEvent(b, over, p, top)
             q == p + g.n
  <2>1. Limited(r, g, max)
    BY <1>1, EventKeepsLimit
  <2>2. r \in C /\ g \in C
    BY <1>1 DEF Reads
  <2>3. F[p] = EventsAt(F, b, over, max, p) /\ G[p] = EventsAt(G, b, over, top, p)
    BY <1>1, <1>2, <1>3 DEF EventsSolve
  <2>4. g.result \in EventResults => g.n \in Nat \ {0} /\ p + g.n <= Len(b) + 1
    BY <1>1, EventTakes
  <2>5. /\ r.result \in EventResults => F[p] = <<r>> \o F[p + r.n]
        /\ r.result \notin EventResults => F[p] = <<r>>
    BY <2>3, Zenon DEF EventsAt, EventResults
  <2>6. /\ g.result \in EventResults => G[p] = <<g>> \o G[q]
        /\ g.result \notin EventResults => G[p] = <<g>>
    BY <2>3, Zenon DEF EventsAt, EventResults
  <2>7. G[p] \in Seq(C) /\ Len(G[p]) > 0
    BY <1>4
  <2>8. g.result \in EventResults => q \in (p + 1)..(N + 1) /\ q \in 1..(N + 1)
    BY <1>1, <2>4
  <2>9. g.result \in EventResults => Kept(G[q], F[q], max) /\ F[q] \in Seq(C) /\ G[q] \in Seq(C)
    <3> HIDE DEF q
    <3>1. g.result \in EventResults => Kept(G[q], F[q], max)
      BY <1>5, <2>8
    <3>2. g.result \in EventResults => F[q] \in Seq(C) /\ G[q] \in Seq(C)
      <4> HIDE DEF C
      <4>1. QED
        BY <1>4, <2>8
    <3>3. QED
      BY <3>1, <3>2
  <2> HIDE DEF r, g, C
  <2>10. G[p][1] = g
    <3>1. CASE g.result \in EventResults
      <4>1. G[p] = <<g>> \o G[q] /\ G[q] \in Seq(C)
        BY <2>6, <2>9, <3>1
      <4>2. QED
        BY <2>2, <4>1
    <3>2. CASE g.result \notin EventResults
      <4>1. G[p] = <<g>>
        BY <2>6, <3>2
      <4>2. QED
        BY <4>1
    <3>3. QED
      BY <3>1, <3>2
  <2>11. CASE r.result \in EventResults
    <3>1. r = g /\ r.n <= max + 1
      BY <2>1, <2>11 DEF Limited, EventResults
    <3>2. F[p] = <<g>> \o F[q] /\ G[p] = <<g>> \o G[q]
      BY <2>5, <2>6, <2>11, <3>1
    <3>3. Kept(<<g>> \o G[q], <<g>> \o F[q], max)
      BY <1>1, <2>2, <2>9, <2>11, <3>1, KeptAfterOne
    <3>4. Kept(G[p], F[p], max)
      BY <3>2, <3>3
    <3>5. QED
      BY <3>4
  <2>12. CASE r.result \notin EventResults
    <3>1. F[p] = <<r>>
      BY <2>5, <2>12
    <3>2. Kept(G[p], <<r>>, max)
      BY <1>1, <2>1, <2>2, <2>7, <2>10, KeptOfOne
    <3>3. Kept(G[p], F[p], max)
      BY <3>1, <3>2
    <3>4. QED
      BY <3>3
  <2>13. QED
    BY <2>11, <2>12
<1>6. N + 1 \in S
  <2>1. N + 1 \in 1..(N + 1) /\ \A q \in (N + 1 + 1)..(N + 1) : q \in S
    BY <1>1
  <2> HIDE DEF S
  <2>2. QED
    BY <1>5, <2>1
<1>7. ASSUME NEW i \in 1..N, (i + 1)..(N + 1) \subseteq S PROVE i \in S
  <2>1. i \in 1..(N + 1) /\ \A q \in (i + 1)..(N + 1) : q \in S
    BY <1>1, <1>7
  <2> HIDE DEF S
  <2>2. QED
    BY <1>5, <2>1
<1>8. 1 \in 1..(N + 1) /\ Kept(G[1], F[1], max)
  <2>1. 1..(N + 1) \subseteq S
    <3> HIDE DEF S
    <3>1. QED
      BY <1>1, <1>6, <1>7, DownwardInduction
  <2>2. QED
    BY <1>1, <2>1
<1>9. F[1] \in Seq(C) /\ G[1] \in Seq(C) /\ G[1] \in Seq(Reads(b, over, top))
  BY <1>4, <1>8
<1>10. \A i \in 1..Len(G[1]) : G[1][i].result = "blocks" => ~over
  <2>1. ASSUME NEW i \in 1..Len(G[1]) PROVE G[1][i].result = "blocks" => ~over
    <3>1. G[1][i] \in Reads(b, over, top)
      BY <1>9
    <3>2. PICK p \in 1..(Len(b) + 1) : G[1][i] = readSSEEvent(b, over, p, top)
      BY <3>1 DEF Reads
    <3>3. readSSEEvent(b, over, p, top).result = "blocks" => ~over
      BY EventKeepsLimit
    <3>4. QED
      BY <3>2, <3>3
  <2>2. QED
    BY <2>1
<1>11. QED
  BY <1>2, <1>3, <1>8, <1>9, <1>10

LEMMA KeptMeansIt ==
    ASSUME NEW C, NEW free \in Seq(C), NEW reads \in Seq(C), NEW max \in Nat, Kept(free, reads, max),
           \A i \in 1..Len(free) : free[i].result # "blocks"
    PROVE  limitKept(free, reads, max)
<1> DEFINE front == Front(reads)
           n == Len(reads) - 1
<1>1. Len(reads) \in 1..Len(free) /\ Len(free) \in Nat /\ n \in 0..Len(reads) /\ DOMAIN reads = 1..Len(reads)
  BY DEF Kept
<1>2. front \in Seq(C) /\ Len(front) = n /\ \A i \in 1..n : front[i] = reads[i]
  <2>1. \A i \in 1..n : reads[i] \in C
    BY <1>1
  <2> HIDE DEF n
  <2>2. /\ SubSeq(reads, 1, n) \in Seq(C)
        /\ Len(SubSeq(reads, 1, n)) = (IF 1 <= n THEN n - 1 + 1 ELSE 0)
        /\ \A i \in 1..(n - 1 + 1) : SubSeq(reads, 1, n)[i] = reads[1 + i - 1]
    BY <1>1, <2>1, SubSeqProperties
  <2>3. front = SubSeq(reads, 1, n)
    BY DEF Front, n
  <2> HIDE DEF front
  <2>4. QED
    BY <1>1, <2>2, <2>3
<1>3. IsPrefix(front, free)
  <2>1. \A i \in 1..n : reads[i] = free[i]
    BY DEF Kept
  <2> HIDE DEF front, n
  <2>2. Len(front) <= Len(free) /\ \A m \in 1..Len(front) : front[m] = free[m]
    BY <1>1, <1>2, <2>1
  <2>3. QED
    BY <1>2, <2>2, AgreeingIsPrefix
<1>4. \A i \in DOMAIN reads : reads[i].n <= max + 1
  BY <1>1 DEF Kept
<1>5. Last(reads).result = "limit" =>
          LET last == free[Len(reads)]
          IN last.n > max \/ (last.result = "eof" /\ last.n = max)
  <2>1. free[Len(reads)].result # "blocks"
    BY <1>1
  <2>2. QED
    BY <2>1 DEF Kept, Last
<1>6. QED
  BY <1>3, <1>4, <1>5 DEF limitKept

\* s is the beginning of t.
StartOf(s, t) == Len(s) <= Len(t) /\ \A k \in 1..Len(s) : t[k] = s[k]

LEMMA Regroup ==
    ASSUME NEW S, NEW x \in S, NEW s \in Seq(S), NEW t \in Seq(S)
    PROVE  (<<x>> \o s) \o t = <<x>> \o (s \o t)
<1>1. <<x>> \in Seq(S)
  OBVIOUS
<1>2. QED
  BY <1>1, ConcatAssociative

\* The numbers of a, after those of b.
GrowsFrom(b, a) == \E r \in Seq(Nat) : a = b \o r

\* Positions that come after all of S change nothing of its order.
LEMMA InOrderGrows ==
    ASSUME NEW n \in Nat, NEW m \in Nat, n <= m, NEW T
    PROVE  GrowsFrom(InOrder(T \cap 1..n, n), InOrder(T, m))
<1> DEFINE S == T \cap 1..n
<1> HIDE DEF S
<1>1. PICK F : OrderSolves(F, T, m) /\ InOrder(T, m) = F[1]
  BY InOrderScans
<1>2. PICK G : OrderSolves(G, S, n) /\ InOrder(S, n) = G[1]
  BY InOrderScans
<1> DEFINE U == {i \in 1..(m + 1) : F[i] \in Seq(Nat)}
           V == {i \in 1..(n + 1) : G[i] \in Seq(Nat) /\ F[i] = G[i] \o F[n + 1]}
<1>3. m + 1 \in U
  <2>1. m + 1 \in 1..(m + 1) /\ m + 1 > m
    OBVIOUS
  <2>2. F[m + 1] = <<>>
    BY <1>1, <2>1, Zenon DEF OrderSolves, OrderAt
  <2>3. <<>> \in Seq(Nat)
    OBVIOUS
  <2>4. QED
    BY <2>1, <2>2, <2>3
<1>4. ASSUME NEW i \in 1..m, (i + 1)..(m + 1) \subseteq U PROVE i \in U
  <2>1. i + 1 \in (i + 1)..(m + 1) /\ i \in 1..(m + 1) /\ ~(i > m) /\ <<i>> \in Seq(Nat)
    OBVIOUS
  <2>2. F[i + 1] \in Seq(Nat)
    BY <1>4, <2>1
  <2>3. F[i] = IF i \in T THEN <<i>> \o F[i + 1] ELSE F[i + 1]
    BY <1>1, <2>1, Zenon DEF OrderSolves, OrderAt
  <2>4. <<i>> \o F[i + 1] \in Seq(Nat)
    BY <2>1, <2>2
  <2>5. F[i] \in Seq(Nat)
    BY <2>2, <2>3, <2>4, Zenon
  <2>6. QED
    BY <2>1, <2>5
<1>5. 1..(m + 1) \subseteq U
  <2> HIDE DEF U
  <2>1. QED
    BY <1>3, <1>4, DownwardInduction
<1>6. n + 1 \in 1..(m + 1)
  OBVIOUS
<1>7. F[n + 1] \in Seq(Nat)
  BY <1>5, <1>6
<1>8. n + 1 \in V
  <2>1. n + 1 \in 1..(n + 1) /\ n + 1 > n
    OBVIOUS
  <2>2. G[n + 1] = <<>>
    BY <1>2, <2>1, Zenon DEF OrderSolves, OrderAt
  <2>3. <<>> \in Seq(Nat) /\ F[n + 1] = <<>> \o F[n + 1]
    BY <1>7
  <2>4. QED
    BY <2>1, <2>2, <2>3
<1>9. ASSUME NEW i \in 1..n, (i + 1)..(n + 1) \subseteq V PROVE i \in V
  <2>1. i + 1 \in (i + 1)..(n + 1) /\ i \in 1..(n + 1) /\ i \in 1..(m + 1) /\ ~(i > n) /\ ~(i > m)
         /\ <<i>> \in Seq(Nat)
    OBVIOUS
  <2>2. G[i + 1] \in Seq(Nat) /\ F[i + 1] = G[i + 1] \o F[n + 1]
    BY <1>9, <2>1
  <2>3. F[i] = IF i \in T THEN <<i>> \o F[i + 1] ELSE F[i + 1]
    BY <1>1, <2>1, Zenon DEF OrderSolves, OrderAt
  <2>4. G[i] = IF i \in S THEN <<i>> \o G[i + 1] ELSE G[i + 1]
    BY <1>2, <2>1, Zenon DEF OrderSolves, OrderAt
  <2>5. i \in T <=> i \in S
    BY DEF S
  <2>6. /\ <<i>> \o G[i + 1] \in Seq(Nat)
        /\ <<i>> \o (G[i + 1] \o F[n + 1]) = (<<i>> \o G[i + 1]) \o F[n + 1]
    <3>1. <<i>> \o G[i + 1] \in Seq(Nat)
      BY <2>1, <2>2
    <3>2. (<<i>> \o G[i + 1]) \o F[n + 1] = <<i>> \o (G[i + 1] \o F[n + 1])
      <4> DEFINE g == G[i + 1]
                 h == F[n + 1]
      <4>1. i \in Nat /\ g \in Seq(Nat) /\ h \in Seq(Nat)
        BY <1>7, <2>2
      <4> HIDE DEF g, h
      <4>2. (<<i>> \o g) \o h = <<i>> \o (g \o h)
        BY <4>1, Regroup
      <4>3. QED
        BY <4>2 DEF g, h
    <3>3. QED
      BY <3>1, <3>2, Zenon
  <2>7. G[i] \in Seq(Nat) /\ F[i] = G[i] \o F[n + 1]
    BY <2>2, <2>3, <2>4, <2>5, <2>6, Zenon
  <2>8. QED
    BY <2>1, <2>7
<1>10. 1..(n + 1) \subseteq V
  <2> HIDE DEF V
  <2>1. QED
    BY <1>8, <1>9, DownwardInduction
<1>11. 1 \in 1..(n + 1)
  OBVIOUS
<1>12. F[1] = G[1] \o F[n + 1]
  BY <1>10, <1>11
<1>13. InOrder(T, m) = InOrder(S, n) \o F[n + 1]
  BY <1>1, <1>2, <1>12, Zenon
<1>14. QED
  BY <1>7, <1>13, Zenon DEF GrowsFrom, S

LEMMA OrderBegins ==
    ASSUME NEW n \in Nat, NEW m \in Nat, n <= m, NEW T, T \subseteq 1..m
    PROVE  StartOf(<<0>> \o InOrder(T \cap 1..n, n), <<0>> \o InOrder(T, m))
<1> DEFINE S == T \cap 1..n
<1>0. PICK r \in Seq(Nat) : InOrder(T, m) = InOrder(S, n) \o r
  <2>1. GrowsFrom(InOrder(T \cap 1..n, n), InOrder(T, m))
    BY InOrderGrows
  <2>2. QED
    BY <2>1, Zenon DEF GrowsFrom, S
<1>9. S \subseteq 1..n
  OBVIOUS
<1> HIDE DEF S
<1> DEFINE s == InOrder(S, n)
           t == InOrder(T, m)
<1>1. t = s \o r
  BY <1>0
<1>2. s \in Seq(Nat)
  <2>1. S \subseteq Nat
    BY <1>9
  <2>2. Lists(s, S)
    BY <1>9, InOrderLists, Zenon
  <2>3. s \in Seq(S)
    BY <2>2, Zenon DEF Lists
  <2>4. QED
    BY <2>1, <2>3, SeqMonotonic, Zenon
<1> HIDE DEF s, t
<1>3. <<0>> \o t = (<<0>> \o s) \o r /\ <<0>> \o s \in Seq(Nat)
  <2>1. <<0>> \in Seq(Nat)
    OBVIOUS
  <2>2. <<0>> \o s \in Seq(Nat)
    BY <1>2, <2>1
  <2>3. (<<0>> \o s) \o r = <<0>> \o (s \o r)
    BY <1>2, Regroup, 0 \in Nat
  <2>4. QED
    BY <1>1, <2>2, <2>3, Zenon
<1> DEFINE u == <<0>> \o s
<1>4. u \in Seq(Nat) /\ <<0>> \o t = u \o r
  BY <1>3
<1> HIDE DEF u
<1>5. StartOf(u, u \o r)
  <2>1. Len(u) \in Nat /\ Len(r) \in Nat
    BY <1>4
  <2>2. Len(u \o r) = Len(u) + Len(r) /\ \A k \in 1..Len(u) : (u \o r)[k] = u[k]
    BY <1>4
  <2> DEFINE w == u \o r
  <2>3. Len(w) = Len(u) + Len(r) /\ \A k \in 1..Len(u) : w[k] = u[k]
    BY <2>2
  <2> HIDE DEF w
  <2>4. StartOf(u, w)
    BY <2>1, <2>3 DEF StartOf
  <2>5. QED
    BY <2>4 DEF w
<1>6. StartOf(u, <<0>> \o t)
  BY <1>4, <1>5, Zenon
<1>7. QED
  BY <1>6, Zenon DEF u, s, t, S

\* Lines end in t where they do in u.
Precedes(t, u) == StartOf(t, u) /\ endings(t) = endings(u) \cap 1..Len(t)

\* The lines of the one are the first lines of the other.
LEMMA LinesBegin ==
    ASSUME NEW B, NEW t \in Seq(B), NEW u \in Seq(B), Precedes(t, u)
    PROVE  StartOf(StandardLines(t), StandardLines(u))
<1> DEFINE N == lineEndings(t)
           M == lineEndings(u)
           isCRLF(b, j) == j > 1 /\ b[j] = "LF" /\ b[j - 1] = "CR"
           width(b, j) == IF isCRLF(b, j) THEN 2 ELSE 1
           K == StandardLines(t)
           L == StandardLines(u)
<1>1. /\ Len(t) \in Nat /\ Len(u) \in Nat /\ Len(t) <= Len(u) /\ \A k \in 1..Len(t) : u[k] = t[k]
      /\ endings(t) = endings(u) \cap 1..Len(t) /\ endings(u) \subseteq 1..Len(u)
  BY DEF Precedes, StartOf, endings
<1>2. StartOf(N, M)
  <2>1. N = <<0>> \o InOrder(endings(u) \cap 1..Len(t), Len(t))
    <3>1. N = <<0>> \o InOrder(endings(t), Len(t))
      BY DEF lineEndings, endings
    <3>2. QED
      BY <1>1, <3>1
  <2>2. M = <<0>> \o InOrder(endings(u), Len(u))
    BY DEF lineEndings, endings
  <2>3. QED
    BY <1>1, <2>1, <2>2, OrderBegins
<1>3. /\ K = [k \in 1..(Len(N) - 1) |-> SubSeq(t, N[k] + 1, N[k + 1] - width(t, N[k + 1]))]
      /\ L = [k \in 1..(Len(M) - 1) |-> SubSeq(u, M[k] + 1, M[k + 1] - width(u, M[k + 1]))]
  BY DEF StandardLines
<1>4. Borders(N, endings(t), Len(t)) /\ Borders(M, endings(u), Len(u))
  BY LineEndingsBorder
<1> HIDE DEF N, M
<1>5. /\ N \in Seq(0..Len(t)) /\ Len(N) >= 1 /\ Len(M) >= 1 /\ Len(N) \in Nat /\ Len(M) \in Nat
      /\ \A k \in 1..(Len(N) - 1) : N[k + 1] \in 1..Len(t) /\ N[k] \in 0..Len(t)
  <2>1. N \in Seq(0..Len(t)) /\ Len(N) >= 1 /\ M \in Seq(0..Len(u)) /\ Len(M) >= 1
    BY <1>4 DEF Borders
  <2>2. Len(N) \in Nat /\ Len(M) \in Nat /\ \A k \in 1..Len(N) : N[k] \in 0..Len(t)
    BY <2>1
  <2>3. ASSUME NEW k \in 1..(Len(N) - 1) PROVE N[k + 1] \in 1..Len(t) /\ N[k] \in 0..Len(t)
    <3>1. N[k + 1] \in endings(t)
      BY <1>4 DEF Borders
    <3>2. k \in 1..Len(N)
      BY <2>2
    <3>3. QED
      BY <1>1, <2>2, <3>1, <3>2
  <2>4. QED
    BY <2>1, <2>2, <2>3
<1>6. Len(N) <= Len(M) /\ \A k \in 1..Len(N) : M[k] = N[k]
  BY <1>2 DEF StartOf
<1>7. ASSUME NEW k \in 1..(Len(N) - 1) PROVE L[k] = K[k]
  <2>1. k \in 1..Len(N) /\ k + 1 \in 1..Len(N) /\ k \in 1..(Len(M) - 1)
    BY <1>5, <1>6
  <2>2. M[k] = N[k] /\ M[k + 1] = N[k + 1]
    BY <1>6, <2>1
  <2> DEFINE e == N[k + 1]
             from == N[k] + 1
  <2>3. e \in 1..Len(t) /\ N[k] \in 0..Len(t) /\ N[k] < e /\ from \in 1..(Len(t) + 1)
    <3>1. N[k] < N[k + 1]
      BY <1>4 DEF Borders
    <3>2. N[k + 1] \in 1..Len(t) /\ N[k] \in 0..Len(t)
      BY <1>5
    <3> DEFINE a == N[k]
               c == N[k + 1]
    <3>3. a < c /\ c \in 1..Len(t) /\ a \in 0..Len(t)
      BY <3>1, <3>2
    <3> HIDE DEF a, c
    <3>4. a + 1 \in 1..(Len(t) + 1)
      BY <1>1, <3>3
    <3>5. QED
      BY <3>3, <3>4 DEF a, c
  <2> HIDE DEF e, from
  <2>4. isCRLF(u, e) <=> isCRLF(t, e)
    <3>1. CASE e > 1
      <4>1. e - 1 \in 1..Len(t)
        BY <1>1, <2>3, <3>1
      <4>2. u[e] = t[e] /\ u[e - 1] = t[e - 1]
        BY <1>1, <2>3, <4>1
      <4>3. QED
        BY <4>2
    <3>2. QED
      BY <3>1
  <2>5. width(u, e) = width(t, e) /\ width(t, e) \in {1, 2} /\ (width(t, e) = 2 => e > 1)
    BY <2>4
  <2> HIDE DEF width
  <2>6. e - width(t, e) \in 0..Len(t)
    BY <1>1, <2>3, <2>5
  <2>7. SubSeq(u, from, e - width(t, e)) = SubSeq(t, from, e - width(t, e))
    BY <1>1, <2>3, <2>6, SameStretch
  <2>8. L[k] = SubSeq(u, from, e - width(u, e))
    BY <1>3, <2>1, <2>2 DEF e, from
  <2>9. K[k] = SubSeq(t, from, e - width(t, e))
    BY <1>3 DEF e, from
  <2>10. QED
    BY <2>5, <2>7, <2>8, <2>9, Zenon
<1>8. /\ K \in Seq(Seq(B)) /\ L \in Seq(Seq(B)) /\ Len(N) = Len(K) + 1 /\ Len(M) = Len(L) + 1
  <2>1. ASSUME NEW over \in BOOLEAN, over
        PROVE  /\ K \in Seq(Seq(B)) /\ L \in Seq(Seq(B))
               /\ Len(N) = Len(K) + 1 /\ Len(M) = Len(L) + 1
    <3>1. ToBeRead(t, t, over) /\ ToBeRead(u, u, over)
      BY <2>1 DEF ToBeRead
    <3>2. K \in Seq(Seq(B)) /\ Len(N) = Len(K) + 1
      BY <3>1, LinesType DEF N
    <3>3. L \in Seq(Seq(B)) /\ Len(M) = Len(L) + 1
      BY <3>1, LinesType DEF M
    <3>4. QED
      BY <3>2, <3>3
  <2>2. QED
    BY <2>1, Zenon
<1> HIDE DEF K, L
<1>9. Len(K) <= Len(L) /\ \A k \in 1..Len(K) : L[k] = K[k]
  <2>1. Len(K) \in Nat /\ Len(L) \in Nat
    BY <1>8
  <2>2. QED
    BY <1>6, <1>7, <1>8, <2>1
<1>10. QED
  BY <1>9 DEF StartOf, K, L

\* Two sequences with the same lines from first to last.
SameLines(K, L, first, last) == \A k \in first..last : L[k] = K[k]

LEMMA SameData ==
    ASSUME NEW K, NEW L, NEW first \in Nat \ {0}, NEW last \in Nat, SameLines(K, L, first, last)
    PROVE  dataOf(L, first, last) = dataOf(K, first, last)
<1> DEFINE S == {k \in first..last : K[k][1] = "data:"}
           fields == InOrder(S, last)
<1>0. \A k \in first..last : L[k] = K[k]
  BY DEF SameLines
<1>1. {k \in first..last : L[k][1] = "data:"} = S
  BY <1>0
<1>2. /\ dataOf(K, first, last) = [i \in DOMAIN fields |-> Tail(K[fields[i]])]
      /\ dataOf(L, first, last) = [i \in DOMAIN fields |-> Tail(L[fields[i]])]
  BY <1>1, Zenon DEF dataOf
<1>3. S \subseteq 1..last /\ S \subseteq first..last
  OBVIOUS
<1> HIDE DEF S
<1>4. Lists(fields, S)
  BY <1>3, InOrderLists
<1> HIDE DEF fields
<1>5. \A i \in DOMAIN fields : fields[i] \in first..last
  <2>1. fields \in Seq(S)
    BY <1>4, Zenon DEF Lists
  <2>2. \A i \in DOMAIN fields : fields[i] \in S
    BY <2>1
  <2>3. QED
    BY <1>3, <2>2
<1>6. \A i \in DOMAIN fields : L[fields[i]] = K[fields[i]]
  BY <1>0, <1>5, Zenon
<1>7. QED
  BY <1>2, <1>6

\* The events of the one are the first events of the other.
LEMMA EventsBegin ==
    ASSUME NEW B, NEW t \in Seq(B), NEW u \in Seq(B), Precedes(t, u)
    PROVE  StartOf(StandardEvents(t), StandardEvents(u))
<1> DEFINE K == StandardLines(t)
           L == StandardLines(u)
           N == emptyLines(K)
           M == emptyLines(L)
           D == StandardEvents(t)
           E == StandardEvents(u)
<1>1. StartOf(K, L)
  BY LinesBegin
<1>2. K \in Seq(Seq(B)) /\ L \in Seq(Seq(B))
  <2>1. ASSUME NEW over \in BOOLEAN, over PROVE K \in Seq(Seq(B)) /\ L \in Seq(Seq(B))
    <3>1. ToBeRead(t, t, over) /\ ToBeRead(u, u, over)
      BY <2>1 DEF ToBeRead
    <3>2. K \in Seq(Seq(B))
      BY <3>1, LinesType
    <3>3. L \in Seq(Seq(B))
      BY <3>1, LinesType
    <3>4. QED
      BY <3>2, <3>3
  <2>2. QED
    BY <2>1, Zenon
<1>3. /\ D = [e \in 1..(Len(N) - 1) |-> dataOf(K, N[e] + 1, N[e + 1] - 1)]
      /\ E = [e \in 1..(Len(M) - 1) |-> dataOf(L, M[e] + 1, M[e + 1] - 1)]
  BY DEF StandardEvents
<1> HIDE DEF K, L, D, E
<1>4. /\ Len(K) \in Nat /\ Len(L) \in Nat /\ Len(K) <= Len(L)
      /\ \A k \in 1..Len(K) : L[k] = K[k]
      /\ DOMAIN K = 1..Len(K) /\ DOMAIN L = 1..Len(L)
  <2> HIDE DEF N, M
  <2>1. Len(K) \in Nat /\ Len(L) \in Nat /\ DOMAIN K = 1..Len(K) /\ DOMAIN L = 1..Len(L)
    BY <1>2
  <2>2. Len(K) <= Len(L) /\ \A k \in 1..Len(K) : L[k] = K[k]
    BY <1>1, Zenon DEF StartOf
  <2>3. QED
    BY <2>1, <2>2
<1>5. StartOf(N, M)
  <2>1. EmptyLines(K) = EmptyLines(L) \cap 1..Len(K) /\ EmptyLines(L) \subseteq 1..Len(L)
    BY <1>4 DEF EmptyLines
  <2>2. N = <<0>> \o InOrder(EmptyLines(K), Len(K)) /\ M = <<0>> \o InOrder(EmptyLines(L), Len(L))
    BY Zenon DEF emptyLines, EmptyLines
  <2>3. N = <<0>> \o InOrder(EmptyLines(L) \cap 1..Len(K), Len(K))
    BY <2>1, <2>2, Zenon
  <2>4. StartOf(<<0>> \o InOrder(EmptyLines(L) \cap 1..Len(K), Len(K)), <<0>> \o InOrder(EmptyLines(L), Len(L)))
    BY <1>4, <2>1, OrderBegins
  <2>5. QED
    BY <2>2, <2>3, <2>4, Zenon
<1>6. Borders(N, EmptyLines(K), Len(K)) /\ Borders(M, EmptyLines(L), Len(L))
  BY <1>2, EmptyLinesBorder
<1> HIDE DEF N, M
<1>7. /\ Len(N) \in Nat /\ Len(N) >= 1 /\ Len(M) \in Nat /\ Len(M) >= 1
      /\ \A k \in 1..Len(N) : N[k] \in 0..Len(K)
  <2>1. N \in Seq(0..Len(K)) /\ Len(N) >= 1 /\ M \in Seq(0..Len(L)) /\ Len(M) >= 1
    BY <1>6 DEF Borders
  <2>2. QED
    BY <2>1
<1>8. Len(N) <= Len(M) /\ \A k \in 1..Len(N) : M[k] = N[k]
  BY <1>5 DEF StartOf
<1>9. ASSUME NEW e \in 1..(Len(N) - 1) PROVE E[e] = D[e]
  <2>1. e \in 1..Len(N) /\ e + 1 \in 1..Len(N) /\ e \in 1..(Len(M) - 1)
    BY <1>7, <1>8
  <2> DEFINE first == N[e] + 1
             last == N[e + 1] - 1
  <2>2. N[e] < N[e + 1]
    BY <1>6 DEF Borders
  <2>3. first \in Nat \ {0} /\ last \in Nat /\ last <= Len(K)
    BY <1>4, <1>7, <2>1, <2>2
  <2>4. M[e] = N[e] /\ M[e + 1] = N[e + 1]
    BY <1>8, <2>1
  <2>5. E[e] = dataOf(L, first, last) /\ D[e] = dataOf(K, first, last)
    BY <1>3, <2>1, <2>4
  <2> HIDE DEF first, last
  <2>6. \A k \in first..last : L[k] = K[k]
    BY <1>4, <2>3
  <2>7. dataOf(L, first, last) = dataOf(K, first, last)
    <3>1. first \in Nat \ {0} /\ last \in Nat
      BY <2>3
    <3>2. SameLines(K, L, first, last)
      BY <2>6, Zenon DEF SameLines
    <3>3. QED
      BY <3>1, <3>2, SameData
  <2>8. QED
    BY <2>5, <2>7, Zenon
<1>10. Len(D) = Len(N) - 1 /\ Len(E) = Len(M) - 1
  BY <1>3, <1>7
<1>11. StartOf(D, E)
  BY <1>7, <1>8, <1>9, <1>10 DEF StartOf
<1>12. QED
  BY <1>11, Zenon DEF D, E

\* What there was to be read of the bytes that had come first.
LEMMA FirstBytes ==
    ASSUME NEW B, NEW c \in Seq(B), NEW b \in Seq(B), StartOf(c, b),
           NEW goesOn \in BOOLEAN, ~goesOn, NEW over \in BOOLEAN,
           NEW t, NEW u, ToBeRead(t, c, goesOn), ToBeRead(u, b, over), over \/ c # b
    PROVE  Precedes(t, u)
<1>1. /\ t \in Seq(B) /\ Len(t) \in {Len(c), Len(c) - 1} /\ Len(t) \in Nat /\ Len(c) \in Nat
      /\ \A j \in 1..Len(t) : t[j] = c[j]
      /\ Len(t) = Len(c) => c = <<>> \/ c[Len(c)] # "CR"
      /\ Len(t) = Len(c) - 1 => Len(c) > 0 /\ c[Len(c)] = "CR"
  BY ReadableBytes
<1>2. /\ u \in Seq(B) /\ Len(u) \in {Len(b), Len(b) - 1} /\ Len(u) \in Nat /\ Len(b) \in Nat
      /\ \A j \in 1..Len(u) : u[j] = b[j]
      /\ Len(u) = Len(b) - 1 => ~over
  BY ReadableBytes
<1>3. Len(c) <= Len(b) /\ \A k \in 1..Len(c) : b[k] = c[k]
  BY DEF StartOf
<1>4. Len(t) <= Len(u)
  <2>1. CASE over
    BY <1>1, <1>2, <1>3, <2>1
  <2>2. CASE c # b
    <3>1. Len(c) # Len(b)
      <4>1. Len(c) = Len(b) => c = b
        BY <1>3, SeqEqual
      <4>2. QED
        BY <2>2, <4>1
    <3>2. QED
      BY <1>1, <1>2, <1>3, <3>1
  <2>3. QED
    BY <2>1, <2>2
<1>5. \A j \in 1..Len(t) : u[j] = t[j]
  BY <1>1, <1>2, <1>3, <1>4
<1>6. ASSUME NEW j \in 1..Len(t) PROVE j \in endings(t) <=> j \in endings(u)
  <2>1. u[j] = t[j] /\ j \in DOMAIN t /\ j \in DOMAIN u
    BY <1>1, <1>2, <1>4, <1>5
  <2>2. CASE j < Len(t)
    <3>1. j + 1 \in 1..Len(t) /\ j < Len(u)
      BY <1>1, <1>2, <1>4, <2>2
    <3>2. u[j + 1] = t[j + 1]
      BY <1>5, <3>1
    <3>3. QED
      BY <2>1, <2>2, <3>1, <3>2 DEF endings, FollowedByLF
  <2>3. CASE j = Len(t)
    <3>1. ~FollowedByLF(t, j)
      BY <1>1, <2>3 DEF FollowedByLF
    <3>2. ASSUME t[j] = "CR" PROVE ~FollowedByLF(u, j)
      <4>1. Len(t) # Len(c)
        BY <1>1, <2>3, <3>2
      <4>2. j + 1 = Len(c) /\ c[j + 1] = "CR" /\ j + 1 \in 1..Len(c)
        BY <1>1, <2>3, <4>1
      <4>3. b[j + 1] = "CR"
        BY <1>3, <4>2
      <4>4. j < Len(u) => j + 1 \in 1..Len(u)
        BY <1>2, <4>2
      <4>5. QED
        BY <1>2, <4>3, <4>4 DEF FollowedByLF
    <3>3. QED
      BY <2>1, <3>1, <3>2 DEF endings
  <2>4. QED
    BY <1>1, <2>2, <2>3
<1>7. endings(t) = endings(u) \cap 1..Len(t)
  <2>1. endings(t) \subseteq 1..Len(t)
    BY <1>1 DEF endings
  <2>2. QED
    BY <1>6, <2>1
<1>8. QED
  BY <1>4, <1>5, <1>7 DEF Precedes, StartOf

LEMMA PrecedesItself ==
    ASSUME NEW B, NEW t \in Seq(B)
    PROVE  Precedes(t, t)
<1>1. Len(t) \in Nat /\ endings(t) \subseteq 1..Len(t)
  BY DEF endings
<1>2. QED
  BY <1>1 DEF Precedes, StartOf

LEMMA StandardType ==
    ASSUME NEW B, NEW t \in Seq(B)
    PROVE  StandardEvents(t) \in Seq(Seq(Seq(B)))
<1> DEFINE L == StandardLines(t)
           N == emptyLines(L)
           E == StandardEvents(t)
           n == Len(N) - 1
<1>1. L \in Seq(Seq(B))
  <2>1. ASSUME NEW over \in BOOLEAN, over PROVE L \in Seq(Seq(B))
    <3>1. ToBeRead(t, t, over)
      BY <2>1 DEF ToBeRead
    <3>2. QED
      BY <3>1, LinesType
  <2>2. QED
    BY <2>1, Zenon
<1>2. E = [e \in 1..n |-> dataOf(L, N[e] + 1, N[e + 1] - 1)]
  BY DEF StandardEvents
<1> HIDE DEF L, E
<1>3. Borders(N, EmptyLines(L), Len(L))
  BY <1>1, EmptyLinesBorder
<1> HIDE DEF N
<1>4. Len(L) \in Nat /\ DOMAIN L = 1..Len(L) /\ n \in Nat /\ \A k \in 1..Len(N) : N[k] \in 0..Len(L)
  <2>1. N \in Seq(0..Len(L)) /\ Len(N) >= 1
    BY <1>3 DEF Borders
  <2>2. QED
    BY <1>1, <2>1
<1>5. ASSUME NEW e \in 1..n PROVE E[e] \in Seq(Seq(B))
  <2> DEFINE first == N[e] + 1
             last == N[e + 1] - 1
  <2>1. e \in 1..Len(N) /\ e + 1 \in 1..Len(N)
    BY <1>4
  <2>2. N[e] < N[e + 1] /\ \A x \in EmptyLines(L) : ~(N[e] < x /\ x < N[e + 1])
    BY <1>3 DEF Borders
  <2>3. first \in 1..(last + 1) /\ last \in 0..Len(L)
    BY <1>4, <2>1, <2>2
  <2>4. \A k \in first..last : L[k] # <<>>
    <3>1. ASSUME NEW k \in first..last PROVE L[k] # <<>>
      <4>1. N[e] < k /\ k < N[e + 1] /\ k \in DOMAIN L
        BY <1>4, <2>1, <2>3
      <4>2. k \notin EmptyLines(L)
        BY <2>2, <4>1
      <4>3. QED
        BY <4>1, <4>2 DEF EmptyLines
    <3>2. QED
      BY <3>1
  <2>5. E[e] = dataOf(L, first, last)
    BY <1>2
  <2> HIDE DEF first, last
  <2>6. dataOf(L, first, last) \in Seq(Seq(B))
    BY <1>1, <2>3, <2>4, DataOfType
  <2>7. QED
    BY <2>5, <2>6
<1>6. E \in Seq(Seq(Seq(B)))
  <2> DEFINE C == Seq(Seq(B))
  <2> HIDE DEF C, n
  <2>1. \A e \in 1..n : E[e] \in C
    BY <1>5 DEF C
  <2>2. E = [e \in 1..n |-> E[e]]
    BY <1>2
  <2>3. E \in [1..n -> C]
    BY <2>1, <2>2
  <2>4. E \in Seq(C)
    BY <1>4, <2>3
  <2>5. QED
    BY <2>4 DEF C
<1>7. QED
  BY <1>6 DEF E

LEMMA StartIsPrefix ==
    ASSUME NEW A, NEW s \in Seq(A), NEW t \in Seq(A)
    PROVE  StartOf(s, t) <=> IsPrefix(s, t)
<1>1. ASSUME StartOf(s, t) PROVE IsPrefix(s, t)
  <2>1. Len(s) <= Len(t) /\ \A m \in 1..Len(s) : s[m] = t[m]
    BY <1>1 DEF StartOf
  <2>2. QED
    BY <2>1, AgreeingIsPrefix
<1>2. ASSUME IsPrefix(s, t) PROVE StartOf(s, t)
  <2>1. Len(s) <= Len(t) /\ \A m \in 1..Len(s) : s[m] = t[m]
    BY <1>2, PrefixElements
  <2>2. QED
    BY <2>1 DEF StartOf
<1>3. QED
  BY <1>1, <1>2

\* What is delivered of some bytes is delivered again of more.
LEMMA EventsStay ==
    ASSUME NEW B, NEW c \in Seq(B), NEW b \in Seq(B), StartOf(c, b),
           NEW goesOn \in BOOLEAN, ~goesOn, NEW over \in BOOLEAN,
           NEW t, NEW u, ToBeRead(t, c, goesOn), ToBeRead(u, b, over)
    PROVE  IsPrefix(Delivered(readEvents(c, goesOn, Len(c) + 1)),
                    Delivered(readEvents(b, over, Len(b) + 1)))
<1> DEFINE D == Delivered(readEvents(c, goesOn, Len(c) + 1))
           E == Delivered(readEvents(b, over, Len(b) + 1))
<1>1. D = StandardEvents(t) /\ E = StandardEvents(u)
  <2>1. D = StandardEvents(t)
    BY EventsAreRead
  <2>2. E = StandardEvents(u)
    BY EventsAreRead
  <2>3. QED
    BY <2>1, <2>2
<1>2. t \in Seq(B) /\ u \in Seq(B)
  <2>1. t \in Seq(B)
    BY ReadableBytes
  <2>2. u \in Seq(B)
    BY ReadableBytes
  <2>3. QED
    BY <2>1, <2>2
<1>3. Precedes(t, u)
  <2>1. CASE over \/ c # b
    BY <2>1, FirstBytes
  <2>2. CASE ~over /\ c = b
    <3>1. t = u
      BY <2>2, Zenon DEF ToBeRead
    <3>2. QED
      BY <1>2, <3>1, PrecedesItself
  <2>3. QED
    BY <2>1, <2>2
<1>4. StartOf(StandardEvents(t), StandardEvents(u))
  BY <1>2, <1>3, EventsBegin
<1>5. StandardEvents(t) \in Seq(Seq(Seq(B))) /\ StandardEvents(u) \in Seq(Seq(Seq(B)))
  BY <1>2, StandardType
<1> HIDE DEF D, E
<1>6. IsPrefix(D, E)
  BY <1>1, <1>4, <1>5, StartIsPrefix
<1>7. QED
  BY <1>6, Zenon DEF D, E


\* There is always something to be read.
LEMMA SomethingToBeRead ==
    ASSUME NEW B, NEW b \in Seq(B), NEW over \in BOOLEAN
    PROVE  ToBeRead(IF over THEN b ELSE WithoutLastCR(b), b, over)
<1>1. CASE over
  BY <1>1 DEF ToBeRead
<1>2. CASE ~over /\ b # <<>> /\ b[Len(b)] = "CR"
  <2>1. WithoutLastCR(b) = SubSeq(b, 1, Len(b) - 1)
    BY <1>2 DEF WithoutLastCR, Last, Front
  <2>2. QED
    BY <1>2, <2>1, Zenon DEF ToBeRead
<1>3. CASE ~over /\ ~(b # <<>> /\ b[Len(b)] = "CR")
  <2>1. WithoutLastCR(b) = b
    BY <1>3, Zenon DEF WithoutLastCR, Last
  <2>2. QED
    BY <1>3, <2>1, Zenon DEF ToBeRead
<1>4. QED
  BY <1>1, <1>2, <1>3

LEMMA FirstOf ==
    ASSUME NEW B, NEW b \in Seq(B), NEW n \in 0..Len(b)
    PROVE  /\ SubSeq(b, 1, n) \in Seq(B) /\ Len(SubSeq(b, 1, n)) = n
           /\ StartOf(SubSeq(b, 1, n), b)
<1> DEFINE c == SubSeq(b, 1, n)
<1>1. \A j \in 1..n : b[j] \in B
  OBVIOUS
<1>2. c \in Seq(B) /\ Len(c) = (IF 1 <= n THEN n - 1 + 1 ELSE 0) /\ \A i \in 1..(n - 1 + 1) : c[i] = b[1 + i - 1]
  BY <1>1, SubSeqProperties
<1> HIDE DEF c
<1>3. c \in Seq(B) /\ Len(c) = n /\ \A i \in 1..n : c[i] = b[i]
  BY <1>2
<1>4. QED
  BY <1>3 DEF StartOf, c

LEMMA AlwaysStays ==
    ASSUME NEW B, NEW b \in Seq(B)
    PROVE  StaysDelivered(b)
<1>1. ASSUME NEW n \in 0..Len(b), NEW over \in BOOLEAN, NEW goesOn \in BOOLEAN, ~goesOn
      PROVE  IsPrefix(Delivered(readEvents(SubSeq(b, 1, n), goesOn, n + 1)),
                      Delivered(readEvents(b, over, Len(b) + 1)))
  <2> DEFINE c == SubSeq(b, 1, n)
             t == IF goesOn THEN c ELSE WithoutLastCR(c)
             u == IF over THEN b ELSE WithoutLastCR(b)
  <2>1. c \in Seq(B) /\ Len(c) = n /\ StartOf(c, b)
    BY FirstOf
  <2> HIDE DEF c
  <2>2. ToBeRead(t, c, goesOn)
    BY <2>1, SomethingToBeRead
  <2>3. ToBeRead(u, b, over)
    BY SomethingToBeRead
  <2> HIDE DEF t, u
  <2>4. IsPrefix(Delivered(readEvents(c, goesOn, Len(c) + 1)), Delivered(readEvents(b, over, Len(b) + 1)))
    BY <1>1, <2>1, <2>2, <2>3, EventsStay
  <2>5. QED
    BY <2>1, <2>4 DEF c
<1>2. QED
  BY <1>1, Zenon DEF StaysDelivered

\* The framing of a stream, for any alphabet and any bytes of it: of a stream that
\* has ended the client reads the events of the standard, a stream that goes on
\* holds nothing back but a line whose CR came last and takes back nothing it
\* delivered, and a limit of any size takes in one byte more of an event at most,
\* and rejects only one that is too long.
THEOREM FramingIsStandard ==
    ASSUME NEW B, NEW b \in Seq(B)
    PROVE  /\ ReadsTheStandard(b)
           /\ DeliversAtOnce(b)
           /\ StaysDelivered(b)
           /\ \A max \in Nat \ {0} : KeepsTheLimit(b, max)
<1>1. Len(b) \in Nat /\ (b # <<>> => Len(b) > 0)
  OBVIOUS
<1>2. ReadsTheStandard(b)
  <2>1. ASSUME NEW over \in BOOLEAN, over
        PROVE  Delivered(readEvents(b, over, Len(b) + 1)) = StandardEvents(b)
    <3>1. ToBeRead(b, b, over)
      BY <2>1 DEF ToBeRead
    <3>2. QED
      BY <3>1, EventsAreRead
  <2>2. QED
    BY <2>1, Zenon DEF ReadsTheStandard
<1>3. DeliversAtOnce(b)
  <2>1. ASSUME NEW over \in BOOLEAN, ~over
        PROVE  Delivered(readEvents(b, over, Len(b) + 1)) = StandardEvents(WithoutLastCR(b))
    <3>1. ToBeRead(IF over THEN b ELSE WithoutLastCR(b), b, over)
      BY SomethingToBeRead
    <3> DEFINE t == WithoutLastCR(b)
    <3> HIDE DEF t
    <3>2. ToBeRead(t, b, over)
      BY <2>1, <3>1, Zenon DEF t
    <3>3. Delivered(readEvents(b, over, Len(b) + 1)) = StandardEvents(t)
      BY <3>2, EventsAreRead
    <3>4. QED
      BY <3>3 DEF t
  <2>2. QED
    BY <2>1, Zenon DEF DeliversAtOnce
<1>4. ASSUME NEW max \in Nat \ {0} PROVE KeepsTheLimit(b, max)
  <2>1. ASSUME NEW over \in BOOLEAN, over
        PROVE  limitKept(readEvents(b, over, Len(b) + 1), readEvents(b, over, max), max)
    <3> DEFINE top == Len(b) + 1
               C == Reads(b, over, max) \cup Reads(b, over, top)
               free == readEvents(b, over, top)
               reads == readEvents(b, over, max)
    <3>1. /\ Kept(free, reads, max) /\ free \in Seq(C) /\ reads \in Seq(C)
          /\ \A i \in 1..Len(free) : free[i].result = "blocks" => ~over
      BY EventsKeepLimit
    <3> HIDE DEF C, free, reads
    <3>2. \A i \in 1..Len(free) : free[i].result # "blocks"
      BY <2>1, <3>1
    <3>3. limitKept(free, reads, max)
      BY <3>1, <3>2, KeptMeansIt
    <3>4. QED
      BY <3>3 DEF free, reads
  <2>2. QED
    BY <2>1, Zenon DEF KeepsTheLimit
<1>5. QED
  BY <1>2, <1>3, <1>4, AlwaysStays

-----------------------------------------------------------------------------
(* The standard's reading of what begins with a whole line, or a whole event. *)

\* There is one way to list a set.
LEMMA ListsType ==
    ASSUME NEW T, T \subseteq Int, NEW s, Lists(s, T)
    PROVE  Len(s) \in Nat /\ \A k \in 1..Len(s) : s[k] \in T /\ s[k] \in Int
<1>1. s \in Seq(T)
  BY Zenon DEF Lists
<1>2. Len(s) \in Nat /\ \A k \in 1..Len(s) : s[k] \in T
  BY <1>1
<1>3. QED
  BY <1>2

LEMMA ListsInOrder ==
    ASSUME NEW T, T \subseteq Int, NEW s, Lists(s, T), NEW i \in 1..Len(s), NEW j \in 1..Len(s), i < j
    PROVE  s[i] < s[j]
<1> DEFINE d == j - (i + 1)
           S == {k \in 0..d : s[i] < s[i + 1 + k]}
<1>1. Len(s) \in Nat /\ d \in Nat /\ \A k \in 1..Len(s) : s[k] \in Int
  <2>1. Len(s) \in Nat /\ \A k \in 1..Len(s) : s[k] \in Int
    BY ListsType
  <2>2. QED
    BY <2>1
<1>2. \A k \in 1..(Len(s) - 1) : s[k] < s[k + 1]
  BY DEF Lists
<1>3. 0 \in S
  <2>1. i \in 1..(Len(s) - 1) /\ i + 1 + 0 = i + 1
    BY <1>1
  <2>2. QED
    BY <1>1, <1>2, <2>1
<1>4. ASSUME NEW k \in 0..(d - 1), k \in S PROVE k + 1 \in S
  <2>1. i + 1 + k \in 1..(Len(s) - 1) /\ (i + 1 + k) + 1 = i + 1 + (k + 1) /\ k + 1 \in 0..d
    BY <1>1
  <2>2. s[i + 1 + k] < s[i + 1 + (k + 1)]
    BY <1>2, <2>1
  <2>3. s[i] \in Int /\ s[i + 1 + k] \in Int /\ s[i + 1 + (k + 1)] \in Int
    BY <1>1, <2>1
  <2>4. QED
    BY <1>4, <2>1, <2>2, <2>3
<1>5. 0..d \subseteq S
  <2> HIDE DEF S, d
  <2>1. QED
    BY <1>1, <1>3, <1>4, IntervalInduction
<1>6. d \in S /\ i + 1 + d = j
  <2>1. d \in 0..d /\ i + 1 + d = j
    BY <1>1
  <2> HIDE DEF S, d
  <2>2. QED
    BY <1>5, <2>1
<1>7. QED
  BY <1>6

IsIn(s, x) == \E k \in 1..Len(s) : s[k] = x

\* Every member of a set is somewhere in the list of it.
LEMMA ListsHasAll ==
    ASSUME NEW T, T \subseteq Int, NEW s, Lists(s, T), NEW x \in T
    PROVE  IsIn(s, x)
<1> DEFINE n == Len(s)
<1>1. n \in Nat /\ \A k \in 1..n : s[k] \in Int
  BY ListsType
<1>2. s # <<>> /\ n \in Nat \ {0}
  <2>1. s # <<>> /\ s \in Seq(T)
    BY Zenon DEF Lists
  <2>2. QED
    BY <2>1
<1>3. s[1] <= x /\ x <= s[n]
  BY <1>2 DEF Lists
<1> DEFINE S == {k \in 1..n : x <= s[k]}
<1>4. n \in S /\ S \subseteq Nat
  BY <1>2, <1>3
<1>5. PICK k \in S : \A j \in S : k <= j
  <2> HIDE DEF S
  <2>1. QED
    BY <1>4, LeastElement
<1>6. CASE k = 1
  BY <1>1, <1>2, <1>3, <1>5, <1>6 DEF IsIn
<1>7. CASE k # 1
  <2>1. k - 1 \in 1..(n - 1) /\ (k - 1) + 1 = k /\ k - 1 \in 1..n
    BY <1>2, <1>5, <1>7
  <2>2. k - 1 \notin S
    BY <1>5, <2>1
  <2>3. s[k - 1] < x
    BY <1>1, <2>1, <2>2
  <2>4. ~(s[k - 1] < x /\ x < s[k])
    BY <2>1 DEF Lists
  <2>5. QED
    BY <1>1, <1>5, <2>3, <2>4 DEF IsIn
<1>8. QED
  BY <1>6, <1>7

LEMMA ListsOnce ==
    ASSUME NEW T, T \subseteq Int, NEW r, NEW s, Lists(r, T), Lists(s, T)
    PROVE  r = s
<1>1. \A q, p : Lists(q, T) /\ Lists(p, T) => StartOf(q, p)
  <2> SUFFICES ASSUME NEW q, NEW p, Lists(q, T), Lists(p, T) PROVE StartOf(q, p)
    OBVIOUS
  <2>1. /\ Len(q) \in Nat /\ \A k \in 1..Len(q) : q[k] \in T /\ q[k] \in Int
        /\ Len(p) \in Nat /\ \A k \in 1..Len(p) : p[k] \in T /\ p[k] \in Int
    <3>1. Len(q) \in Nat /\ \A k \in 1..Len(q) : q[k] \in T /\ q[k] \in Int
      BY ListsType
    <3>2. Len(p) \in Nat /\ \A k \in 1..Len(p) : p[k] \in T /\ p[k] \in Int
      BY ListsType
    <3>3. QED
      BY <3>1, <3>2
  <2> DEFINE S == {i \in 0..Len(q) : i <= Len(p) /\ \A k \in 1..i : p[k] = q[k]}
  <2>2. 0 \in S
    BY <2>1
  <2>3. ASSUME NEW i \in 0..(Len(q) - 1), i \in S PROVE i + 1 \in S
    <3>1. i + 1 \in 1..Len(q) /\ i + 1 \in 0..Len(q) /\ i <= Len(p) /\ \A k \in 1..i : p[k] = q[k]
      BY <2>1, <2>3
    <3> HIDE DEF S
    <3>2. PICK j \in 1..Len(p) : p[j] = q[i + 1]
      <4> DEFINE x == q[i + 1]
      <4>1. x \in T
        BY <2>1, <3>1
      <4> HIDE DEF x
      <4>2. IsIn(p, x)
        BY <4>1, ListsHasAll, Zenon
      <4>3. QED
        BY <4>2, Zenon DEF IsIn, x
    <3>3. j \notin 1..i
      <4>1. ASSUME j \in 1..i PROVE q[j] < q[i + 1]
        <5>1. j \in 1..Len(q) /\ j < i + 1
          BY <2>1, <3>1, <4>1
        <5>2. QED
          BY <3>1, <5>1, ListsInOrder
      <4>2. QED
        BY <2>1, <3>1, <3>2, <4>1
    <3>4. i + 1 \in 1..Len(p)
      BY <2>1, <3>1, <3>2, <3>3
    <3>5. PICK k \in 1..Len(q) : q[k] = p[i + 1]
      <4> DEFINE x == p[i + 1]
      <4>1. x \in T
        BY <2>1, <3>4
      <4> HIDE DEF x
      <4>2. IsIn(q, x)
        BY <4>1, ListsHasAll, Zenon
      <4>3. QED
        BY <4>2, Zenon DEF IsIn, x
    <3>6. k \notin 1..i
      <4>1. ASSUME k \in 1..i PROVE p[k] < p[i + 1]
        <5>1. k \in 1..Len(p) /\ k < i + 1
          BY <2>1, <3>1, <3>4, <4>1
        <5>2. QED
          BY <3>4, <5>1, ListsInOrder
      <4>2. k \in 1..i => p[k] = q[k] /\ k \in 1..Len(p)
        BY <2>1, <3>1, <3>4
      <4>3. QED
        BY <2>1, <3>4, <3>5, <4>1, <4>2
    <3>7. j >= i + 1 /\ k >= i + 1
      BY <2>1, <3>1, <3>2, <3>3, <3>5, <3>6
    <3>8. p[i + 1] <= p[j]
      <4>1. i + 1 < j => p[i + 1] < p[j]
        BY <3>4, ListsInOrder
      <4>2. QED
        BY <2>1, <3>4, <3>7, <4>1
    <3>9. q[i + 1] <= q[k]
      <4>1. i + 1 < k => q[i + 1] < q[k]
        BY <3>1, ListsInOrder
      <4>2. QED
        BY <2>1, <3>1, <3>7, <4>1
    <3>10. p[i + 1] = q[i + 1]
      BY <2>1, <3>1, <3>2, <3>4, <3>5, <3>8, <3>9
    <3>11. \A m \in 1..(i + 1) : p[m] = q[m]
      BY <3>1, <3>10
    <3>12. QED
      BY <3>1, <3>4, <3>11 DEF S
  <2>4. 0..Len(q) \subseteq S
    <3> HIDE DEF S
    <3>1. QED
      BY <2>1, <2>2, <2>3, IntervalInduction
  <2>5. Len(q) \in S
    BY <2>1, <2>4
  <2>6. QED
    BY <2>5 DEF StartOf
<1>2. StartOf(r, s) /\ StartOf(s, r)
  BY <1>1
<1>3. r \in Seq(T) /\ s \in Seq(T)
  BY DEF Lists
<1>4. Len(r) = Len(s) /\ \A k \in 1..Len(r) : r[k] = s[k]
  BY <1>2, <1>3 DEF StartOf
<1>5. QED
  BY <1>3, <1>4, SeqEqual

shift(S, n) == {n + j : j \in S}

MovesWhole(S, n, m) ==
    /\ InOrder(S, m) \in Seq(S)
    /\ InOrder(shift(S, n), n + m) = [i \in 1..Len(InOrder(S, m)) |-> n + InOrder(S, m)[i]]

\* Positions that are all moved stay in order.
LEMMA OrderMoves ==
    ASSUME NEW n \in Nat, NEW m \in Nat, NEW S, S \subseteq 1..m
    PROVE  MovesWhole(S, n, m)
<1> DEFINE s == InOrder(S, m)
           l == Len(s)
           T == shift(S, n)
           r == [i \in 1..l |-> n + s[i]]
<1>1. Lists(s, S)
  BY InOrderLists
<1> HIDE DEF s
<1>2. s \in Seq(S) /\ l \in Nat /\ \A i \in 1..l : s[i] \in S /\ s[i] \in 1..m
  <2>1. s \in Seq(S)
    BY <1>1, Zenon DEF Lists
  <2>2. l \in Nat /\ \A i \in 1..l : s[i] \in S
    BY <2>1
  <2>3. QED
    BY <2>1, <2>2
<1>3. T \subseteq 1..(n + m) /\ n + m \in Nat
  BY DEF shift
<1>4. r \in Seq(T) /\ Len(r) = l /\ \A i \in 1..l : r[i] = n + s[i]
  <2>1. \A i \in 1..l : n + s[i] \in T
    BY <1>2 DEF shift
  <2> HIDE DEF T, l
  <2>2. r \in [1..l -> T]
    BY <2>1
  <2>3. QED
    BY <1>2, <2>2
<1> HIDE DEF r
<1>5. Lists(r, T)
  <2>1. r = <<>> => T = {}
    <3>1. r = <<>> => s = <<>>
      BY <1>2, <1>4
    <3>2. QED
      BY <1>1, <3>1 DEF Lists, shift
  <2>2. ASSUME r # <<>>, NEW x \in T PROVE r[1] <= x /\ x <= r[Len(r)]
    <3>1. s # <<>> /\ l >= 1
      BY <1>2, <1>4, <2>2
    <3>2. PICK j \in S : x = n + j
      BY DEF shift
    <3>3. s[1] <= j /\ j <= s[l]
      BY <1>1, <3>1 DEF Lists
    <3>4. j \in Int /\ 1 \in 1..l /\ l \in 1..l
      BY <1>2, <3>1
    <3>5. r[1] = n + s[1] /\ r[l] = n + s[l] /\ s[1] \in Int /\ s[l] \in Int
      BY <1>2, <1>4, <3>4
    <3>6. QED
      BY <1>4, <3>2, <3>3, <3>4, <3>5
  <2>3. ASSUME NEW k \in 1..(Len(r) - 1)
        PROVE  r[k] < r[k + 1] /\ \A x \in T : ~(r[k] < x /\ x < r[k + 1])
    <3>1. k \in 1..(l - 1) /\ k \in 1..l /\ k + 1 \in 1..l
      BY <1>2, <1>4
    <3>2. s[k] < s[k + 1] /\ \A x \in S : ~(s[k] < x /\ x < s[k + 1])
      BY <1>1, <3>1 DEF Lists
    <3>3. r[k] = n + s[k] /\ r[k + 1] = n + s[k + 1] /\ s[k] \in Int /\ s[k + 1] \in Int
      BY <1>2, <1>4, <3>1
    <3>4. ASSUME NEW x \in T PROVE ~(r[k] < x /\ x < r[k + 1])
      <4>1. PICK j \in S : x = n + j
        BY DEF shift
      <4>2. j \in Int
        OBVIOUS
      <4>3. QED
        BY <3>2, <3>3, <4>1, <4>2
    <3>5. QED
      BY <3>2, <3>3, <3>4
  <2>4. QED
    BY <1>4, <2>1, <2>2, <2>3 DEF Lists
<1>6. Lists(InOrder(T, n + m), T)
  BY <1>3, InOrderLists
<1>7. InOrder(T, n + m) = r
  BY <1>3, <1>5, <1>6, ListsOnce
<1>8. QED
  BY <1>2, <1>7, Zenon DEF MovesWhole, s, r, T, l

Moved(M, N, n, m) ==
    /\ Len(M) \in Nat \ {0} /\ Len(N) = Len(M) + 1 /\ N[1] = 0 /\ N[2] = n /\ M[1] = 0
    /\ \A k \in 1..Len(M) : N[k + 1] = n + M[k] /\ M[k] \in 0..m

\* The borders of what comes behind a first stretch of n, when it is moved.
LEMMA BordersMove ==
    ASSUME NEW n \in Nat \ {0}, NEW m \in Nat, NEW S, S \subseteq 1..m,
           NEW M, M = << 0 >> \o InOrder(S, m),
           NEW N, N = << 0 >> \o InOrder({n} \cup shift(S, n), n + m)
    PROVE  Moved(M, N, n, m)
<1> DEFINE T == {n} \cup shift(S, n)
           s == InOrder(S, m)
           r == InOrder(shift(S, n), n + m)
<1>1. T \subseteq 1..(n + m) /\ n + m \in Nat /\ n \in T /\ (\A y \in T : n <= y) /\ T \ {n} = shift(S, n)
  BY DEF shift
<1>2. InOrder(T, n + m) = <<n>> \o r
  <2>1. InOrder(T, n + m) = <<n>> \o InOrder(T \ {n}, n + m)
    <3> HIDE DEF T
    <3>1. QED
      BY <1>1, InOrderFirst
  <2>2. QED
    BY <1>1, <2>1, Zenon
<1>3. s \in Seq(S) /\ r = [i \in 1..Len(s) |-> n + s[i]]
  <2>1. MovesWhole(S, n, m)
    BY OrderMoves
  <2>2. QED
    BY <2>1, Zenon DEF MovesWhole
<1> HIDE DEF s, r, T
<1>4. /\ s \in Seq(Nat) /\ Len(s) \in Nat /\ r \in Seq(Nat) /\ Len(r) = Len(s)
      /\ \A i \in 1..Len(s) : r[i] = n + s[i] /\ s[i] \in 0..m
  <2>1. S \subseteq Nat
    OBVIOUS
  <2>2. s \in Seq(Nat)
    BY <1>3, <2>1, SeqMonotonic, Zenon
  <2>3. Len(s) \in Nat /\ \A i \in 1..Len(s) : s[i] \in S
    BY <1>3
  <2>4. \A i \in 1..Len(s) : s[i] \in 0..m /\ s[i] \in Nat
    <3>1. \A x \in S : x \in 0..m /\ x \in Nat
      OBVIOUS
    <3>2. QED
      BY <2>3, <3>1, Zenon
  <2>5. r \in [1..Len(s) -> Nat]
    BY <1>3, <2>4
  <2>6. QED
    BY <1>3, <2>2, <2>3, <2>4, <2>5
<1>5. M = <<0>> \o s /\ N = <<0>> \o (<<n>> \o r)
  BY <1>2 DEF s, T
<1> DEFINE p == <<n>> \o r
<1>6. p \in Seq(Nat) /\ Len(p) = Len(s) + 1 /\ p[1] = n /\ \A i \in 1..Len(s) : p[i + 1] = r[i]
  BY <1>4
<1>7. N = <<0>> \o p
  BY <1>5
<1> HIDE DEF p
<1>8. Len(N) = Len(p) + 1 /\ N[1] = 0 /\ \A i \in 1..Len(p) : N[i + 1] = p[i]
  <2>1. p \in Seq(Nat) /\ <<0>> \in Seq(Nat)
    BY <1>6
  <2>2. Len(<<0>> \o p) = Len(p) + 1 /\ (<<0>> \o p)[1] = 0 /\ \A i \in 1..Len(p) : (<<0>> \o p)[i + 1] = p[i]
    BY <2>1
  <2>3. QED
    BY <1>7, <2>2, Zenon
<1>9. Len(M) = Len(s) + 1 /\ M[1] = 0 /\ \A i \in 1..Len(s) : M[i + 1] = s[i]
  BY <1>4, <1>5
<1>10. Len(M) \in Nat \ {0} /\ Len(N) = Len(M) + 1 /\ N[1] = 0 /\ M[1] = 0
  BY <1>4, <1>6, <1>8, <1>9
<1>11. N[2] = n
  <2>1. 1 \in 1..Len(p) /\ 1 + 1 = 2
    BY <1>4, <1>6
  <2>2. QED
    BY <1>6, <1>8, <2>1
<1>12. ASSUME NEW k \in 1..Len(M) PROVE N[k + 1] = n + M[k] /\ M[k] \in 0..m
  <2>1. CASE k = 1
    <3>1. k + 1 = 2 /\ M[k] = 0 /\ N[k + 1] = n
      BY <1>10, <1>11, <2>1
    <3>2. 0 \in 0..m /\ n + 0 = n
      OBVIOUS
    <3>3. QED
      BY <3>1, <3>2, Zenon
  <2>2. CASE k # 1
    <3>1. k - 1 \in 1..Len(s) /\ (k - 1) + 1 = k /\ k \in 1..Len(p)
      BY <1>4, <1>6, <1>9, <2>2
    <3>2. M[k] = s[k - 1] /\ p[k] = r[k - 1] /\ N[k + 1] = p[k]
      BY <1>6, <1>8, <1>9, <3>1
    <3>3. QED
      BY <1>4, <3>1, <3>2
  <2>3. QED
    BY <2>1, <2>2
<1>13. QED
  BY <1>10, <1>11, <1>12, Zenon DEF Moved

\* A stretch of u is one of what u comes at the end of.
LEMMA StretchMoves ==
    ASSUME NEW B, NEW u \in Seq(B), NEW t \in Seq(B), NEW n \in Nat, Len(t) = n + Len(u),
           \A j \in 1..Len(u) : t[n + j] = u[j], NEW from \in 1..(Len(u) + 1), NEW to \in 0..Len(u)
    PROVE  SubSeq(t, n + from, n + to) = SubSeq(u, from, to)
<1> DEFINE x == SubSeq(t, n + from, n + to)
           y == SubSeq(u, from, to)
<1>1. Len(u) \in Nat /\ n + from \in Int /\ n + to \in Int
  OBVIOUS
<1>2. \A i \in from..to : u[i] \in B
  BY <1>1
<1>3. \A i \in (n + from)..(n + to) : t[i] \in B
  BY <1>1
<1>4. y \in Seq(B) /\ Len(y) = (IF from <= to THEN to - from + 1 ELSE 0)
       /\ \A i \in 1..(to - from + 1) : y[i] = u[from + i - 1]
  BY <1>2, SubSeqProperties
<1> DEFINE a == n + from
           c == n + to
<1>5. a \in Int /\ c \in Int /\ \A i \in a..c : t[i] \in B
  BY <1>1, <1>3
<1>6. a = n + from /\ c = n + to
  OBVIOUS
<1>7. x = SubSeq(t, a, c)
  OBVIOUS
<1> HIDE DEF a, c, x, y
<1>8. SubSeq(t, a, c) \in Seq(B) /\ Len(SubSeq(t, a, c)) = (IF a <= c THEN c - a + 1 ELSE 0)
       /\ \A i \in 1..(c - a + 1) : SubSeq(t, a, c)[i] = t[a + i - 1]
  BY <1>5, SubSeqProperties
<1>9. Len(x) = Len(y) /\ Len(x) \in Nat /\ c - a + 1 = to - from + 1
  BY <1>1, <1>4, <1>6, <1>7, <1>8
<1>10. ASSUME NEW i \in 1..Len(x) PROVE x[i] = y[i]
  <2>1. i \in 1..(to - from + 1) /\ from + i - 1 \in 1..Len(u) /\ a + i - 1 = n + (from + i - 1)
    BY <1>1, <1>4, <1>6, <1>9
  <2>2. x[i] = t[a + i - 1] /\ y[i] = u[from + i - 1]
    BY <1>4, <1>7, <1>8, <1>9, <2>1
  <2>3. QED
    BY <2>1, <2>2
<1>11. x \in Seq(B) /\ y \in Seq(B)
  BY <1>4, <1>7, <1>8
<1>12. x = y
  BY <1>9, <1>10, <1>11, SeqEqual
<1>13. QED
  BY <1>12 DEF x, y

NoEnds(l) == \A j \in 1..Len(l) : l[j] \notin LineEnds

WrittenEnds == {<<"LF">>, <<"CR", "LF">>}

\* The line l and its end e stand before u.
LineBefore(l, e, u) == StandardLines((l \o e) \o u) = <<l>> \o StandardLines(u)

\* The line a stream begins with, and the lines of what comes behind it.
LEMMA LineFirst ==
    ASSUME NEW B, NEW l \in Seq(B), NoEnds(l),
           NEW e \in Seq(B), e \in WrittenEnds, NEW u \in Seq(B)
    PROVE  LineBefore(l, e, u)
<1> DEFINE t == (l \o e) \o u
           n == Len(l) + Len(e)
           m == Len(u)
           N == lineEndings(t)
           M == lineEndings(u)
           isCRLF(b, j) == j > 1 /\ b[j] = "LF" /\ b[j - 1] = "CR"
           width(b, j) == IF isCRLF(b, j) THEN 2 ELSE 1
           K == StandardLines(t)
           L == StandardLines(u)
<1>1. /\ Len(l) \in Nat /\ Len(e) \in {1, 2} /\ m \in Nat /\ n \in Nat \ {0}
      /\ e[Len(e)] = "LF" /\ (Len(e) = 2 => e[1] = "CR")
  <2>1. e = <<"LF">> \/ e = <<"CR", "LF">>
    BY DEF WrittenEnds
  <2>2. Len(e) \in {1, 2} /\ e[Len(e)] = "LF" /\ (Len(e) = 2 => e[1] = "CR")
    <3>1. CASE e = <<"LF">>
      BY <3>1
    <3>2. CASE e = <<"CR", "LF">>
      BY <3>2
    <3>3. QED
      BY <2>1, <3>1, <3>2
  <2>3. Len(l) \in Nat /\ m \in Nat
    OBVIOUS
  <2>4. QED
    <3> DEFINE a == Len(l)
               c == Len(e)
    <3>1. a \in Nat /\ (c = 1 \/ c = 2) /\ n = a + c
      BY <2>2, <2>3
    <3> HIDE DEF a, c, n
    <3>2. n \in Nat \ {0}
      BY <3>1
    <3>3. QED
      BY <2>2, <2>3, <3>2
<1>2. /\ t \in Seq(B) /\ Len(t) = n + m
      /\ \A j \in 1..Len(l) : t[j] = l[j]
      /\ \A j \in 1..m : t[n + j] = u[j]
      /\ t[n] = "LF" /\ (Len(e) = 2 => t[n - 1] = "CR" /\ n - 1 = Len(l) + 1)
  <2> DEFINE h == l \o e
  <2>1. h \in Seq(B) /\ Len(h) = n /\ (\A j \in 1..Len(l) : h[j] = l[j])
         /\ \A j \in 1..Len(e) : h[Len(l) + j] = e[j]
    OBVIOUS
  <2>2. t = h \o u
    OBVIOUS
  <2> HIDE DEF h, t, n
  <2>3. t \in Seq(B) /\ Len(t) = n + m /\ (\A j \in 1..n : t[j] = h[j]) /\ \A j \in 1..m : t[n + j] = u[j]
    <3>1. h \in Seq(B) /\ Len(h) = n /\ u \in Seq(B)
      BY <2>1
    <3>2. Joined(B, h, u, h \o u)
      BY <3>1, ConcatJoined
    <3>3. /\ t \in Seq(B) /\ Len(t) = Len(h) + Len(u) /\ (\A j \in 1..Len(h) : t[j] = h[j])
          /\ \A j \in 1..Len(u) : t[Len(h) + j] = u[j]
      BY <2>2, <3>2, Zenon DEF Joined
    <3>4. QED
      BY <3>1, <3>3, Zenon
  <2>4. n \in 1..n /\ n = Len(l) + Len(e) /\ Len(e) \in 1..Len(e)
    <3>1. n = Len(l) + Len(e)
      BY DEF n
    <3>2. Len(l) \in Nat /\ (Len(e) = 1 \/ Len(e) = 2)
      BY <1>1
    <3>3. n \in Nat \ {0}
      BY <1>1, Zenon
    <3>4. n \in 1..n
      BY <3>3
    <3>5. Len(e) \in 1..Len(e)
      <4> DEFINE w == Len(e)
      <4>1. w = 1 \/ w = 2
        BY <3>2
      <4> HIDE DEF w
      <4>2. w \in 1..w
        BY <4>1
      <4>3. QED
        BY <4>2 DEF w
    <3>6. QED
      BY <3>1, <3>4, <3>5, Zenon
  <2>5. t[n] = "LF"
    BY <1>1, <2>1, <2>3, <2>4
  <2>6. Len(e) = 2 => n - 1 = Len(l) + 1 /\ n - 1 \in 1..n /\ 1 \in 1..Len(e)
    BY <1>1, <2>4
  <2>7. Len(e) = 2 => t[n - 1] = "CR"
    BY <1>1, <2>1, <2>3, <2>6
  <2>8. \A j \in 1..Len(l) : j \in 1..n
    BY <1>1, <2>4
  <2>9. QED
    BY <2>1, <2>3, <2>5, <2>6, <2>7, <2>8
<1> HIDE DEF t
<1>3. endings(t) = {n} \cup shift(endings(u), n)
  <2>1. ASSUME NEW j \in 1..(n + m), j < n PROVE j \notin endings(t)
    <3>1. CASE j <= Len(l)
      <4>1. t[j] = l[j] /\ l[j] \notin LineEnds
        <5>1. j \in 1..Len(l)
          BY <1>1, <3>1
        <5>2. QED
          BY <1>2, <5>1 DEF NoEnds
      <4>2. QED
        BY <4>1 DEF endings, LineEnds
    <3>2. CASE j > Len(l)
      <4>1. Len(e) = 2 /\ j = n - 1
        BY <1>1, <2>1, <3>2
      <4>2. t[j] = "CR" /\ j < Len(t) /\ t[j + 1] = "LF"
        BY <1>1, <1>2, <4>1
      <4>3. QED
        BY <4>2 DEF endings, FollowedByLF
    <3>3. QED
      BY <1>1, <3>1, <3>2
  <2>2. n \in endings(t)
    BY <1>1, <1>2 DEF endings
  <2>3. ASSUME NEW i \in 1..m PROVE n + i \in endings(t) <=> i \in endings(u)
    <3>1. t[n + i] = u[i] /\ n + i \in DOMAIN t /\ i \in DOMAIN u
      BY <1>1, <1>2
    <3>2. FollowedByLF(t, n + i) <=> FollowedByLF(u, i)
      <4>1. n + i < Len(t) <=> i < m
        BY <1>1, <1>2
      <4>2. i < m => i + 1 \in 1..m /\ n + (i + 1) = (n + i) + 1
        BY <1>1
      <4>3. i < m => t[(n + i) + 1] = u[i + 1]
        BY <1>2, <4>2
      <4>4. QED
        BY <4>1, <4>3 DEF FollowedByLF
    <3>3. QED
      BY <3>1, <3>2 DEF endings
  <2>4. endings(t) \subseteq 1..(n + m) /\ endings(u) \subseteq 1..m
    BY <1>2 DEF endings
  <2>5. ASSUME NEW j \in endings(t), j # n PROVE j \in shift(endings(u), n)
    <3>1. j \in 1..(n + m) /\ j > n
      BY <1>1, <2>1, <2>4, <2>5
    <3>2. j - n \in 1..m /\ n + (j - n) = j
      BY <1>1, <3>1
    <3>3. j - n \in endings(u)
      BY <2>3, <2>5, <3>2
    <3>4. QED
      BY <3>2, <3>3 DEF shift
  <2>6. ASSUME NEW j \in shift(endings(u), n) PROVE j \in endings(t)
    <3>1. PICK i \in endings(u) : j = n + i
      BY DEF shift
    <3>2. i \in 1..m
      BY <2>4
    <3>3. QED
      BY <2>3, <3>1, <3>2
  <2> HIDE DEF n
  <2>7. QED
    BY <2>2, <2>5, <2>6
<1>4. /\ Len(M) \in Nat \ {0} /\ Len(N) = Len(M) + 1 /\ N[1] = 0 /\ N[2] = n /\ M[1] = 0
      /\ \A k \in 1..Len(M) : N[k + 1] = n + M[k] /\ M[k] \in 0..m
  <2>1. N = <<0>> \o InOrder({n} \cup shift(endings(u), n), n + m)
    <3>1. N = <<0>> \o InOrder(endings(t), Len(t))
      BY DEF lineEndings, endings
    <3>2. QED
      BY <1>2, <1>3, <3>1, Zenon
  <2>2. M = <<0>> \o InOrder(endings(u), m)
    BY DEF lineEndings, endings
  <2>3. endings(u) \subseteq 1..m
    BY DEF endings
  <2>4. n \in Nat \ {0} /\ m \in Nat
    BY <1>1
  <2> HIDE DEF N, M, n, m
  <2>5. Moved(M, N, n, m)
    BY <2>1, <2>2, <2>3, <2>4, BordersMove
  <2>6. QED
    BY <2>5, Zenon DEF Moved
<1>5. /\ K = [k \in 1..(Len(N) - 1) |-> SubSeq(t, N[k] + 1, N[k + 1] - width(t, N[k + 1]))]
      /\ L = [k \in 1..(Len(M) - 1) |-> SubSeq(u, M[k] + 1, M[k + 1] - width(u, M[k + 1]))]
  BY DEF StandardLines
<1>6. Borders(M, endings(u), m)
  BY LineEndingsBorder
<1> HIDE DEF N, M, K, L
<1>7. K[1] = l
  <2>1. isCRLF(t, n) <=> Len(e) = 2
    <3>1. CASE Len(e) = 2
      BY <1>1, <1>2, <3>1
    <3>2. CASE Len(e) = 1 /\ n > 1
      <4>1. n - 1 \in 1..Len(l) /\ n - 1 = Len(l)
        BY <1>1, <3>2
      <4>2. t[n - 1] = l[n - 1] /\ l[n - 1] \notin LineEnds
        BY <1>2, <4>1 DEF NoEnds
      <4>3. t[n - 1] # "CR"
        BY <4>2 DEF LineEnds
      <4>4. QED
        BY <3>2, <4>3
    <3>3. CASE Len(e) = 1 /\ ~(n > 1)
      BY <3>3
    <3>4. QED
      BY <1>1, <3>1, <3>2, <3>3
  <2>2. n - width(t, n) = Len(l)
    <3>1. width(t, n) = IF Len(e) = 2 THEN 2 ELSE 1
      BY <2>1, Zenon
    <3>2. width(t, n) = Len(e)
      <4> HIDE DEF width
      <4>1. QED
        BY <1>1, <3>1
    <3> HIDE DEF width
    <3>3. QED
      BY <1>1, <3>2
  <2>3. 1 \in 1..(Len(N) - 1) /\ 1 + 1 = 2
    BY <1>4
  <2>4. K[1] = SubSeq(t, N[1] + 1, N[2] - width(t, N[2]))
    BY <1>5, <2>3
  <2>5. K[1] = SubSeq(t, 1, Len(l))
    <3> HIDE DEF width, n
    <3>1. QED
      BY <1>4, <2>2, <2>4
  <2>6. SubSeq(t, 1, Len(l)) = l
    <3>1. \A j \in 1..Len(l) : t[j] \in B
      BY <1>2
    <3> DEFINE x == SubSeq(t, 1, Len(l))
    <3>2. x \in Seq(B) /\ Len(x) = (IF 1 <= Len(l) THEN Len(l) - 1 + 1 ELSE 0)
           /\ \A i \in 1..(Len(l) - 1 + 1) : x[i] = t[1 + i - 1]
      BY <1>1, <3>1, SubSeqProperties
    <3> HIDE DEF x
    <3>3. Len(x) = Len(l) /\ \A i \in 1..Len(x) : x[i] = l[i]
      BY <1>1, <1>2, <3>2
    <3>4. x = l
      BY <3>2, <3>3, SeqEqual
    <3>5. QED
      BY <3>4 DEF x
  <2>7. QED
    BY <2>5, <2>6
<1>8. ASSUME NEW k \in 1..(Len(M) - 1) PROVE K[k + 1] = L[k]
  <2> DEFINE a == M[k]
             c == M[k + 1]
  <2>1. k \in 1..Len(M) /\ k + 1 \in 1..Len(M) /\ k + 1 \in 1..(Len(N) - 1) /\ (k + 1) + 1 \in 1..Len(N)
    BY <1>4
  <2>2. a \in 0..m /\ c \in 1..m /\ a < c /\ c \in endings(u)
    <3>1. a < c /\ c \in endings(u)
      BY <1>6 DEF Borders
    <3>2. QED
      BY <1>4, <2>1, <3>1
  <2>3. N[k + 1] = n + a /\ N[(k + 1) + 1] = n + c
    BY <1>4, <2>1
  <2> HIDE DEF a, c
  <2>4. isCRLF(t, n + c) <=> isCRLF(u, c)
    <3>1. t[n + c] = u[c]
      BY <1>2, <2>2
    <3>2. CASE c > 1
      <4>1. c - 1 \in 1..m /\ n + (c - 1) = (n + c) - 1 /\ n + c > 1
        BY <1>1, <2>2, <3>2
      <4>2. t[(n + c) - 1] = u[c - 1]
        BY <1>2, <4>1
      <4>3. QED
        BY <3>1, <3>2, <4>1, <4>2
    <3>3. CASE ~(c > 1)
      <4>1. (n + c) - 1 = n
        BY <1>1, <2>2, <3>3
      <4>2. QED
        BY <1>2, <3>3, <4>1
    <3>4. QED
      BY <3>2, <3>3
  <2>5. width(t, n + c) = width(u, c) /\ width(u, c) \in {1, 2} /\ (width(u, c) = 2 => c > 1)
    BY <2>4
  <2> HIDE DEF width
  <2>6. a + 1 \in 1..(m + 1) /\ c - width(u, c) \in 0..m
    BY <1>1, <2>2, <2>5
  <2>7. SubSeq(t, n + (a + 1), n + (c - width(u, c))) = SubSeq(u, a + 1, c - width(u, c))
    <3> DEFINE from == a + 1
               to == c - width(u, c)
    <3>1. from \in 1..(Len(u) + 1) /\ to \in 0..Len(u) /\ n \in Nat
      BY <1>1, <2>6
    <3> HIDE DEF from, to, n
    <3>2. SubSeq(t, n + from, n + to) = SubSeq(u, from, to)
      BY <1>2, <3>1, StretchMoves
    <3>3. QED
      BY <3>2 DEF from, to
  <2>8. (n + a) + 1 = n + (a + 1) /\ (n + c) - width(t, n + c) = n + (c - width(u, c))
    BY <1>1, <2>2, <2>5
  <2>9. K[k + 1] = SubSeq(t, N[k + 1] + 1, N[(k + 1) + 1] - width(t, N[(k + 1) + 1]))
    BY <1>5, <2>1
  <2>10. L[k] = SubSeq(u, a + 1, c - width(u, c))
    BY <1>5 DEF a, c
  <2>11. QED
    BY <2>3, <2>7, <2>8, <2>9, <2>10, Zenon
<1>9. L \in Seq(Seq(B)) /\ Len(L) = Len(M) - 1
  <2>1. ASSUME NEW over \in BOOLEAN, over PROVE L \in Seq(Seq(B)) /\ Len(L) = Len(M) - 1
    <3>1. ToBeRead(u, u, over)
      BY <2>1 DEF ToBeRead
    <3>2. L \in Seq(Seq(B)) /\ Len(M) = Len(L) + 1
      BY <3>1, LinesType DEF L, M
    <3>3. Len(L) \in Nat
      BY <3>2
    <3>4. QED
      BY <3>2, <3>3
  <2>2. QED
    BY <2>1, Zenon
<1>10. K = <<l>> \o L
  <2>1. DOMAIN K = 1..(Len(L) + 1) /\ K = [k \in 1..(Len(L) + 1) |-> K[k]] /\ Len(L) \in Nat
    <3>1. Len(N) - 1 = Len(L) + 1 /\ Len(L) \in Nat
      BY <1>4, <1>9
    <3> HIDE DEF width
    <3>2. QED
      BY <1>5, <3>1
  <2> DEFINE R == <<l>> \o L
  <2>2. R = [k \in 1..(Len(L) + 1) |-> R[k]] /\ R[1] = l /\ \A k \in 1..Len(L) : R[k + 1] = L[k]
    BY <1>9
  <2> HIDE DEF R
  <2>3. ASSUME NEW k \in 1..(Len(L) + 1) PROVE K[k] = R[k]
    <3>1. CASE k = 1
      BY <1>7, <2>2, <3>1
    <3>2. CASE k # 1
      <4>1. k - 1 \in 1..Len(L) /\ (k - 1) + 1 = k /\ k - 1 \in 1..(Len(M) - 1)
        BY <1>9, <2>1, <3>2
      <4>2. K[(k - 1) + 1] = L[k - 1] /\ R[(k - 1) + 1] = L[k - 1]
        BY <1>8, <2>2, <4>1
      <4>3. QED
        BY <4>1, <4>2
    <3>3. QED
      BY <3>1, <3>2
  <2>4. K = R
    BY <2>1, <2>2, <2>3
  <2>5. QED
    BY <2>4 DEF R
<1>11. QED
  BY <1>10, Zenon DEF LineBefore, K, L, t

SameBehind(K, M, n, first, last) == \A k \in first..last : K[n + k] = M[k]

\* The data of lines is that of the same lines behind others.
LEMMA DataMoves ==
    ASSUME NEW n \in Nat, NEW first \in Nat, first # 0, NEW last \in Nat,
           NEW K, NEW M, SameBehind(K, M, n, first, last)
    PROVE  dataOf(K, n + first, n + last) = dataOf(M, first, last)
<1> DEFINE S == {k \in first..last : M[k][1] = "data:"}
           s == InOrder(S, last)
           r == InOrder(shift(S, n), n + last)
<1>1. {k \in (n + first)..(n + last) : K[k][1] = "data:"} = shift(S, n)
  <2>1. ASSUME NEW k \in (n + first)..(n + last), K[k][1] = "data:" PROVE k \in shift(S, n)
    <3>1. k - n \in first..last /\ n + (k - n) = k
      OBVIOUS
    <3>2. K[n + (k - n)] = M[k - n]
      BY <3>1 DEF SameBehind
    <3>3. k - n \in S
      BY <2>1, <3>1, <3>2
    <3>4. QED
      BY <3>1, <3>3 DEF shift
  <2>2. ASSUME NEW k \in shift(S, n)
        PROVE  k \in (n + first)..(n + last) /\ K[k][1] = "data:"
    <3>1. PICK j \in S : k = n + j
      BY DEF shift
    <3>2. j \in first..last /\ M[j][1] = "data:"
      OBVIOUS
    <3>3. K[n + j] = M[j]
      BY <3>2 DEF SameBehind
    <3>4. k \in (n + first)..(n + last)
      BY <3>1, <3>2
    <3>5. QED
      BY <3>1, <3>2, <3>3, <3>4
  <2> HIDE DEF S
  <2>3. QED
    BY <2>1, <2>2
<1>2. /\ dataOf(K, n + first, n + last) = [i \in DOMAIN r |-> Tail(K[r[i]])]
      /\ dataOf(M, first, last) = [i \in DOMAIN s |-> Tail(M[s[i]])]
  BY <1>1, Zenon DEF dataOf
<1>3. S \subseteq 1..last /\ S \subseteq first..last
  OBVIOUS
<1> HIDE DEF S
<1>4. s \in Seq(S) /\ r = [i \in 1..Len(s) |-> n + s[i]]
  <2>1. MovesWhole(S, n, last)
    BY <1>3, OrderMoves
  <2>2. QED
    BY <2>1, Zenon DEF MovesWhole
<1> HIDE DEF s, r
<1>5. DOMAIN s = 1..Len(s) /\ DOMAIN r = DOMAIN s /\ \A i \in DOMAIN s : s[i] \in first..last /\ r[i] = n + s[i]
  <2>1. DOMAIN s = 1..Len(s) /\ \A i \in DOMAIN s : s[i] \in S
    BY <1>4
  <2>2. DOMAIN r = DOMAIN s /\ \A i \in DOMAIN s : r[i] = n + s[i]
    BY <1>4, <2>1
  <2>3. QED
    BY <1>3, <2>1, <2>2
<1>6. ASSUME NEW i \in DOMAIN s PROVE K[r[i]] = M[s[i]]
  BY <1>5 DEF SameBehind
<1>7. QED
  BY <1>2, <1>5, <1>6

\* The events that lines have between them.
EventsOf(L) ==
    LET ends == emptyLines(L)
    IN [e \in 1..(Len(ends) - 1) |-> dataOf(L, ends[e] + 1, ends[e + 1] - 1)]

NoneEmpty(K) == \A k \in 1..Len(K) : K[k] # <<>>

\* The event that lines begin with, and the events of the lines behind it.
LEMMA EventFirst ==
    ASSUME NEW B, NEW K \in Seq(Seq(B)), NoneEmpty(K), NEW M \in Seq(Seq(B))
    PROVE  EventsOf((K \o << <<>> >>) \o M) = <<dataOf(K, 1, Len(K))>> \o EventsOf(M)
<1> DEFINE L == (K \o << <<>> >>) \o M
           n == Len(K) + 1
           m == Len(M)
           N == emptyLines(L)
           P == emptyLines(M)
           E == EventsOf(L)
           D == EventsOf(M)
<1>1. m \in Nat /\ n \in Nat \ {0} /\ Len(K) \in Nat /\ << <<>> >> \in Seq(Seq(B))
  OBVIOUS
<1>2. /\ L \in Seq(Seq(B)) /\ Len(L) = n + m
      /\ \A k \in 1..Len(K) : L[k] = K[k]
      /\ L[n] = <<>>
      /\ \A k \in 1..m : L[n + k] = M[k]
  <2> DEFINE z == << <<>> >>
             h == K \o z
  <2>1. z \in Seq(Seq(B)) /\ Len(z) = 1 /\ z[1] = <<>>
    BY <1>1
  <2>2. L = h \o M
    OBVIOUS
  <2> HIDE DEF z, L
  <2> DEFINE T == Seq(B)
  <2>3. h \in Seq(T) /\ Len(h) = n /\ h[n] = <<>> /\ \A k \in 1..Len(K) : h[k] = K[k]
    <3>1. K \in Seq(T) /\ z \in Seq(T)
      BY <2>1
    <3> HIDE DEF T
    <3>2. /\ h \in Seq(T) /\ Len(h) = Len(K) + Len(z) /\ (\A k \in 1..Len(K) : h[k] = K[k])
          /\ \A k \in 1..Len(z) : h[Len(K) + k] = z[k]
      BY <3>1
    <3>3. 1 \in 1..Len(z)
      BY <2>1
    <3> HIDE DEF h
    <3>4. QED
      BY <2>1, <3>2, <3>3
  <2> HIDE DEF h
  <2>4. L \in Seq(T) /\ Len(L) = n + m /\ (\A k \in 1..n : L[k] = h[k]) /\ \A k \in 1..m : L[n + k] = M[k]
    <3>1. M \in Seq(T)
      OBVIOUS
    <3> HIDE DEF T, n
    <3>0. h \in Seq(T)
      BY <2>3
    <3>2. /\ h \o M \in Seq(T) /\ Len(h \o M) = Len(h) + Len(M)
          /\ \A k \in 1..Len(h) : (h \o M)[k] = h[k]
          /\ \A k \in 1..Len(M) : (h \o M)[Len(h) + k] = M[k]
      BY <3>0, <3>1, ConcatElements
    <3>3. QED
      BY <2>2, <2>3, <3>2, Zenon
  <2>5. n \in 1..n /\ \A k \in 1..Len(K) : k \in 1..n
    BY <1>1
  <2>6. QED
    BY <2>3, <2>4, <2>5
<1> HIDE DEF L
<1>3. EmptyLines(L) = {n} \cup shift(EmptyLines(M), n)
  <2>1. DOMAIN L = 1..(n + m) /\ DOMAIN M = 1..m
    BY <1>2
  <2>2. ASSUME NEW k \in EmptyLines(L), k # n PROVE k \in shift(EmptyLines(M), n)
    <3>1. k \in 1..(n + m) /\ L[k] = <<>>
      BY <2>1 DEF EmptyLines
    <3>2. k \notin 1..Len(K)
      BY <1>2, <3>1 DEF NoneEmpty
    <3>3. k - n \in 1..m /\ n + (k - n) = k
      BY <1>1, <2>2, <3>1, <3>2
    <3>4. L[n + (k - n)] = M[k - n]
      BY <1>2, <3>3
    <3>5. k - n \in EmptyLines(M)
      BY <2>1, <3>1, <3>3, <3>4 DEF EmptyLines
    <3>6. QED
      BY <3>3, <3>5 DEF shift
  <2>3. n \in EmptyLines(L)
    BY <1>1, <1>2, <2>1 DEF EmptyLines
  <2>4. ASSUME NEW k \in shift(EmptyLines(M), n) PROVE k \in EmptyLines(L)
    <3>1. PICK j \in EmptyLines(M) : k = n + j
      BY DEF shift
    <3>2. j \in 1..m /\ M[j] = <<>>
      BY <2>1 DEF EmptyLines
    <3>3. k \in 1..(n + m) /\ L[k] = <<>>
      <4>1. L[n + j] = M[j]
        BY <1>2, <3>2
      <4>2. n + j \in 1..(n + m)
        BY <1>1, <3>2
      <4>3. QED
        BY <3>1, <3>2, <4>1, <4>2
    <3>4. QED
      BY <2>1, <3>3 DEF EmptyLines
  <2> HIDE DEF n
  <2>5. QED
    BY <2>2, <2>3, <2>4
<1>4. /\ Len(P) \in Nat \ {0} /\ Len(N) = Len(P) + 1 /\ N[1] = 0 /\ N[2] = n /\ P[1] = 0
      /\ \A k \in 1..Len(P) : N[k + 1] = n + P[k] /\ P[k] \in 0..m
  <2>1. N = <<0>> \o InOrder({n} \cup shift(EmptyLines(M), n), n + m)
    <3>1. N = <<0>> \o InOrder(EmptyLines(L), Len(L))
      BY DEF emptyLines, EmptyLines
    <3>2. QED
      BY <1>2, <1>3, <3>1, Zenon
  <2>2. P = <<0>> \o InOrder(EmptyLines(M), m)
    BY DEF emptyLines, EmptyLines
  <2>3. EmptyLines(M) \subseteq 1..m
    BY DEF EmptyLines
  <2>4. n \in Nat \ {0} /\ m \in Nat
    BY <1>1
  <2> HIDE DEF N, P, n, m
  <2>5. Moved(P, N, n, m)
    BY <2>1, <2>2, <2>3, <2>4, BordersMove
  <2>6. QED
    BY <2>5, Zenon DEF Moved
<1>5. /\ E = [e \in 1..(Len(N) - 1) |-> dataOf(L, N[e] + 1, N[e + 1] - 1)]
      /\ D = [e \in 1..(Len(P) - 1) |-> dataOf(M, P[e] + 1, P[e + 1] - 1)]
  BY DEF EventsOf
<1>6. Borders(P, EmptyLines(M), m)
  BY EmptyLinesBorder
<1> HIDE DEF N, P, E, D
<1>7. E[1] = dataOf(K, 1, Len(K))
  <2>1. 1 \in 1..(Len(N) - 1) /\ 1 + 1 = 2
    BY <1>4
  <2>2. E[1] = dataOf(L, N[1] + 1, N[2] - 1)
    BY <1>5, <2>1
  <2>3. N[1] + 1 = 1 /\ N[2] - 1 = Len(K)
    BY <1>1, <1>4
  <2>4. dataOf(L, 1, Len(K)) = dataOf(K, 1, Len(K))
    <3> DEFINE one == 1
               last == Len(K)
    <3>1. one \in Nat \ {0} /\ last \in Nat /\ \A k \in one..last : L[k] = K[k]
      BY <1>1, <1>2
    <3> HIDE DEF one, last
    <3>2. dataOf(L, one, last) = dataOf(K, one, last)
      <4>1. SameLines(K, L, one, last)
        BY <3>1, Zenon DEF SameLines
      <4>2. one \in Nat \ {0} /\ last \in Nat
        BY <3>1, Zenon
      <4> HIDE DEF L
      <4>3. QED
        BY <4>1, <4>2, SameData
    <3>3. QED
      BY <3>2 DEF one, last
  <2>5. QED
    BY <2>2, <2>3, <2>4, Zenon
<1>8. ASSUME NEW k \in 1..(Len(P) - 1) PROVE E[k + 1] = D[k]
  <2> DEFINE a == P[k]
             c == P[k + 1]
             first == a + 1
             last == c - 1
  <2>1. k \in 1..Len(P) /\ k + 1 \in 1..Len(P) /\ k + 1 \in 1..(Len(N) - 1)
    BY <1>4
  <2>2. a \in 0..m /\ c \in 1..m /\ a < c
    <3>1. a < c
      BY <1>6 DEF Borders
    <3>2. QED
      BY <1>4, <2>1, <3>1
  <2>3. N[k + 1] = n + a /\ N[(k + 1) + 1] = n + c
    BY <1>4, <2>1
  <2>4. E[k + 1] = dataOf(L, N[k + 1] + 1, N[(k + 1) + 1] - 1) /\ D[k] = dataOf(M, first, last)
    BY <1>5, <2>1
  <2> HIDE DEF a, c
  <2>5. N[k + 1] + 1 = n + first /\ N[(k + 1) + 1] - 1 = n + last
    BY <1>1, <2>2, <2>3
  <2>6. first \in Nat /\ first # 0 /\ last \in Nat /\ \A j \in first..last : j \in 1..m
    BY <1>1, <2>2
  <2>7. n \in Nat /\ SameBehind(L, M, n, first, last)
    <3>1. \A j \in first..last : L[n + j] = M[j]
      BY <1>2, <2>6
    <3>2. QED
      BY <1>1, <3>1 DEF SameBehind
  <2> HIDE DEF first, last, n
  <2>8. dataOf(L, n + first, n + last) = dataOf(M, first, last)
    BY <2>6, <2>7, DataMoves
  <2>9. QED
    BY <2>4, <2>5, <2>8, Zenon
<1> DEFINE d == dataOf(K, 1, Len(K))
           R == <<d>> \o D
<1>9. Len(D) = Len(P) - 1 /\ Len(D) \in Nat /\ DOMAIN D = 1..Len(D)
  BY <1>4, <1>5
<1>10. E = R
  <2> HIDE DEF d
  <2>1. DOMAIN E = 1..(Len(D) + 1) /\ E = [k \in 1..(Len(D) + 1) |-> E[k]]
    <3>1. Len(N) - 1 = Len(D) + 1
      BY <1>4, <1>9
    <3>2. QED
      BY <1>5, <3>1
  <2>2. D \in Seq({D[k] : k \in 1..Len(D)})
    <3>1. D = [k \in 1..Len(D) |-> D[k]]
      BY <1>5, <1>9
    <3> DEFINE T == {D[k] : k \in 1..Len(D)}
    <3>2. \A k \in 1..Len(D) : D[k] \in T
      OBVIOUS
    <3> HIDE DEF T
    <3>3. D \in [1..Len(D) -> T]
      BY <3>1, <3>2
    <3> DEFINE l == Len(D)
    <3>4. l \in Nat /\ D \in [1..l -> T]
      BY <1>9, <3>3
    <3> HIDE DEF l
    <3>5. D \in Seq(T)
      BY <3>4
    <3>6. QED
      BY <3>5 DEF T
  <2>3. R = [k \in 1..(Len(D) + 1) |-> R[k]] /\ R[1] = d /\ \A k \in 1..Len(D) : R[k + 1] = D[k]
    <3> DEFINE T == {D[k] : k \in 1..Len(D)} \cup {d}
    <3>1. D \in Seq(T) /\ <<d>> \in Seq(T)
      BY <2>2
    <3> HIDE DEF T
    <3>2. QED
      BY <1>9, <3>1
  <2> HIDE DEF R
  <2>4. ASSUME NEW k \in 1..(Len(D) + 1) PROVE E[k] = R[k]
    <3>1. CASE k = 1
      BY <1>7, <2>3, <3>1 DEF d
    <3>2. CASE k # 1
      <4>1. k - 1 \in 1..Len(D) /\ (k - 1) + 1 = k /\ k - 1 \in 1..(Len(P) - 1)
        BY <1>9, <3>2
      <4>2. E[(k - 1) + 1] = D[k - 1] /\ R[(k - 1) + 1] = D[k - 1]
        BY <1>8, <2>3, <4>1
      <4>3. QED
        BY <4>1, <4>2
    <3>3. QED
      BY <3>1, <3>2
  <2>5. QED
    BY <2>1, <2>3, <2>4
<1>11. QED
  BY <1>10 DEF E, D, L, R, d

-----------------------------------------------------------------------------
(* What is written in parts.                                               *)

\* The parts of a sequence, joined one by one.
Joining(joined, parts, flat) ==
    /\ Joins(joined, parts) /\ flat = joined[Len(parts)]
    /\ joined[0] = <<>>
    /\ \A n \in 0..(Len(parts) - 1) : joined[n + 1] = joined[n] \o parts[n + 1]

LEMMA PartsJoin ==
    ASSUME NEW A, NEW parts \in Seq(Seq(A))
    PROVE  \E joined \in [0..Len(parts) -> Seq(A)] : Joining(joined, parts, FlattenSeq(parts))
<1>1. PICK joined \in [0..Len(parts) -> Seq(A)] :
         Joins(joined, parts) /\ FlattenSeq(parts) = joined[Len(parts)]
  BY FlattenJoins
<1>2. ASSUME NEW n \in 0..(Len(parts) - 1) PROVE joined[n + 1] = joined[n] \o parts[n + 1]
  <2>1. n + 1 \in 1..Len(parts) /\ (n + 1) - 1 = n
    OBVIOUS
  <2>2. joined[n + 1] = joined[(n + 1) - 1] \o parts[n + 1]
    BY <1>1, <2>1 DEF Joins
  <2>3. QED
    BY <2>1, <2>2, Zenon
<1>3. joined[0] = <<>>
  BY <1>1 DEF Joins
<1>4. QED
  BY <1>1, <1>2, <1>3 DEF Joining

Regrouped(x, p, q) == (x \o p) \o q = x \o (p \o q)

LEMMA Regroups ==
    ASSUME NEW A, NEW x \in Seq(A), NEW p \in Seq(A), NEW q \in Seq(A)
    PROVE  Regrouped(x, p, q)
  BY ConcatAssociative DEF Regrouped

LEMMA FlattenNone == FlattenSeq(<<>>) = <<>>
<1> DEFINE none == <<>>
<1>1. none \in Seq(Seq({})) /\ Len(none) = 0
  OBVIOUS
<1> HIDE DEF none
<1>2. PICK joined \in [0..Len(none) -> Seq({})] : Joining(joined, none, FlattenSeq(none))
  BY <1>1, PartsJoin
<1>3. FlattenSeq(none) = <<>>
  BY <1>1, <1>2 DEF Joining
<1>4. QED
  BY <1>3 DEF none

LEMMA FlattenConcat ==
    ASSUME NEW A, NEW s \in Seq(Seq(A)), NEW t \in Seq(Seq(A))
    PROVE  FlattenSeq(s \o t) = FlattenSeq(s) \o FlattenSeq(t)
<1> DEFINE T == Seq(A)
           p == s \o t
           m == Len(s)
           n == Len(t)
<1>1. /\ m \in Nat /\ n \in Nat /\ p \in Seq(T) /\ Len(p) = m + n
      /\ (\A i \in 1..m : p[i] = s[i]) /\ \A i \in 1..n : p[m + i] = t[i]
  <2>1. s \in Seq(T) /\ t \in Seq(T)
    OBVIOUS
  <2> HIDE DEF T
  <2>2. QED
    BY <2>1, ConcatElements
<1> HIDE DEF p
<1>2. PICK J \in [0..Len(p) -> Seq(A)] : Joining(J, p, FlattenSeq(p))
  BY <1>1, PartsJoin
<1>3. PICK F \in [0..Len(s) -> Seq(A)] : Joining(F, s, FlattenSeq(s))
  BY PartsJoin
<1>4. PICK G \in [0..Len(t) -> Seq(A)] : Joining(G, t, FlattenSeq(t))
  BY PartsJoin
<1> DEFINE S == {i \in 0..m : J[i] = F[i]}
           R == {i \in 0..n : J[m + i] = F[m] \o G[i]}
<1>5. m \in S
  <2>1. 0 \in S
    BY <1>1, <1>2, <1>3 DEF Joining
  <2>2. ASSUME NEW i \in 0..(m - 1), i \in S PROVE i + 1 \in S
    <3>1. i + 1 \in 0..m /\ i + 1 \in 1..m /\ i \in 0..(Len(s) - 1) /\ i \in 0..(Len(p) - 1)
      BY <1>1
    <3>2. J[i + 1] = J[i] \o p[i + 1] /\ F[i + 1] = F[i] \o s[i + 1]
      BY <1>2, <1>3, <3>1 DEF Joining
    <3>3. p[i + 1] = s[i + 1] /\ J[i] = F[i]
      BY <1>1, <2>2, <3>1
    <3>4. J[i + 1] = F[i + 1]
      BY <3>2, <3>3, Zenon
    <3>5. QED
      BY <3>1, <3>4
  <2>3. m \in 0..m
    BY <1>1
  <2> HIDE DEF S, m
  <2>4. 0..m \subseteq S
    BY <1>1, <2>1, <2>2, IntervalInduction
  <2>5. QED
    BY <2>3, <2>4
<1> DEFINE f == F[m]
<1>6. f \in Seq(A)
  <2>1. m \in 0..m
    BY <1>1
  <2>2. QED
    BY <1>3, <2>1
<1>7. 0 \in R
  <2>1. J[m + 0] = F[m] /\ G[0] = <<>>
    <3>1. m + 0 = m
      BY <1>1
    <3>2. J[m] = F[m]
      BY <1>5
    <3>3. G[0] = <<>>
      BY <1>4 DEF Joining
    <3>4. QED
      BY <3>1, <3>2, <3>3, Zenon
  <2>2. f \o <<>> = f
    <3> HIDE DEF f
    <3>1. QED
      BY <1>6
  <2>3. 0 \in 0..n
    BY <1>1
  <2>4. J[m + 0] = F[m] \o G[0]
    BY <2>1, <2>2, Zenon
  <2>5. QED
    BY <2>3, <2>4
<1>8. ASSUME NEW i \in 0..(n - 1), i \in R PROVE i + 1 \in R
  <2>1. /\ m + (i + 1) = (m + i) + 1 /\ i + 1 \in 0..n /\ i + 1 \in 1..n
        /\ m + i \in 0..(Len(p) - 1) /\ i \in 0..(Len(t) - 1)
    BY <1>1
  <2>2. J[(m + i) + 1] = J[m + i] \o p[(m + i) + 1]
    BY <1>2, <2>1 DEF Joining
  <2>3. G[i + 1] = G[i] \o t[i + 1]
    BY <1>4, <2>1 DEF Joining
  <2>4. p[m + (i + 1)] = t[i + 1]
    BY <1>1, <2>1
  <2>5. J[m + i] = F[m] \o G[i]
    BY <1>8
  <2> DEFINE g == G[i]
             q == t[i + 1]
  <2>6. g \in Seq(A) /\ q \in Seq(A)
    <3>1. i \in 0..Len(t)
      BY <2>1
    <3>2. g \in Seq(A)
      BY <1>4, <3>1
    <3>3. q \in T
      <4>1. t \in Seq(T)
        OBVIOUS
      <4> HIDE DEF T
      <4>2. QED
        BY <2>1, <4>1
    <3>4. QED
      BY <3>2, <3>3
  <2> HIDE DEF g, q, f
  <2>7. Regrouped(f, g, q)
    BY <1>6, <2>6, Regroups, Zenon
  <2>8. J[m + (i + 1)] = F[m] \o G[i + 1]
    BY <2>1, <2>2, <2>3, <2>4, <2>5, <2>7, Zenon DEF Regrouped, f, g, q
  <2>9. QED
    BY <2>1, <2>8
<1>9. n \in R
  <2>1. n \in 0..n
    BY <1>1
  <2> HIDE DEF R, n
  <2>2. 0..n \subseteq R
    BY <1>1, <1>7, <1>8, IntervalInduction
  <2>3. QED
    BY <2>1, <2>2
<1>10. FlattenSeq(p) = J[m + n] /\ FlattenSeq(s) = F[m] /\ FlattenSeq(t) = G[n]
  BY <1>1, <1>2, <1>3, <1>4 DEF Joining
<1>11. QED
  BY <1>9, <1>10 DEF p

LEMMA FlattenFirst ==
    ASSUME NEW A, NEW x \in Seq(A), NEW s \in Seq(Seq(A))
    PROVE  FlattenSeq(<<x>> \o s) = x \o FlattenSeq(s)
<1> DEFINE T == Seq(A)
           p == <<x>>
<1>1. p \in Seq(T)
  <2>1. x \in T
    OBVIOUS
  <2> HIDE DEF T
  <2>2. QED
    BY <2>1
<1>2. FlattenSeq(p) = x
  BY FlattenOne
<1> HIDE DEF p
<1>3. FlattenSeq(p \o s) = FlattenSeq(p) \o FlattenSeq(s)
  BY <1>1, FlattenConcat
<1>4. QED
  BY <1>2, <1>3 DEF p

LEMMA PairJoins ==
    ASSUME NEW T, NEW x \in T, NEW y \in T
    PROVE  <<y>> \in Seq(T) /\ <<x, y>> = <<x>> \o <<y>>
<1>1. <<x>> \in Seq(T) /\ <<y>> \in Seq(T) /\ <<x,y>> \in Seq(T)
  OBVIOUS
<1> DEFINE p == <<x>> 
           q == <<y>>
           r == <<x, y>>
<1>2. Len(p) = 1 /\ p[1] = x /\ Len(q) = 1 /\ q[1] = y /\ Len(r) = 2 /\ r[1] = x /\ r[2] = y
  OBVIOUS
<1> HIDE DEF p, q, r
<1>3. r \in Seq(T) /\ p \o q \in Seq(T) /\ Len(p \o q) = Len(p) + Len(q)
    /\ (\A i \in 1..Len(p) : (p \o q)[i] = p[i]) /\ (\A i \in 1..Len(q) : (p \o q)[Len(p) + i] = q[i])
  BY <1>1, ConcatElements DEF p, q, r
<1>4. Len(p \o q) = Len(r) /\ (p \o q)[1] = r[1] /\ (p \o q)[2] = r[2]
  BY <1>2, <1>3
<1>5. p \o q = r
  BY <1>2, <1>3, <1>4, SeqEqual
<1>6. QED
  BY <1>1, <1>5 DEF p, q, r

LEMMA FlattenBoth ==
    ASSUME NEW A, NEW x \in Seq(A), NEW y \in Seq(A)
    PROVE  FlattenSeq(<<x, y>>) = x \o y
<1> DEFINE T == Seq(A)
           s == <<y>>
<1>1. s \in Seq(T) /\ <<x, y>> = <<x>> \o s
  <2>1. x \in T /\ y \in T
    OBVIOUS
  <2> HIDE DEF T
  <2>2. QED
    BY <2>1, PairJoins, Zenon
<1>2. FlattenSeq(s) = y
  BY FlattenOne
<1> HIDE DEF s
<1>3. FlattenSeq(<<x>> \o s) = x \o FlattenSeq(s)
  BY <1>1, FlattenFirst
<1>4. QED
  BY <1>1, <1>2, <1>3, Zenon

LEMMA JoinedIs ==
    ASSUME NEW T, NEW s \in Seq(T), NEW t \in Seq(T), NEW u \in Seq(T), Len(u) = Len(s) + Len(t),
           \A i \in 1..Len(s) : u[i] = s[i], \A i \in 1..Len(t) : u[Len(s) + i] = t[i]
    PROVE  s \o t = u
<1> DEFINE p == s \o t
           m == Len(s)
           n == Len(t)
<1>1. /\ p \in Seq(T) /\ Len(p) = m + n /\ m \in Nat /\ n \in Nat
      /\ (\A i \in 1..m : p[i] = s[i]) /\ \A i \in 1..n : p[m + i] = t[i]
  BY ConcatElements
<1> HIDE DEF p
<1>2. ASSUME NEW i \in 1..Len(p) PROVE p[i] = u[i]
  <2>1. CASE i <= m
    BY <1>1, <2>1
  <2>2. CASE i > m
    <3>1. i - m \in 1..n /\ m + (i - m) = i
      BY <1>1, <2>2
    <3>2. p[m + (i - m)] = t[i - m] /\ u[m + (i - m)] = t[i - m]
      BY <1>1, <3>1
    <3>3. QED
      BY <3>1, <3>2
  <2>3. QED
    BY <1>1, <2>1, <2>2
<1>3. p = u
  BY <1>1, <1>2, SeqEqual
<1>4. QED
  BY <1>3 DEF p

\* Cut into its bytes, a sequence is put together again.
LEMMA FlattenSingles ==
    ASSUME NEW A, NEW w \in Seq(A)
    PROVE  FlattenSeq([i \in DOMAIN w |-> <<w[i]>>]) = w
<1> DEFINE T == Seq(A)
           s == [i \in DOMAIN w |-> <<w[i]>>]
           n == Len(w)
<1>1. n \in Nat /\ DOMAIN w = 1..n
  OBVIOUS
<1>2. s \in Seq(T) /\ Len(s) = n /\ \A i \in 1..n : s[i] = <<w[i]>>
  <2>1. \A i \in 1..n : <<w[i]>> \in T
    OBVIOUS
  <2> HIDE DEF T, n
  <2>2. s \in [1..n -> T]
    BY <1>1, <2>1
  <2> HIDE DEF s
  <2>3. s \in Seq(T) /\ Len(s) = n
    BY <1>1, <2>2
  <2>4. QED
    BY <1>1, <2>3 DEF s
<1> HIDE DEF s
<1>3. PICK J \in [0..Len(s) -> Seq(A)] : Joining(J, s, FlattenSeq(s))
  BY <1>2, PartsJoin
<1> DEFINE S == {i \in 0..n : J[i] = SubSeq(w, 1, i)}
<1>4. 0 \in S
  <2>1. J[0] = <<>> /\ SubSeq(w, 1, 0) = <<>>
    BY <1>3 DEF Joining
  <2>2. QED
    BY <1>1, <2>1
<1>5. ASSUME NEW i \in 0..(n - 1), i \in S PROVE i + 1 \in S
  <2>1. i + 1 \in 0..n /\ i + 1 \in 1..n /\ i \in 0..(Len(s) - 1) /\ (i + 1) - 1 = i
    BY <1>1, <1>2
  <2>2. J[i + 1] = J[i] \o s[i + 1] /\ s[i + 1] = <<w[i + 1]>>
    BY <1>2, <1>3, <2>1 DEF Joining
  <2>3. SubSeq(w, 1, i + 1) = SubSeq(w, 1, (i + 1) - 1) \o <<w[i + 1]>>
    <3> DEFINE k == i + 1
               one == 1
    <3>1. one \in 1..Len(w) /\ k \in one..Len(w)
      BY <1>1, <2>1
    <3> HIDE DEF k, one
    <3>2. SubSeq(w, one, k) = SubSeq(w, one, k - 1) \o <<w[k]>>
      BY <3>1, SubSeqRecursiveSecond
    <3>3. QED
      BY <3>2 DEF k, one
  <2>4. J[i + 1] = SubSeq(w, 1, i + 1)
    BY <1>5, <2>1, <2>2, <2>3
  <2>5. QED
    BY <2>1, <2>4
<1>6. n \in S
  <2>1. n \in 0..n
    BY <1>1
  <2> HIDE DEF S, n
  <2>2. 0..n \subseteq S
    BY <1>1, <1>4, <1>5, IntervalInduction
  <2>3. QED
    BY <2>1, <2>2
<1>7. SubSeq(w, 1, n) = w
  BY SubSeqFull
<1>8. FlattenSeq(s) = J[n]
  BY <1>2, <1>3 DEF Joining
<1>9. QED
  BY <1>6, <1>7, <1>8 DEF s

\* What is put together of the first parts comes first.
LEMMA FlattenBegins ==
    ASSUME NEW A, NEW s \in Seq(Seq(A)), NEW t \in Seq(Seq(A)), StartOf(s, t)
    PROVE  StartOf(FlattenSeq(s), FlattenSeq(t))
<1> DEFINE T == Seq(A)
           m == Len(s)
           n == Len(t)
           u == SubSeq(t, m + 1, n)
<1>1. m \in Nat /\ n \in Nat /\ m <= n /\ \A i \in 1..m : t[i] = s[i]
  BY DEF StartOf
<1>2. s \in Seq(T) /\ t \in Seq(T)
  OBVIOUS
<1> HIDE DEF T
<1>3. u \in Seq(T) /\ Len(u) = n - m /\ \A i \in 1..(n - m) : u[i] = t[m + i]
  BY <1>1, <1>2
<1> HIDE DEF u
<1>4. s \o u = t
  <2>1. Len(t) = Len(s) + Len(u) /\ (\A i \in 1..Len(s) : t[i] = s[i])
         /\ \A i \in 1..Len(u) : t[Len(s) + i] = u[i]
    BY <1>1, <1>3
  <2>2. QED
    BY <1>2, <1>3, <2>1, JoinedIs
<1>5. FlattenSeq(s \o u) = FlattenSeq(s) \o FlattenSeq(u)
  BY <1>3, FlattenConcat DEF T
<1> DEFINE f == FlattenSeq(s)
           g == FlattenSeq(u)
<1>6. f \in Seq(A) /\ g \in Seq(A)
  BY <1>3, FlattenType DEF T
<1> HIDE DEF f, g
<1>7. StartOf(f, f \o g)
  BY <1>6 DEF StartOf
<1>8. QED
  BY <1>4, <1>5, <1>7, Zenon DEF f, g

-----------------------------------------------------------------------------
(* The events of a stream, one by one.                                     *)

\* A stream begins with an event of data d, and goes on with rest.
EventOf(B, t, d, u) ==
    \E K \in Seq(Seq(B)) :
        /\ NoneEmpty(K)
        /\ StandardLines(t) = (K \o << <<>> >>) \o StandardLines(u)
        /\ d = dataOf(K, 1, Len(K))

LEMMA LinesAreSequences ==
    ASSUME NEW B, NEW t \in Seq(B)
    PROVE  StandardLines(t) \in Seq(Seq(B))
<1>1. ASSUME NEW over \in BOOLEAN, over PROVE StandardLines(t) \in Seq(Seq(B))
  <2>1. ToBeRead(t, t, over)
    BY <1>1 DEF ToBeRead
  <2>2. QED
    BY <2>1, LinesType
<1>2. QED
  BY <1>1, Zenon

LEMMA EndsHere ==
    ASSUME NEW B, NEW e \in Seq(B), e \in WrittenEnds, NEW u \in Seq(B)
    PROVE  EventOf(B, e \o u, <<>>, u)
<1> DEFINE M == StandardLines(u)
           K == <<>>
           l == <<>>
           T == Seq(B)
<1>1. l \in Seq(B) /\ l \o e = e /\ Len(l) = 0
  OBVIOUS
<1> HIDE DEF l
<1>2. StandardLines((l \o e) \o u) = <<l>> \o M
  <2>1. NoEnds(l)
    BY <1>1 DEF NoEnds
  <2>2. l \in Seq(B)
    BY <1>1
  <2>3. LineBefore(l, e, u)
    BY <2>1, <2>2, LineFirst
  <2> HIDE DEF M
  <2>4. QED
    BY <2>3, Zenon DEF LineBefore, M
<1>3. StandardLines(e \o u) = <<l>> \o M
  BY <1>1, <1>2, Zenon
<1>4. M \in Seq(T)
  BY LinesAreSequences
<1>5. K \in Seq(T) /\ <<l>> \in Seq(T) /\ K \o <<l>> = <<l>> /\ NoneEmpty(K) /\ Len(K) = 0
  <2>1. l \in T
    BY <1>1
  <2> HIDE DEF T
  <2>2. QED
    BY <2>1 DEF NoneEmpty
<1>6. dataOf(K, 1, Len(K)) = <<>>
  <2> DEFINE z == 0
  <2>1. z \in Nat /\ z + 1 = 1 /\ Len(K) = z
    BY <1>5
  <2> HIDE DEF z, K
  <2>2. dataOf(K, z + 1, z) = <<>>
    BY <2>1, DataOfNone
  <2>3. QED
    BY <2>1, <2>2, Zenon
<1> HIDE DEF K, M
<1>7. StandardLines(e \o u) = (K \o <<l>>) \o M
  BY <1>3, <1>5, Zenon
<1>8. QED
  BY <1>5, <1>6, <1>7, Zenon DEF EventOf, M, l

\* The data of a line, and of those behind it.
LEMMA DataOfMore ==
    ASSUME NEW B, NEW l \in Seq(B), l # <<>>, NEW K \in Seq(Seq(B)), NoneEmpty(K)
    PROVE  /\ dataOf(<<l>> \o K, 1, Len(<<l>> \o K)) = dataValues(l) \o dataOf(K, 1, Len(K))
           /\ <<l>> \o K \in Seq(Seq(B)) /\ NoneEmpty(<<l>> \o K)
<1> DEFINE T == Seq(B)
           L == <<l>> \o K
           n == Len(K)
           one == 1
           last == Len(L)
<1>1. n \in Nat /\ L \in Seq(T) /\ Len(L) = n + 1 /\ L[1] = l /\ \A k \in 1..n : L[k + 1] = K[k]
  <2>1. l \in T /\ K \in Seq(T)
    OBVIOUS
  <2> HIDE DEF T
  <2>2. QED
    BY <2>1
<1> HIDE DEF L
<1>2. ASSUME NEW k \in 1..Len(L) PROVE L[k] # <<>>
  <2>1. CASE k = 1
    BY <1>1, <2>1
  <2>2. CASE k # 1
    <3>1. k - 1 \in 1..n /\ (k - 1) + 1 = k
      BY <1>1, <2>2
    <3>2. L[(k - 1) + 1] = K[k - 1] /\ K[k - 1] # <<>>
      BY <1>1, <3>1 DEF NoneEmpty
    <3>3. QED
      BY <3>1, <3>2
  <2>3. QED
    BY <2>1, <2>2
<1>3. dataOf(L, one, last) = dataValues(L[one]) \o dataOf(L, one + 1, last)
  <2>1. last \in 1..Len(L) /\ one \in 1..last /\ \A k \in one..last : L[k] # <<>>
    BY <1>1, <1>2
  <2>2. L \in Seq(Seq(B))
    BY <1>1
  <2> HIDE DEF one, last
  <2>3. QED
    BY <2>1, <2>2, DataOfFirst
<1>4. dataOf(L, one + one, one + n) = dataOf(K, one, n)
  <2>1. one \in Nat /\ one # 0 /\ n \in Nat
    BY <1>1
  <2>2. SameBehind(L, K, one, one, n)
    <3>1. ASSUME NEW k \in one..n PROVE L[one + k] = K[k]
      <4>1. k \in 1..n /\ one + k = k + 1
        BY <1>1
      <4>2. L[k + 1] = K[k]
        BY <1>1, <4>1
      <4>3. QED
        BY <4>1, <4>2, Zenon
    <3>2. QED
      BY <3>1 DEF SameBehind
  <2> HIDE DEF one, n
  <2>3. QED
    BY <2>1, <2>2, DataMoves
<1>5. one + n = last /\ one + one = one + 1
  BY <1>1
<1>6. dataOf(L, 1, Len(L)) = dataValues(l) \o dataOf(K, 1, Len(K))
  BY <1>1, <1>3, <1>4, <1>5, Zenon
<1>7. QED
  BY <1>1, <1>2, <1>6 DEF L, NoneEmpty

LEMMA LineAdds ==
    ASSUME NEW B, NEW e \in Seq(B), e \in WrittenEnds, NEW l \in Seq(B), l # <<>>, NoEnds(l),
           NEW t \in Seq(B), NEW d, NEW u \in Seq(B), EventOf(B, t, d, u)
    PROVE  EventOf(B, (l \o e) \o t, dataValues(l) \o d, u)
<1> DEFINE T == Seq(B)
           M == StandardLines(u)
           z == << <<>> >>
<1>1. PICK K \in Seq(Seq(B)) :
         NoneEmpty(K) /\ StandardLines(t) = (K \o z) \o M /\ d = dataOf(K, 1, Len(K))
  BY Zenon DEF EventOf
<1>2. M \in Seq(T) /\ K \in Seq(T) /\ l \in T /\ z \in Seq(T)
  <2>1. M \in Seq(T) /\ l \in T /\ K \in Seq(T) /\ <<>> \in T
    BY LinesAreSequences
  <2> HIDE DEF T
  <2>2. QED
    BY <2>1
<1> HIDE DEF M, z
<1> DEFINE L == <<l>> \o K
<1>3. StandardLines((l \o e) \o t) = <<l>> \o ((K \o z) \o M)
  <2>1. LineBefore(l, e, t)
    BY LineFirst
  <2>2. QED
    BY <1>1, <2>1, Zenon DEF LineBefore
<1>4. <<l>> \o ((K \o z) \o M) = (L \o z) \o M
  <2> HIDE DEF T
  <2> DEFINE p == K \o z
             s == <<l>>
  <2>1. s \in Seq(T) /\ p \in Seq(T) /\ L \in Seq(T)
    BY <1>2
  <2>2. Regrouped(s, K, z)
    BY <1>2, <2>1, Regroups
  <2> HIDE DEF p
  <2>3. Regrouped(s, p, M)
    BY <1>2, <2>1, Regroups
  <2>4. QED
    BY <2>2, <2>3, Zenon DEF Regrouped, p
<1>5. dataOf(L, 1, Len(L)) = dataValues(l) \o d /\ L \in Seq(Seq(B)) /\ NoneEmpty(L)
  <2>1. /\ dataOf(L, 1, Len(L)) = dataValues(l) \o dataOf(K, 1, Len(K))
        /\ L \in Seq(Seq(B)) /\ NoneEmpty(L)
    BY <1>1, DataOfMore
  <2>2. QED
    BY <1>1, <2>1, Zenon
<1> HIDE DEF L
<1>6. StandardLines((l \o e) \o t) = (L \o z) \o M
  BY <1>3, <1>4, Zenon
<1>7. QED
  BY <1>5, <1>6, Zenon DEF EventOf, M, z

LEMMA EventIs ==
    ASSUME NEW B, NEW t \in Seq(B), NEW d, NEW u \in Seq(B), EventOf(B, t, d, u)
    PROVE  StandardEvents(t) = <<d>> \o StandardEvents(u)
<1> DEFINE M == StandardLines(u)
<1>1. PICK K \in Seq(Seq(B)) :
         NoneEmpty(K) /\ StandardLines(t) = (K \o << <<>> >>) \o M /\ d = dataOf(K, 1, Len(K))
  BY Zenon DEF EventOf
<1>2. M \in Seq(Seq(B))
  BY LinesAreSequences
<1>3. StandardEvents(t) = EventsOf(StandardLines(t)) /\ StandardEvents(u) = EventsOf(M)
  BY DEF StandardEvents, EventsOf
<1> HIDE DEF M
<1>4. EventsOf((K \o << <<>> >>) \o M) = <<dataOf(K, 1, Len(K))>> \o EventsOf(M)
  BY <1>1, <1>2, EventFirst
<1>5. QED
  BY <1>1, <1>3, <1>4, Zenon

\* A stream without a line end has no event.
LEMMA NoEventYet ==
    ASSUME NEW B, NEW t \in Seq(B), NoEnds(t)
    PROVE  StandardEvents(t) = <<>>
<1>1. endings(t) = {}
  BY DEF endings, NoEnds, LineEnds
<1>2. lineEndings(t) = <<0>>
  <2>1. lineEndings(t) = <<0>> \o InOrder(endings(t), Len(t))
    BY DEF lineEndings, endings
  <2>2. Len(t) \in Nat
    OBVIOUS
  <2>3. InOrder({}, Len(t)) = <<>>
    BY <2>2, InOrderNone
  <2>4. <<0>> \o <<>> = <<0>>
    OBVIOUS
  <2>5. QED
    BY <1>1, <2>1, <2>3, <2>4, Zenon
<1> DEFINE L == StandardLines(t)
<1>3. L \in Seq(Seq(B)) /\ Len(L) = 0
  <2>1. ASSUME NEW over \in BOOLEAN, over PROVE Len(lineEndings(t)) = Len(L) + 1
    <3>1. ToBeRead(t, t, over)
      BY <2>1 DEF ToBeRead
    <3>2. QED
      BY <3>1, LinesType
  <2>2. L \in Seq(Seq(B)) /\ Len(lineEndings(t)) = Len(L) + 1
    BY <2>1, LinesAreSequences, Zenon
  <2> HIDE DEF L
  <2>3. Len(L) \in Nat /\ Len(lineEndings(t)) = 1
    <3>1. Len(<<0>>) = 1
      OBVIOUS
    <3>2. Len(L) \in Nat
      <4> DEFINE T == Seq(B)
      <4>1. L \in Seq(T)
        BY <2>2
      <4> HIDE DEF T
      <4>2. QED
        BY <4>1
    <3>3. QED
      BY <1>2, <3>1, <3>2, Zenon
  <2>4. Len(L) = 0
    <3>1. Len(lineEndings(t)) = Len(L) + 1
      BY <2>2
    <3>2. QED
      <4> DEFINE a == Len(lineEndings(t))
                 c == Len(L)
      <4>1. c \in Nat /\ a = 1 /\ a = c + 1
        BY <2>3, <3>1
      <4> HIDE DEF a, c
      <4>2. c = 0
        BY <4>1
      <4>3. QED
        BY <4>2 DEF c
  <2>5. QED
    BY <2>2, <2>4, Zenon
<1> HIDE DEF L
<1>4. emptyLines(L) = <<0>>
  <2>1. {k \in DOMAIN L : L[k] = <<>>} = {}
    BY <1>3
  <2>2. InOrder({}, Len(L)) = <<>>
    BY <1>3, InOrderNone
  <2>3. <<0>> \o <<>> = <<0>>
    OBVIOUS
  <2>4. emptyLines(L) = <<0>> \o InOrder({k \in DOMAIN L : L[k] = <<>>}, Len(L))
    BY DEF emptyLines
  <2>5. QED
    BY <2>1, <2>2, <2>3, <2>4, Zenon
<1>5. StandardEvents(t) = EventsOf(L)
  BY DEF StandardEvents, EventsOf, L
<1>6. EventsOf(L) = <<>>
  <2> DEFINE ends == emptyLines(L)
             D == EventsOf(L)
  <2>1. Len(ends) - 1 = 0
    BY <1>4
  <2>2. D = [e \in 1..(Len(ends) - 1) |-> dataOf(L, ends[e] + 1, ends[e + 1] - 1)]
    BY DEF EventsOf
  <2> HIDE DEF ends, D
  <2>3. D = <<>>
    <3>1. D \in [1..0 -> {}]
      <4>1. D = [e \in 1..0 |-> dataOf(L, ends[e] + 1, ends[e + 1] - 1)]
        BY <2>1, <2>2, Zenon
      <4>2. QED
        BY <4>1
    <3>2. D \in Seq({}) /\ Len(D) = 0
      BY <3>1
    <3>3. QED
      BY <3>2, EmptySeq
  <2>4. QED
    BY <2>3 DEF D
<1>7. QED
  BY <1>5, <1>6
=============================================================================
