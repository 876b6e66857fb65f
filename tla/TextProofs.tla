----------------------------- MODULE TextProofs -----------------------------
(***************************************************************************)
(* Theorems about the cursors over a string and the conversions, for       *)
(* strings, numbers and widths of any size.                                *)
(***************************************************************************)
EXTENDS MCText, Induction, SequenceTheorems, FiniteSetTheorems

-----------------------------------------------------------------------------
(***************************************************************************)
(* A set of numbers in ascending order.                                    *)
(***************************************************************************)
Enumerates(f, B) ==
  /\ f \in Seq(B)
  /\ \A b \in B : \E k \in 1 .. Len(f) : f[k] = b
  /\ \A i, j \in 1 .. Len(f) : i < j => f[i] < f[j]

LEMMA Enumerable ==
  ASSUME NEW N \in Nat, NEW B, B \subseteq 0 .. N
  PROVE  \E f : Enumerates(f, B)
  <1> DEFINE D == {m \in Nat : \E f : Enumerates(f, {b \in B : b < m})}
  <1>0. \A b \in B : b \in Nat /\ b <= N
    OBVIOUS
  <1>1. 0 \in D
    <2>1. {b \in B : b < 0} = {}
      <3>1. \A b \in B : ~(b < 0)
        BY <1>0
      <3> QED  BY <3>1, Zenon
    <2>2. Enumerates(<<>>, {})
      BY DEF Enumerates
    <2> QED  BY <2>1, <2>2, Zenon
  <1>2. ASSUME NEW m \in Nat, m \in D PROVE m + 1 \in D
    <2> DEFINE L == {b \in B : b < m}
               M == {b \in B : b < m + 1}
    <2>1. PICK f : Enumerates(f, L)
      BY <1>2
    <2>2. CASE m \in B
      <3> DEFINE g == Append(f, m)
      <3>1. M = L \cup {m}
        <4>1. \A b \in B : b < m + 1 <=> b < m \/ b = m
          BY <1>0
        <4> QED  BY <2>2, <4>1
      <3>2. f \in Seq(M)
        BY <2>1, <3>1, SeqMonotonic DEF Enumerates
      <3>3. g \in Seq(M) /\ Len(g) = Len(f) + 1 /\ g[Len(f) + 1] = m
            /\ \A k \in 1 .. Len(f) : g[k] = f[k]
        BY <3>1, <3>2
      <3>4. \A k \in 1 .. Len(f) : f[k] \in L
        BY <2>1 DEF Enumerates
      <3>5. \A b \in M : \E k \in 1 .. Len(g) : g[k] = b
        <4> SUFFICES ASSUME NEW b \in M PROVE \E k \in 1 .. Len(g) : g[k] = b
          OBVIOUS
        <4>1. CASE b = m
          BY <3>2, <3>3, <4>1
        <4>2. CASE b # m
          <5>1. PICK k \in 1 .. Len(f) : f[k] = b
            BY <2>1, <3>1, <4>2 DEF Enumerates
          <5>2. k \in 1 .. Len(g)
            BY <3>2, <3>3
          <5> QED  BY <3>3, <5>1, <5>2
        <4> QED  BY <4>1, <4>2
      <3>6. \A i, j \in 1 .. Len(g) : i < j => g[i] < g[j]
        <4> SUFFICES ASSUME NEW i \in 1 .. Len(g), NEW j \in 1 .. Len(g), i < j
                     PROVE  g[i] < g[j]
          OBVIOUS
        <4>1. i \in 1 .. Len(f)
          BY <3>2, <3>3
        <4>2. CASE j \in 1 .. Len(f)
          BY <2>1, <3>3, <4>1, <4>2 DEF Enumerates
        <4>3. CASE j = Len(f) + 1
          BY <3>3, <3>4, <4>1, <4>3
        <4> QED  BY <3>2, <3>3, <4>2, <4>3
      <3>7. Enumerates(g, M)
        BY <3>3, <3>5, <3>6 DEF Enumerates
      <3>8. m + 1 \in Nat
        OBVIOUS
      <3> QED  BY <3>7, <3>8, Zenon
    <2>3. CASE m \notin B
      <3>1. M = L
        <4>1. \A b \in B : b < m + 1 <=> b < m
          BY <1>0, <2>3
        <4> QED  BY <4>1
      <3> QED  BY <2>1, <3>1
    <2> QED  BY <2>2, <2>3
  <1> HIDE DEF D
  <1>3. N + 1 \in D
    BY <1>1, <1>2, SetInduction
  <1>4. {b \in B : b < N + 1} = B
    <2>1. \A b \in B : b < N + 1
      BY <1>0
    <2> QED  BY <2>1
  <1> QED  BY <1>3, <1>4 DEF D

LEMMA RankedFact ==
  ASSUME NEW B, B \subseteq Int, NEW f, Enumerates(f, B)
  PROVE  Cardinality(B) = Len(f) /\ \A k \in 1 .. Len(f) : Ranked(B, k) = f[k]
  <1>0. f \in Seq(B) /\ Len(f) \in Nat
    BY DEF Enumerates
  <1>1. f \in Seq(B) /\ Len(f) \in Nat /\ \A k \in 1 .. Len(f) : f[k] \in B /\ f[k] \in Int
    <2>1. \A k \in 1 .. Len(f) : f[k] \in B
      BY <1>0
    <2> QED  BY <1>0, <2>1
  <1>2. ASSUME NEW n \in 0 .. Len(f), NEW C, C = {f[k] : k \in 1 .. n}
        PROVE  Cardinality(C) = n
    <2> DEFINE g == [k \in 1 .. n |-> f[k]]
    <2>1. g \in Surjection(1 .. n, C)
      BY <1>2 DEF Surjection
    <2>2. \A i, j \in 1 .. n : i # j => g[i] # g[j]
      <3> SUFFICES ASSUME NEW i \in 1 .. n, NEW j \in 1 .. n, i # j PROVE f[i] # f[j]
        OBVIOUS
      <3>1. i \in 1 .. Len(f) /\ j \in 1 .. Len(f) /\ (i < j \/ j < i)
        BY <1>1
      <3>2. f[i] < f[j] \/ f[j] < f[i]
        BY <3>1 DEF Enumerates
      <3> QED  BY <1>1, <3>1, <3>2
    <2>3. g \in Bijection(1 .. n, C)
      BY <2>1, <2>2 DEF Bijection, Injection, Surjection, IsInjective
    <2> QED  BY <2>3, FS_CountingElements DEF ExistsBijection
  <1>3. B = {f[k] : k \in 1 .. Len(f)}
    BY <1>1 DEF Enumerates
  <1>4. ASSUME NEW k \in 1 .. Len(f) PROVE Cardinality({a \in B : a < f[k]}) = k - 1
    <2>1. ASSUME NEW i \in 1 .. Len(f) PROVE f[i] < f[k] <=> i < k
      <3>1. i < k => f[i] < f[k]
        BY DEF Enumerates
      <3>2. i > k => f[i] > f[k]
        BY <1>1 DEF Enumerates
      <3> QED  BY <1>1, <3>1, <3>2
    <2>2. {a \in B : a < f[k]} = {f[i] : i \in 1 .. k - 1}
      <3>1. ASSUME NEW a \in B, a < f[k] PROVE a \in {f[i] : i \in 1 .. k - 1}
        <4>1. PICK i \in 1 .. Len(f) : f[i] = a
          BY DEF Enumerates
        <4>2. i \in 1 .. k - 1
          BY <1>0, <2>1, <3>1, <4>1
        <4> QED  BY <4>1, <4>2
      <3>2. ASSUME NEW i \in 1 .. k - 1 PROVE f[i] \in B /\ f[i] < f[k]
        <4>1. i \in 1 .. Len(f) /\ i < k
          BY <1>0
        <4> QED  BY <1>1, <2>1, <4>1
      <3> QED  BY <3>1, <3>2
    <2>3. k - 1 \in 0 .. Len(f)
      BY <1>1
    <2> QED  BY <1>2, <2>2, <2>3
  <1>5. ASSUME NEW k \in 1 .. Len(f) PROVE Ranked(B, k) = f[k]
    <2> DEFINE Is(b) == Cardinality({a \in B : a < b}) = k - 1
    <2>1. f[k] \in B /\ Is(f[k])
      BY <1>1, <1>4
    <2>2. ASSUME NEW b \in B, Is(b) PROVE b = f[k]
      <3>1. PICK i \in 1 .. Len(f) : f[i] = b
        BY DEF Enumerates
      <3>2. Cardinality({a \in B : a < b}) = i - 1
        BY <1>4, <3>1
      <3> QED  BY <2>2, <3>1, <3>2
    <2> HIDE DEF Is
    <2>3. Ranked(B, k) = CHOOSE b \in B : Is(b)
      BY DEF Ranked, Is
    <2> QED  BY <2>1, <2>2, <2>3
  <1>6. Len(f) \in 0 .. Len(f)
    BY <1>1
  <1> QED  BY <1>2, <1>3, <1>5, <1>6

-----------------------------------------------------------------------------
(***************************************************************************)
(* Pieces of a sequence.                                                   *)
(***************************************************************************)
LEMMA SubFact ==
  ASSUME NEW S, NEW s \in Seq(S), NEW a \in 0 .. Len(s), NEW b \in a .. Len(s)
  PROVE  /\ SubSeq(s, a + 1, b) \in Seq(S) /\ Len(SubSeq(s, a + 1, b)) = b - a
         /\ \A k \in 1 .. b - a : SubSeq(s, a + 1, b)[k] = s[a + k]
  <1>1. Len(s) \in Nat /\ a + 1 \in Int /\ b \in Int /\ \A k \in a + 1 .. b : s[k] \in S
    OBVIOUS
  <1> DEFINE m == a + 1
  <1>2. m \in Int /\ b \in Int /\ \A k \in m .. b : s[k] \in S
    BY <1>1
  <1> HIDE DEF m
  <1>3. /\ SubSeq(s, m, b) \in Seq(S)
        /\ Len(SubSeq(s, m, b)) = IF m <= b THEN b - m + 1 ELSE 0
        /\ \A i \in 1 .. b - m + 1 : SubSeq(s, m, b)[i] = s[m + i - 1]
    BY <1>2, SubSeqProperties
  <1>4. b - m + 1 = b - a /\ (m <= b \/ b = a) /\ \A i \in Int : m + i - 1 = a + i
    BY <1>1 DEF m
  <1>5. Len(SubSeq(s, m, b)) = b - a
    BY <1>1, <1>3, <1>4 DEF m
  <1>6. \A k \in 1 .. b - a : SubSeq(s, m, b)[k] = s[a + k]
    BY <1>3, <1>4
  <1> QED  BY <1>3, <1>5, <1>6 DEF m

\* What is behind a position.
Drop(s, i) == SubSeq(s, i + 1, Len(s))

LEMMA DropFact ==
  ASSUME NEW S, NEW s \in Seq(S), NEW i \in 0 .. Len(s)
  PROVE  /\ Drop(s, i) \in Seq(S) /\ Len(Drop(s, i)) = Len(s) - i
         /\ \A k \in 1 .. Len(s) - i : Drop(s, i)[k] = s[i + k]
  <1>1. Len(s) \in i .. Len(s)
    OBVIOUS
  <1> QED  BY <1>1, SubFact DEF Drop

LEMMA SubOfBehind ==
  ASSUME NEW S, NEW s \in Seq(S), NEW i \in 0 .. Len(s),
         NEW a \in 0 .. Len(s) - i, NEW b \in a .. Len(s) - i
  PROVE  SubSeq(Drop(s, i), a + 1, b) = SubSeq(s, a + i + 1, b + i)
  <1> DEFINE t == Drop(s, i)
             u == SubSeq(t, a + 1, b)
             v == SubSeq(s, (a + i) + 1, b + i)
  <1>0. Len(s) \in Nat
    OBVIOUS
  <1>1. t \in Seq(S) /\ Len(t) = Len(s) - i /\ \A k \in 1 .. Len(s) - i : t[k] = s[i + k]
    BY DropFact
  <1> HIDE DEF t
  <1>2. u \in Seq(S) /\ Len(u) = b - a /\ \A k \in 1 .. b - a : u[k] = t[a + k]
    BY <1>1, SubFact
  <1>3. v \in Seq(S) /\ Len(v) = b - a /\ \A k \in 1 .. b - a : v[k] = s[(a + i) + k]
    <2> DEFINE c == a + i
               d == b + i
    <2>1. c \in 0 .. Len(s) /\ d \in c .. Len(s) /\ d - c = b - a
      BY <1>0
    <2> HIDE DEF c, d
    <2>2. SubSeq(s, c + 1, d) \in Seq(S) /\ Len(SubSeq(s, c + 1, d)) = d - c
          /\ \A k \in 1 .. d - c : SubSeq(s, c + 1, d)[k] = s[c + k]
      BY <2>1, SubFact
    <2> QED  BY <2>1, <2>2 DEF c, d
  <1>4. \A k \in 1 .. b - a : t[a + k] = s[(a + i) + k]
    <2> SUFFICES ASSUME NEW k \in 1 .. b - a PROVE t[a + k] = s[(a + i) + k]
      OBVIOUS
    <2>1. a + k \in 1 .. Len(s) - i /\ i + (a + k) = (a + i) + k
      BY <1>0
    <2> QED  BY <1>1, <2>1
  <1> HIDE DEF u, v
  <1>5. u = v
    BY <1>2, <1>3, <1>4, SeqEqual
  <1> QED  BY <1>5 DEF t, u, v

-----------------------------------------------------------------------------
(***************************************************************************)
(* The fields of a string, from its beginning.                             *)
(***************************************************************************)
Cut(s, sep) ==
  /\ \A c \in Cuts(s, sep) : c \in Nat /\ c <= Len(s) + 1
  /\ \A ae \in BOOLEAN : Begins(s, sep, ae) \subseteq 0 .. Len(s)
  /\ 0 \in Cuts(s, sep) /\ Len(s) + 1 \in Cuts(s, sep) /\ Len(s) \in Nat
  /\ \A i \in 1 .. Len(s) : i \in Cuts(s, sep) <=> s[i] = sep

LEMMA CutsFact ==
  ASSUME NEW S, NEW s \in Seq(S), NEW sep
  PROVE  Cut(s, sep)
  <1>1. Len(s) \in Nat
    OBVIOUS
  <1>2. Cuts(s, sep) \subseteq 0 .. Len(s) + 1
    BY <1>1 DEF Cuts
  <1>3. \A ae \in BOOLEAN : Begins(s, sep, ae) \subseteq 0 .. Len(s)
    BY <1>1, <1>2 DEF Begins
  <1>4. \A i \in 1 .. Len(s) : i \in Cuts(s, sep) <=> s[i] = sep
    BY <1>1 DEF Cuts
  <1>5. 0 \in Cuts(s, sep) /\ Len(s) + 1 \in Cuts(s, sep)
    BY DEF Cuts
  <1>6. \A c \in Cuts(s, sep) : c \in Nat /\ c <= Len(s) + 1
    BY <1>1, <1>2
  <1> QED  BY <1>1, <1>2, <1>3, <1>4, <1>5, <1>6 DEF Cut

LEMMA FieldFact ==
  ASSUME NEW S, NEW s \in Seq(S), NEW sep, NEW c \in Cuts(s, sep), NEW d \in Cuts(s, sep), c < d,
         \A e \in Cuts(s, sep) : e > c => d <= e
  PROVE  FieldAt(s, sep, c) = SubSeq(s, c + 1, d - 1)
  <1> DEFINE Is(x) == x > c /\ \A e \in Cuts(s, sep) : e > c => x <= e
  <1>0. Cut(s, sep)
    BY CutsFact
  <1>1. \A e \in Cuts(s, sep) : e \in Int
    BY <1>0 DEF Cut
  <1>2. \A x \in Cuts(s, sep) : Is(x) => x = d
    BY <1>1
  <1>3. Is(d)
    BY <1>1
  <1>4. FieldAt(s, sep, c) = SubSeq(s, c + 1, (CHOOSE x \in Cuts(s, sep) : Is(x)) - 1)
    BY DEF FieldAt
  <1> HIDE DEF Is
  <1> QED  BY <1>2, <1>3, <1>4

LEMMA SplitFact ==
  ASSUME NEW S, NEW s \in Seq(S), NEW sep, NEW ae \in BOOLEAN, NEW f, Enumerates(f, Begins(s, sep, ae))
  PROVE  Split(s, sep, ae) = [k \in 1 .. Len(f) |-> FieldAt(s, sep, f[k])]
  <1> DEFINE B == Begins(s, sep, ae)
  <1>0. Cut(s, sep)
    BY CutsFact
  <1>1. B \subseteq Int
    BY <1>0 DEF Cut
  <1>2. Split(s, sep, ae) = [k \in 1 .. Cardinality(B) |-> FieldAt(s, sep, Ranked(B, k))]
    BY DEF Split
  <1> HIDE DEF B
  <1>3. Cardinality(B) = Len(f) /\ \A k \in 1 .. Len(f) : Ranked(B, k) = f[k]
    BY <1>1, RankedFact DEF B
  <1> QED  BY <1>2, <1>3

\* The fields behind a separator are those of the string behind it.
LEMMA FieldsBehind ==
  ASSUME NEW S, NEW s \in Seq(S), NEW sep, NEW ae \in BOOLEAN, NEW i \in 1 .. Len(s), s[i] = sep
  PROVE  /\ \A c \in Nat : c \in Begins(Drop(s, i), sep, ae) <=> c + i \in Begins(s, sep, ae)
         /\ \A c \in Begins(Drop(s, i), sep, ae) :
              FieldAt(s, sep, c + i) = FieldAt(Drop(s, i), sep, c)
  <1> DEFINE t == Drop(s, i)
  <1>0. Len(s) \in Nat /\ i \in Nat /\ i <= Len(s)
    OBVIOUS
  <1>1. t \in Seq(S) /\ Len(t) = Len(s) - i /\ \A k \in 1 .. Len(t) : t[k] = s[k + i]
    <2>1. t \in Seq(S) /\ Len(t) = Len(s) - i /\ \A k \in 1 .. Len(s) - i : t[k] = s[i + k]
      BY <1>0, DropFact
    <2> QED  BY <1>0, <2>1
  <1>b. \A c \in 0 .. Len(s) - i : \A b \in c .. Len(s) - i :
          SubSeq(t, c + 1, b) = SubSeq(s, c + i + 1, b + i)
    <2>1. i \in 0 .. Len(s)
      BY <1>0
    <2> QED  BY <2>1, SubOfBehind
  <1> HIDE DEF t
  <1>a. Cut(s, sep) /\ Cut(t, sep)
    BY <1>1, CutsFact
  <1>2. ASSUME NEW c \in Nat PROVE c \in Cuts(t, sep) <=> c + i \in Cuts(s, sep)
    <2>1. CASE c = 0
      BY <1>0, <1>1, <2>1, <1>a DEF Cut
    <2>2. CASE c \in 1 .. Len(t)
      <3>1. c + i \in 1 .. Len(s)
        BY <1>0, <1>1, <2>2
      <3> QED  BY <1>1, <2>2, <3>1, <1>a DEF Cut
    <2>3. CASE c > Len(t)
      <3>1. c \in Cuts(t, sep) <=> c = Len(t) + 1
        <4>1. Len(t) \in Nat /\ Len(t) + 1 \in Cuts(t, sep) /\ \A d \in Cuts(t, sep) : d <= Len(t) + 1
          BY <1>a DEF Cut
        <4>2. c \in Cuts(t, sep) => c <= Len(t) + 1
          BY <4>1
        <4> QED  BY <2>3, <4>1, <4>2
      <3>2. c + i \in Cuts(s, sep) <=> c + i = Len(s) + 1
        BY <1>0, <1>1, <2>3, <1>a DEF Cut
      <3> QED  BY <1>0, <1>1, <3>1, <3>2
    <2> QED  BY <1>0, <1>1, <2>1, <2>2, <2>3
  <1>3. ASSUME NEW c \in Nat PROVE c \in Begins(t, sep, ae) <=> c + i \in Begins(s, sep, ae)
    <2>1. c + 1 \in Cuts(t, sep) <=> c + i + 1 \in Cuts(s, sep)
      <3>1. c + 1 \in Nat /\ (c + 1) + i = c + i + 1
        BY <1>0
      <3> QED  BY <1>2, <3>1
    <2>2. c <= Len(t) <=> c + i <= Len(s)
      BY <1>0, <1>1
    <2> QED  BY <1>2, <2>1, <2>2 DEF Begins
  <1>4. ASSUME NEW c \in Begins(t, sep, ae) PROVE FieldAt(s, sep, c + i) = FieldAt(t, sep, c)
    <2>1. c \in Cuts(t, sep) /\ c \in Nat /\ c <= Len(t)
      <3>1. c \in Cuts(t, sep) /\ c <= Len(t)
        BY DEF Begins
      <3> QED  BY <1>a, <3>1 DEF Cut
    <2> DEFINE N == {d \in Cuts(t, sep) : d > c}
    <2>2. N \subseteq Nat /\ N # {}
      <3>1. Len(t) \in Nat /\ Len(t) + 1 \in Cuts(t, sep) /\ \A d \in Cuts(t, sep) : d \in Nat
        BY <1>a DEF Cut
      <3>2. Len(t) + 1 \in N
        BY <2>1, <3>1
      <3> QED  BY <3>1, <3>2
    <2>3. PICK d \in N : \A e \in N : d <= e
      BY <2>2, LeastNumber
    <2>4. FieldAt(t, sep, c) = SubSeq(t, c + 1, d - 1)
      <3>1. d \in Cuts(t, sep) /\ c < d /\ \A e \in Cuts(t, sep) : e > c => d <= e
        BY <2>1, <2>2, <2>3
      <3> QED  BY <1>1, <2>1, <3>1, FieldFact
    <2>5. c + i \in Cuts(s, sep) /\ d + i \in Cuts(s, sep) /\ c + i < d + i /\ d \in Nat
      BY <1>0, <1>2, <2>1, <2>2, <2>3
    <2>6. ASSUME NEW e \in Cuts(s, sep), e > c + i PROVE d + i <= e
      <3>1. e \in Nat /\ e - i \in Nat /\ (e - i) + i = e
        BY <1>0, <2>1, <2>6, <1>a DEF Cut
      <3>2. e - i \in Cuts(t, sep)
        BY <1>2, <3>1
      <3>3. e - i > c
        BY <1>0, <2>1, <2>6, <3>1
      <3>4. d <= e - i
        BY <2>3, <3>2, <3>3
      <3> QED  BY <1>0, <2>5, <3>1, <3>4
    <2>7. FieldAt(s, sep, c + i) = SubSeq(s, c + i + 1, (d + i) - 1)
      <3> DEFINE a == c + i
                 b == d + i
      <3>1. a \in Cuts(s, sep) /\ b \in Cuts(s, sep) /\ a < b
            /\ \A e \in Cuts(s, sep) : e > a => b <= e
        BY <2>5, <2>6
      <3> HIDE DEF a, b
      <3>2. FieldAt(s, sep, a) = SubSeq(s, a + 1, b - 1)
        BY <3>1, FieldFact
      <3> QED  BY <3>2 DEF a, b
    <2>8. d <= Len(t) + 1 /\ d > c
      BY <1>1, <2>3, <1>a DEF Cut
    <2>9. SubSeq(t, c + 1, d - 1) = SubSeq(s, c + i + 1, (d - 1) + i)
      <3> DEFINE b == d - 1
      <3>1. c \in 0 .. Len(s) - i /\ b \in c .. Len(s) - i /\ i \in 0 .. Len(s)
        BY <1>0, <1>1, <2>1, <2>5, <2>8
      <3> HIDE DEF b
      <3>2. SubSeq(t, c + 1, b) = SubSeq(s, c + i + 1, b + i)
        BY <1>b, <3>1
      <3> QED  BY <3>2 DEF b
    <2>10. (d + i) - 1 = (d - 1) + i
      BY <1>0, <2>5
    <2> QED  BY <2>4, <2>7, <2>9, <2>10
  <1> QED  BY <1>3, <1>4 DEF t

LEMMA SplitType ==
  ASSUME NEW S, NEW s \in Seq(S), NEW sep, NEW ae \in BOOLEAN
  PROVE  Split(s, sep, ae) \in Seq(Seq(S))
  <1>1. Cut(s, sep)
    BY CutsFact
  <1>2. ASSUME NEW c \in Begins(s, sep, ae) PROVE FieldAt(s, sep, c) \in Seq(S)
    <2>1. c \in Cuts(s, sep) /\ c \in Nat /\ c <= Len(s)
      <3>1. c \in Cuts(s, sep) /\ c <= Len(s)
        BY DEF Begins
      <3> QED  BY <1>1, <3>1 DEF Cut
    <2> DEFINE N == {d \in Cuts(s, sep) : d > c}
    <2>2. N \subseteq Nat /\ N # {}
      <3>1. Len(s) \in Nat /\ Len(s) + 1 \in Cuts(s, sep) /\ \A d \in Cuts(s, sep) : d \in Nat
        BY <1>1 DEF Cut
      <3>2. Len(s) + 1 \in N
        BY <2>1, <3>1
      <3> QED  BY <3>1, <3>2
    <2>3. PICK d \in N : \A e \in N : d <= e
      BY <2>2, LeastNumber
    <2>4. FieldAt(s, sep, c) = SubSeq(s, c + 1, d - 1)
      BY <2>1, <2>3, FieldFact
    <2> DEFINE b == d - 1
    <2>5. c \in 0 .. Len(s) /\ b \in c .. Len(s)
      <3>1. d \in Nat /\ d <= Len(s) + 1 /\ Len(s) \in Nat /\ d > c
        BY <1>1, <2>3 DEF Cut
      <3> QED  BY <2>1, <3>1
    <2> HIDE DEF b
    <2>6. SubSeq(s, c + 1, b) \in Seq(S)
      BY <2>5, SubFact
    <2> QED  BY <2>4, <2>6 DEF b
  <1> DEFINE B == Begins(s, sep, ae)
  <1>3. Len(s) \in Nat /\ B \subseteq 0 .. Len(s)
    BY <1>1 DEF Cut
  <1>4. PICK f : Enumerates(f, B)
    BY <1>3, Enumerable
  <1>5. Split(s, sep, ae) = [k \in 1 .. Len(f) |-> FieldAt(s, sep, f[k])]
    BY <1>4, SplitFact
  <1>6. Len(f) \in Nat /\ \A k \in 1 .. Len(f) : f[k] \in B
    <2>1. f \in Seq(B)
      BY <1>4 DEF Enumerates
    <2> HIDE DEF B
    <2> QED  BY <2>1
  <1>7. \A k \in 1 .. Len(f) : FieldAt(s, sep, f[k]) \in Seq(S)
    BY <1>2, <1>6
  <1> QED  BY <1>5, <1>6, <1>7

\* Up to the first separator and behind it.
LEMMA SplitFirst ==
  ASSUME NEW S, NEW s \in Seq(S), NEW sep, NEW ae \in BOOLEAN, NEW i \in 1 .. Len(s), s[i] = sep,
         \A k \in 1 .. i - 1 : s[k] # sep
  PROVE  Split(s, sep, ae) =
           (IF ae \/ i # 1 THEN <<SubSeq(s, 1, i - 1)>> ELSE <<>>) \o Split(Drop(s, i), sep, ae)
  <1> DEFINE t == Drop(s, i)
             B == Begins(s, sep, ae)
             C == Begins(t, sep, ae)
             keep == ae \/ i # 1
             first == IF keep THEN <<0>> ELSE <<>>
  <1>0. Len(s) \in Nat /\ i \in Nat /\ i > 0 /\ i <= Len(s)
    OBVIOUS
  <1>1. t \in Seq(S) /\ Len(t) = Len(s) - i
    BY <1>0, DropFact
  <1>c. /\ \A c \in Nat : c \in Begins(t, sep, ae) <=> c + i \in Begins(s, sep, ae)
        /\ \A c \in Begins(t, sep, ae) : FieldAt(s, sep, c + i) = FieldAt(t, sep, c)
    BY FieldsBehind
  <1> HIDE DEF t
  <1>2. Cut(s, sep) /\ Cut(t, sep)
    BY <1>1, CutsFact
  <1>3. Len(t) \in Nat /\ C \subseteq 0 .. Len(t) /\ C \subseteq Nat
    BY <1>2 DEF Cut
  <1>4. PICK g : Enumerates(g, C)
    BY <1>3, Enumerable
  <1>5. /\ \A c \in Nat : c \in C <=> c + i \in B
        /\ \A c \in C : FieldAt(s, sep, c + i) = FieldAt(t, sep, c)
    BY <1>c
  <1>6. 0 \in B <=> keep
    <2>1. 0 \in Cuts(s, sep) /\ 0 <= Len(s)
      BY <1>0, <1>2 DEF Cut
    <2>2. 1 \in Cuts(s, sep) <=> i = 1
      <3>1. 1 \in 1 .. Len(s)
        BY <1>0
      <3>2. 1 \in Cuts(s, sep) <=> s[1] = sep
        BY <1>2, <3>1 DEF Cut
      <3> QED  BY <1>0, <3>2
    <2> QED  BY <2>1, <2>2 DEF Begins
  <1>7. ASSUME NEW b \in B, b # 0 PROVE b \in Nat /\ b >= i
    <2>1. b \in 0 .. Len(s) /\ b \in Cuts(s, sep)
      BY <1>2 DEF Cut, Begins
    <2>2. s[b] = sep
      BY <1>2, <1>7, <2>1 DEF Cut
    <2> QED  BY <1>0, <1>7, <2>1, <2>2
  <1>8. C \subseteq Nat /\ B \subseteq Nat /\ i \in Nat /\ 0 < i
        /\ g \in Seq(C) /\ Len(g) \in Nat /\ \A k \in 1 .. Len(g) : g[k] \in C
    <2>1. g \in Seq(C)
      BY <1>4 DEF Enumerates
    <2>2. B \subseteq Nat
      BY <1>2 DEF Cut
    <2> HIDE DEF B, C
    <2>3. Len(g) \in Nat /\ \A k \in 1 .. Len(g) : g[k] \in C
      BY <2>1
    <2> QED  BY <1>0, <1>3, <2>1, <2>2, <2>3
  <1> DEFINE a == Len(first)
             n == a + Len(g)
             f == [k \in 1 .. n |-> IF k <= a THEN 0 ELSE g[k - a] + i]
  <1>9. a = (IF keep THEN 1 ELSE 0) /\ a \in {0, 1}
    OBVIOUS
  <1> HIDE DEF B, C, first, keep, a
  <1>a. n \in Nat /\ n = a + Len(g)
    BY <1>8, <1>9
  <1> HIDE DEF n
  <1>b. f \in [1 .. n -> Int] /\ \A k \in 1 .. n : f[k] = IF k <= a THEN 0 ELSE g[k - a] + i
    <2> SUFFICES ASSUME NEW k \in 1 .. n, k > a PROVE g[k - a] + i \in Int
      BY <1>9
    <2>1. k - a \in 1 .. Len(g)
      BY <1>8, <1>9, <1>a
    <2>2. g[k - a] \in Nat
      BY <1>8, <2>1
    <2> QED  BY <1>8, <2>2
  <1> HIDE DEF f
  <1>10. Len(f) = a + Len(g) /\ \A k \in 1 .. Len(f) : f[k] = IF k <= a THEN 0 ELSE g[k - a] + i
    BY <1>a, <1>b
  <1>11. \A k \in 1 .. Len(f) : f[k] \in B
    <2> SUFFICES ASSUME NEW k \in 1 .. Len(f) PROVE f[k] \in B
      OBVIOUS
    <2>1. CASE k <= a
      BY <1>6, <1>8, <1>9, <1>10, <2>1
    <2>2. CASE k > a
      <3>1. k - a \in 1 .. Len(g)
        BY <1>8, <1>9, <1>10, <2>2
      <3>2. g[k - a] \in C /\ g[k - a] \in Nat
        BY <1>8, <3>1
      <3>3. f[k] = g[k - a] + i
        BY <1>9, <1>10, <2>2
      <3>4. g[k - a] + i \in B
        BY <1>5, <3>2
      <3> QED  BY <3>3, <3>4
    <2> QED  BY <1>8, <1>9, <1>10, <2>1, <2>2
  <1>12. f \in Seq(B)
    <2>1. f \in [1 .. n -> B]
      BY <1>a, <1>b, <1>10, <1>11
    <2> QED  BY <1>a, <2>1
  <1>13. \A b \in B : \E k \in 1 .. Len(f) : f[k] = b
    <2> SUFFICES ASSUME NEW b \in B PROVE \E k \in 1 .. Len(f) : f[k] = b
      OBVIOUS
    <2>1. CASE b = 0
      <3>1. a = 1 /\ 1 \in 1 .. Len(f)
        BY <1>6, <1>8, <1>9, <1>10, <2>1
      <3> QED  BY <1>10, <2>1, <3>1
    <2>2. CASE b # 0
      <3>1. b - i \in Nat /\ (b - i) + i = b
        BY <1>7, <1>8, <2>2
      <3>2. b - i \in C
        BY <1>5, <3>1
      <3>3. PICK k \in 1 .. Len(g) : g[k] = b - i
        BY <1>4, <3>2 DEF Enumerates
      <3>4. k + a \in 1 .. Len(f) /\ ~(k + a <= a) /\ (k + a) - a = k
        BY <1>8, <1>9, <1>10
      <3> QED  BY <1>10, <3>1, <3>3, <3>4
    <2> QED  BY <2>1, <2>2
  <1>14. \A k, l \in 1 .. Len(f) : k < l => f[k] < f[l]
    <2> SUFFICES ASSUME NEW k \in 1 .. Len(f), NEW l \in 1 .. Len(f), k < l PROVE f[k] < f[l]
      OBVIOUS
    <2>1. l - a \in 1 .. Len(g) /\ ~(l <= a)
      BY <1>8, <1>9, <1>10
    <2>2. f[l] = g[l - a] + i /\ g[l - a] \in Nat
      BY <1>8, <1>10, <2>1
    <2>3. CASE k <= a
      <3>1. f[k] = 0
        BY <1>10, <2>3
      <3> QED  BY <1>8, <2>2, <3>1
    <2>4. CASE k > a
      <3>1. k - a \in 1 .. Len(g) /\ k - a < l - a
        BY <1>8, <1>9, <1>10, <2>4
      <3>2. g[k - a] < g[l - a] /\ g[k - a] \in Nat
        BY <1>4, <1>8, <2>1, <3>1 DEF Enumerates
      <3> QED  BY <1>8, <1>9, <1>10, <2>2, <2>4, <3>2
    <2> QED  BY <1>9, <1>10, <2>3, <2>4
  <1>15. Enumerates(f, B)
    BY <1>12, <1>13, <1>14 DEF Enumerates
  <1> DEFINE x == Split(s, sep, ae)
             y == Split(t, sep, ae)
             z == IF keep THEN <<SubSeq(s, 1, i - 1)>> ELSE <<>>
  <1>16. x = [k \in 1 .. Len(f) |-> FieldAt(s, sep, f[k])]
    BY <1>15, SplitFact DEF B
  <1>17. y = [k \in 1 .. Len(g) |-> FieldAt(t, sep, g[k])]
    <2>1. Enumerates(g, Begins(t, sep, ae))
      BY <1>4 DEF C
    <2>2. ASSUME NEW u \in Seq(S), NEW e, Enumerates(e, Begins(u, sep, ae))
          PROVE  Split(u, sep, ae) = [k \in 1 .. Len(e) |-> FieldAt(u, sep, e[k])]
      BY <2>2, SplitFact
    <2> QED  BY <1>1, <2>1, <2>2
  <1>18. x \in Seq(Seq(S)) /\ y \in Seq(Seq(S))
    BY <1>1, SplitType
  <1>19. keep => FieldAt(s, sep, 0) = SubSeq(s, 1, i - 1)
    <2>1. 0 \in Cuts(s, sep) /\ i \in Cuts(s, sep) /\ 0 < i
      BY <1>0, <1>2 DEF Cut
    <2>2. \A e \in Cuts(s, sep) : e > 0 => i <= e
      <3> SUFFICES ASSUME NEW e \in Cuts(s, sep), e > 0, e < i PROVE FALSE
        BY <1>0, <1>2 DEF Cut
      <3>1. e \in 1 .. i - 1 /\ e \in 1 .. Len(s)
        BY <1>0, <1>2 DEF Cut
      <3> QED  BY <1>2, <3>1 DEF Cut
    <2>3. FieldAt(s, sep, 0) = SubSeq(s, 0 + 1, i - 1)
      BY <2>1, <2>2, FieldFact
    <2> QED  BY <2>3
  <1>20. SubSeq(s, 1, i - 1) \in Seq(S)
    <2> DEFINE b == i - 1
    <2>1. 0 \in 0 .. Len(s) /\ b \in 0 .. Len(s)
      BY <1>0
    <2> HIDE DEF b
    <2>2. SubSeq(s, 0 + 1, b) \in Seq(S)
      BY <2>1, SubFact
    <2> QED  BY <2>2 DEF b
  <1>21. z \in Seq(Seq(S)) /\ Len(z) = a /\ (a = 1 => z[1] = SubSeq(s, 1, i - 1))
    BY <1>9, <1>20
  <1>22. Len(x) = Len(f) /\ Len(y) = Len(g)
    BY <1>8, <1>9, <1>10, <1>16, <1>17
  <1> HIDE DEF z, x, y
  <1>23. z \o y \in Seq(Seq(S)) /\ Len(z \o y) = a + Len(g)
         /\ \A k \in 1 .. a + Len(g) : (z \o y)[k] = IF k <= a THEN z[k] ELSE y[k - a]
    <2>1. /\ z \o y \in Seq(Seq(S)) /\ Len(z \o y) = Len(z) + Len(y)
          /\ \A k \in 1 .. Len(z) + Len(y) : (z \o y)[k] = IF k <= Len(z) THEN z[k] ELSE y[k - Len(z)]
      BY <1>18, <1>21, ConcatProperties, Zenon
    <2> QED  BY <1>21, <1>22, <2>1
  <1>24. ASSUME NEW k \in 1 .. Len(x) PROVE x[k] = (z \o y)[k]
    <2>1. k \in 1 .. Len(f) /\ x[k] = FieldAt(s, sep, f[k])
      BY <1>16, <1>22
    <2>2. CASE k <= a
      <3>1. k = 1 /\ a = 1 /\ keep /\ f[k] = 0
        BY <1>9, <1>10, <2>1, <2>2
      <3>2. (z \o y)[k] = z[k]
        BY <1>10, <1>23, <2>1, <2>2
      <3> QED  BY <1>19, <1>21, <2>1, <3>1, <3>2
    <2>3. CASE k > a
      <3>1. k - a \in 1 .. Len(g)
        BY <1>8, <1>9, <1>10, <2>1, <2>3
      <3>2. f[k] = g[k - a] + i /\ g[k - a] \in C
        BY <1>8, <1>9, <1>10, <2>1, <2>3, <3>1
      <3>3. x[k] = FieldAt(t, sep, g[k - a])
        BY <1>5, <2>1, <3>2
      <3>4. y[k - a] = FieldAt(t, sep, g[k - a])
        BY <1>17, <3>1 DEF y
      <3>5. (z \o y)[k] = y[k - a]
        BY <1>9, <1>10, <1>23, <2>1, <2>3
      <3> QED  BY <3>3, <3>4, <3>5
    <2>4. k <= a \/ k > a
      BY <1>8, <1>9, <1>10, <2>1
    <2> QED  BY <2>2, <2>3, <2>4
  <1>25. x = z \o y
    <2> DEFINE w == z \o y
    <2>1. w \in Seq(Seq(S)) /\ Len(x) = Len(w)
      BY <1>10, <1>22, <1>23
    <2>2. \A k \in 1 .. Len(x) : x[k] = w[k]
      BY <1>24
    <2> HIDE DEF w
    <2>3. x = w
      BY <1>18, <2>1, <2>2, SeqEqual
    <2> QED  BY <2>3 DEF w
  <1> QED  BY <1>25 DEF x, y, z, keep, t

\* A string without a separator is one field.
LEMMA SplitOne ==
  ASSUME NEW S, NEW s \in Seq(S), NEW sep, NEW ae \in BOOLEAN, \A k \in 1 .. Len(s) : s[k] # sep
  PROVE  Split(s, sep, ae) = IF ae \/ s # <<>> THEN <<s>> ELSE <<>>
  <1>1. Cut(s, sep) /\ Len(s) \in Nat
    BY CutsFact
  <1>2. Cuts(s, sep) = {0, Len(s) + 1}
    BY <1>1 DEF Cuts
  <1> DEFINE B == Begins(s, sep, ae)
  <1>3. s = <<>> <=> Len(s) = 0
    BY EmptySeq
  <1>4. B = IF ae \/ s # <<>> THEN {0} ELSE {}
    BY <1>1, <1>2, <1>3 DEF Begins
  <1>5. CASE ae \/ s # <<>>
    <2>1. Enumerates(<<0>>, B)
      <3>1. B = {0} /\ <<0>> \in Seq({0}) /\ Len(<<0>>) = 1 /\ <<0>>[1] = 0
        BY <1>4, <1>5
      <3> QED  BY <3>1 DEF Enumerates
    <2>2. Split(s, sep, ae) = [k \in 1 .. Len(<<0>>) |-> FieldAt(s, sep, <<0>>[k])]
      BY <2>1, SplitFact
    <2> DEFINE d == Len(s) + 1
    <2>3. 0 \in Cuts(s, sep) /\ d \in Cuts(s, sep) /\ 0 < d
          /\ \A e \in Cuts(s, sep) : e > 0 => d <= e
      BY <1>1, <1>2
    <2> HIDE DEF d
    <2>4. FieldAt(s, sep, 0) = SubSeq(s, 0 + 1, d - 1)
      BY <2>3, FieldFact
    <2>5. d - 1 = Len(s)
      BY <1>1 DEF d
    <2>6. SubSeq(s, 0 + 1, d - 1) = s
      BY <2>5, SubSeqFull
    <2>7. Split(s, sep, ae) = [k \in 1 .. 1 |-> FieldAt(s, sep, <<0>>[k])]
      BY <2>2
    <2>8. Split(s, sep, ae) = [k \in 1 .. 1 |-> s]
      <3>1. \A k \in 1 .. 1 : FieldAt(s, sep, <<0>>[k]) = s
        <4>1. <<0>>[1] = 0
          OBVIOUS
        <4>2. \A k \in 1 .. 1 : k = 1
          OBVIOUS
        <4>3. FieldAt(s, sep, 0) = s
          BY <2>4, <2>6
        <4> QED  BY <4>1, <4>2, <4>3, Zenon
      <3> QED  BY <2>7, <3>1
    <2>9. [k \in 1 .. 1 |-> s] = <<s>>
      OBVIOUS
    <2> QED  BY <1>5, <2>8, <2>9
  <1>6. CASE ~(ae \/ s # <<>>)
    <2>1. Enumerates(<<>>, B)
      BY <1>4, <1>6 DEF Enumerates
    <2>2. Split(s, sep, ae) = [k \in 1 .. Len(<<>>) |-> FieldAt(s, sep, <<>>[k])]
      BY <2>1, SplitFact
    <2> QED  BY <1>6, <2>2
  <1> QED  BY <1>5, <1>6


-----------------------------------------------------------------------------
(***************************************************************************)
(* The two searches, in a string that is shorter than npos.                *)
(***************************************************************************)
\* What f is: the first position from p on with a c, or with another character.
IsFind(s, c, p, f) ==
  \/ f = npos /\ \A q \in p .. Len(s) - 1 : s[q + 1] # c
  \/ f \in p .. Len(s) - 1 /\ s[f + 1] = c /\ \A q \in p .. f - 1 : s[q + 1] # c

IsSkip(s, c, p, f) ==
  \/ f = npos /\ \A q \in p .. Len(s) - 1 : s[q + 1] = c
  \/ f \in p .. Len(s) - 1 /\ s[f + 1] # c /\ \A q \in p .. f - 1 : s[q + 1] = c

LEMMA LeastOf ==
  ASSUME NEW p \in Nat, NEW n \in Nat, NEW hits, hits \subseteq p .. n - 1, hits # {}
  PROVE  Min(hits) \in hits /\ \A q \in p .. Min(hits) - 1 : q \notin hits
  <1>1. hits \subseteq Nat
    OBVIOUS
  <1>2. \E x \in hits : \A y \in hits : x =< y
    BY <1>1, LeastNumber
  <1>3. Min(hits) \in hits /\ \A y \in hits : Min(hits) =< y
    BY <1>2 DEF Min
  <1> DEFINE x == Min(hits)
  <1> HIDE DEF x
  <1>4. x \in hits /\ x \in Nat /\ \A y \in hits : x =< y /\ y \in Nat
    BY <1>1, <1>3 DEF x
  <1>5. \A q \in p .. x - 1 : q \notin hits
    BY <1>4
  <1> QED  BY <1>4, <1>5 DEF x

LEMMA Searches ==
  ASSUME NEW S, NEW s \in Seq(S), NEW c, NEW p \in Nat
  PROVE  IsFind(s, c, p, find(s, c, p)) /\ IsSkip(s, c, p, find_first_not_of(s, c, p))
  <1> DEFINE A == {q \in p .. Len(s) - 1 : s[q + 1] = c}
             B == {q \in p .. Len(s) - 1 : s[q + 1] # c}
  <1>1. Len(s) \in Nat /\ A \subseteq p .. Len(s) - 1 /\ B \subseteq p .. Len(s) - 1
    OBVIOUS
  <1>2. find(s, c, p) = IF A = {} THEN npos ELSE Min(A)
    BY DEF find, FirstFrom
  <1>3. find_first_not_of(s, c, p) = IF B = {} THEN npos ELSE Min(B)
    BY DEF find_first_not_of, FirstFrom
  <1>4. A # {} => Min(A) \in A /\ \A q \in p .. Min(A) - 1 : q \notin A
    <2> HIDE DEF A
    <2> QED  BY <1>1, LeastOf
  <1>5. B # {} => Min(B) \in B /\ \A q \in p .. Min(B) - 1 : q \notin B
    <2> HIDE DEF B
    <2> QED  BY <1>1, LeastOf
  <1>6. IsFind(s, c, p, find(s, c, p))
    <2>1. CASE A = {}
      BY <1>2, <2>1 DEF IsFind
    <2>2. CASE A # {}
      <3> DEFINE f == Min(A)
      <3>1. find(s, c, p) = f
        BY <1>2, <2>2
      <3>2. f \in p .. Len(s) - 1 /\ s[f + 1] = c /\ \A q \in p .. f - 1 : q \notin A
        BY <1>4, <2>2
      <3> HIDE DEF f
      <3>3. \A q \in p .. f - 1 : q \in p .. Len(s) - 1
        BY <1>1, <3>2
      <3>4. \A q \in p .. f - 1 : s[q + 1] # c
        BY <3>2, <3>3
      <3> HIDE DEF A
      <3> QED  BY <3>1, <3>2, <3>4 DEF IsFind
    <2> QED  BY <2>1, <2>2
  <1>7. IsSkip(s, c, p, find_first_not_of(s, c, p))
    <2>1. CASE B = {}
      BY <1>3, <2>1 DEF IsSkip
    <2>2. CASE B # {}
      <3> DEFINE f == Min(B)
      <3>1. find_first_not_of(s, c, p) = f
        BY <1>3, <2>2
      <3>2. f \in p .. Len(s) - 1 /\ s[f + 1] # c /\ \A q \in p .. f - 1 : q \notin B
        BY <1>5, <2>2
      <3> HIDE DEF f
      <3>3. \A q \in p .. f - 1 : q \in p .. Len(s) - 1
        BY <1>1, <3>2
      <3>4. \A q \in p .. f - 1 : s[q + 1] = c
        BY <3>2, <3>3
      <3> HIDE DEF B
      <3> QED  BY <3>1, <3>2, <3>4 DEF IsSkip
    <2> QED  BY <2>1, <2>2
  <1> QED  BY <1>6, <1>7

-----------------------------------------------------------------------------
(***************************************************************************)
(* A stream: what one call of items_extract takes is the first field of    *)
(* what the stream has still to give.                                      *)
(***************************************************************************)
\* A stream over s with separator c that stands at p.
Streams(st, s, c, ae, p) ==
  st = [tokens |-> s, sep |-> c, pos |-> p, allow_empty |-> ae]

\* What it has still to give.
RestAt(s, c, ae, p) == IF p > Len(s) THEN <<>> ELSE Split(Drop(s, p), c, ae)

\* One call that takes the item from p to e.
Takes(r, s, c, ae, p, e) ==
  /\ e \in p .. Len(s) /\ (e = Len(s) \/ s[e + 1] = c) /\ \A q \in p .. e - 1 : s[q + 1] # c
  /\ r.ok /\ r.token = SubSeq(s, p + 1, e)
  /\ Streams(r.stream, s, c, ae, e + 1)

LEMMA StreamsFact ==
  ASSUME NEW st, NEW s, NEW c, NEW ae, NEW p, Streams(st, s, c, ae, p)
  PROVE  st.tokens = s /\ st.sep = c /\ st.pos = p /\ st.allow_empty = ae
  BY DEF Streams

LEMMA AdvanceFact ==
  ASSUME NEW st, NEW s, NEW c, NEW ae, NEW p, NEW e, Streams(st, s, c, ae, p)
  PROVE  Streams(Advance(st, e), s, c, ae, e + 1)
  BY DEF Streams, Advance

LEMMA ExtractAt ==
  ASSUME NEW S, NEW s \in Seq(S), Len(s) < npos, NEW c, NEW ae \in BOOLEAN,
         NEW p \in 0 .. Len(s) + 1, NEW st, Streams(st, s, c, ae, p),
         NEW r, r = items_extract(st)
  PROVE  \/ p > Len(s) /\ ~r.ok /\ r.stream = st
         \/ p <= Len(s) /\ ~ae /\ ~r.ok /\ Streams(r.stream, s, c, ae, Len(s) + 1)
            /\ \A q \in p .. Len(s) - 1 : s[q + 1] = c
         \/ \E b \in p .. Len(s), e \in p .. Len(s) :
              /\ Takes(r, s, c, ae, b, e)
              /\ ae => b = p
              /\ ~ae => b < e /\ \A q \in p .. b - 1 : s[q + 1] = c
  <1> DEFINE N == Len(s)
             start == IF ae THEN p ELSE find_first_not_of(s, c, p)
             found == find(s, c, start)
             end == IF found = npos THEN N ELSE found
  <1>1. st.tokens = s /\ st.sep = c /\ st.pos = p /\ st.allow_empty = ae
    BY DEF Streams
  <1>2. N \in Nat /\ p \in Nat /\ p <= N + 1 /\ npos \in Nat /\ N < npos
    BY NposAssumption
  <1>3. ItemStart(st) = start /\ ItemEnd(st, start) = end
    BY <1>1 DEF ItemStart, ItemEnd
  <1> DEFINE none == [ok |-> FALSE, token |-> <<>>, stream |-> st]
             past == [ok |-> FALSE, token |-> <<>>, stream |-> Advance(st, N)]
             item == [ok |-> TRUE, token |-> assign(s, start, end - start),
                      stream |-> Advance(st, end)]
  <1> HIDE DEF start, end
  <1>4. r = IF p > N THEN none ELSE IF start = npos THEN past ELSE item
    BY <1>1, <1>3 DEF items_extract, stream_finish
  <1>5. CASE p > N
    <2>1. ~r.ok /\ r.stream = st
      BY <1>4, <1>5
    <2> QED  BY <1>5, <2>1
  <1>6. CASE p <= N /\ start = npos
    <2>1. r = past
      BY <1>2, <1>4, <1>6
    <2>2. ~ae
      BY <1>2, <1>6 DEF start
    <2>3. IsSkip(s, c, p, start)
      BY <1>2, <2>2, Searches DEF start
    <2>4. \A q \in p .. N - 1 : s[q + 1] = c
      BY <1>2, <1>6, <2>3 DEF IsSkip
    <2>5. ~r.ok /\ r.stream = Advance(st, N)
      BY <2>1
    <2>6. Streams(r.stream, s, c, ae, N + 1)
      BY <2>5, AdvanceFact
    <2> QED  BY <1>6, <2>2, <2>4, <2>5, <2>6
  <1>7. CASE p <= N /\ start # npos
    <2>1. r = item
      BY <1>2, <1>4, <1>7
    <2>2. /\ start \in p .. N
          /\ ae => start = p
          /\ ~ae => start < N /\ s[start + 1] # c /\ \A q \in p .. start - 1 : s[q + 1] = c
      <3>1. CASE ae
        BY <1>2, <1>7, <3>1 DEF start
      <3>2. CASE ~ae
        <4>1. IsSkip(s, c, p, start)
          BY <1>2, <3>2, Searches DEF start
        <4> QED  BY <1>2, <1>7, <3>2, <4>1 DEF IsSkip
      <3> QED  BY <3>1, <3>2
    <2>3. start \in Nat
      BY <1>2, <2>2
    <2>4. IsFind(s, c, start, found)
      BY <2>3, Searches
    <2> HIDE DEF found
    <2>5. end \in start .. N /\ (end = N \/ s[end + 1] = c) /\ \A q \in start .. end - 1 : s[q + 1] # c
      <3>1. CASE found = npos
        BY <1>2, <2>2, <2>3, <2>4, <3>1 DEF IsFind, end
      <3>2. CASE found # npos
        BY <1>2, <2>2, <2>3, <2>4, <3>2 DEF IsFind, end
      <3> QED  BY <3>1, <3>2
    <2>6. ~ae => end > start
      BY <1>2, <2>2, <2>5
    <2>7. r.ok /\ r.token = assign(s, start, end - start) /\ r.stream = Advance(st, end)
      BY <2>1
    <2>8. r.token = SubSeq(s, start + 1, end)
      <3>1. start + (end - start) = end /\ (IF end < N THEN end ELSE N) = end
        BY <1>2, <2>3, <2>5
      <3> QED  BY <2>7, <3>1 DEF assign
    <2>9. Streams(r.stream, s, c, ae, end + 1)
      BY <2>7, AdvanceFact
    <2>10. Takes(r, s, c, ae, start, end)
      BY <2>5, <2>7, <2>8, <2>9 DEF Takes
    <2>11. end \in p .. N
      BY <1>2, <2>2, <2>3, <2>5
    <2> QED  BY <2>2, <2>6, <2>10, <2>11
  <1> QED  BY <1>2, <1>5, <1>6, <1>7

LEMMA RestAtType ==
  ASSUME NEW S, NEW s \in Seq(S), NEW c, NEW ae \in BOOLEAN, NEW p \in Nat
  PROVE  RestAt(s, c, ae, p) \in Seq(Seq(S))
  <1>1. CASE p > Len(s)
    <2>1. RestAt(s, c, ae, p) = <<>>
      BY <1>1 DEF RestAt
    <2> QED  BY <2>1
  <1>2. CASE ~(p > Len(s))
    <2>1. p \in 0 .. Len(s)
      BY <1>2
    <2>2. Drop(s, p) \in Seq(S)
      BY <2>1, DropFact
    <2>3. RestAt(s, c, ae, p) = Split(Drop(s, p), c, ae)
      BY <1>2 DEF RestAt
    <2> DEFINE t == Drop(s, p)
    <2> HIDE DEF t
    <2>4. Split(t, c, ae) \in Seq(Seq(S))
      BY <2>2, SplitType DEF t
    <2> QED  BY <2>3, <2>4 DEF t
  <1> QED  BY <1>1, <1>2

\* What is behind a position behind another one.
LEMMA DropDrop ==
  ASSUME NEW S, NEW s \in Seq(S), NEW p \in 0 .. Len(s), NEW i \in 0 .. Len(s) - p
  PROVE  Drop(Drop(s, p), i) = Drop(s, p + i)
  <1> DEFINE t == Drop(s, p)
             n == Len(s) - p
  <1>1. n \in Nat /\ n + p = Len(s) /\ i \in 0 .. n /\ n \in i .. n
    OBVIOUS
  <1>2. Len(t) = n
    BY DropFact
  <1> HIDE DEF t
  <1>3. SubSeq(t, i + 1, n) = SubSeq(s, i + p + 1, n + p)
    <2>1. i \in 0 .. Len(s) - p /\ n \in i .. Len(s) - p
      BY <1>1
    <2> HIDE DEF n
    <2> QED  BY <2>1, SubOfBehind DEF t
  <1>4. i + p + 1 = (p + i) + 1
    OBVIOUS
  <1> HIDE DEF n
  <1>5. SubSeq(t, i + 1, Len(t)) = SubSeq(s, (p + i) + 1, Len(s))
    BY <1>1, <1>2, <1>3, <1>4
  <1> QED  BY <1>5 DEF t, Drop

LEMMA RestTakes ==
  ASSUME NEW S, NEW s \in Seq(S), NEW c, NEW ae \in BOOLEAN,
         NEW p \in 0 .. Len(s), NEW e \in p .. Len(s), e = Len(s) \/ s[e + 1] = c,
         \A q \in p .. e - 1 : s[q + 1] # c, ae \/ p < e
  PROVE  RestAt(s, c, ae, p) = <<SubSeq(s, p + 1, e)>> \o RestAt(s, c, ae, e + 1)
  <1> DEFINE t == Drop(s, p)
             i == e - p + 1
  <1>1. Len(s) \in Nat /\ p \in Nat /\ e \in Nat /\ p <= e /\ e <= Len(s)
    OBVIOUS
  <1>2. t \in Seq(S) /\ Len(t) = Len(s) - p /\ \A k \in 1 .. Len(s) - p : t[k] = s[p + k]
    BY DropFact
  <1>3. RestAt(s, c, ae, p) = Split(t, c, ae)
    BY <1>1 DEF RestAt
  <1>4. \A b \in 0 .. Len(s) - p : SubSeq(t, 0 + 1, b) = SubSeq(s, 0 + p + 1, b + p)
    <2> DEFINE a == 0
    <2> SUFFICES ASSUME NEW b \in 0 .. Len(s) - p
                 PROVE  SubSeq(t, a + 1, b) = SubSeq(s, a + p + 1, b + p)
      OBVIOUS
    <2>1. a \in 0 .. Len(s) - p /\ b \in a .. Len(s) - p
      BY <1>1
    <2> HIDE DEF a
    <2> QED  BY <2>1, SubOfBehind
  <1>d. \A j \in 0 .. Len(s) - p : Drop(t, j) = Drop(s, p + j)
    BY DropDrop
  <1> HIDE DEF t
  <1>5. \A k \in 1 .. i - 1 : k \in 1 .. Len(t) /\ t[k] # c
    <2> SUFFICES ASSUME NEW k \in 1 .. i - 1 PROVE k \in 1 .. Len(t) /\ t[k] # c
      OBVIOUS
    <2>1. k \in 1 .. Len(s) - p /\ p + k - 1 \in p .. e - 1 /\ (p + k - 1) + 1 = p + k
      BY <1>1
    <2> QED  BY <1>2, <2>1
  <1>6. CASE e = Len(s)
    <2>1. \A k \in 1 .. Len(t) : t[k] # c
      <3>1. i - 1 = Len(t)
        BY <1>1, <1>2, <1>6
      <3> QED  BY <1>5, <3>1
    <2>2. Split(t, c, ae) = IF ae \/ t # <<>> THEN <<t>> ELSE <<>>
      BY <1>2, <2>1, SplitOne
    <2>3. ae \/ t # <<>>
      <3>1. ~ae => Len(t) > 0
        BY <1>1, <1>2, <1>6
      <3> QED  BY <1>2, <3>1
    <2>4. t = SubSeq(s, p + 1, e)
      BY <1>6 DEF t, Drop
    <2>5. RestAt(s, c, ae, e + 1) = <<>>
      BY <1>1, <1>6 DEF RestAt
    <2> DEFINE x == SubSeq(s, p + 1, e)
    <2> HIDE DEF x
    <2>6. <<x>> \o <<>> = <<x>>
      OBVIOUS
    <2> QED  BY <1>3, <2>2, <2>3, <2>4, <2>5, <2>6 DEF x
  <1>7. CASE e # Len(s)
    <2>1. i \in 1 .. Len(t) /\ i \in 1 .. Len(s) - p /\ p + i = e + 1 /\ e + 1 <= Len(s) /\ e + 1 \in Nat
      BY <1>1, <1>2, <1>7
    <2>2. t[i] = c
      BY <1>2, <1>7, <2>1
    <2> DEFINE b == i - 1
    <2>3. b \in 0 .. Len(s) - p /\ b + p = e /\ 0 + p + 1 = p + 1 /\ 0 + 1 = 1 /\ (i = 1 => p = e)
      BY <1>1, <2>1
    <2> HIDE DEF i
    <2>4. Split(t, c, ae) =
            (IF ae \/ i # 1 THEN <<SubSeq(t, 1, i - 1)>> ELSE <<>>) \o Split(Drop(t, i), c, ae)
      <3>1. t \in Seq(S) /\ i \in 1 .. Len(t) /\ t[i] = c /\ \A k \in 1 .. i - 1 : t[k] # c
        BY <1>2, <1>5, <2>1, <2>2
      <3> QED  BY <3>1, SplitFirst, Zenon
    <2>5. ae \/ i # 1
      BY <1>1, <2>3
    <2>6. SubSeq(t, 1, i - 1) = SubSeq(s, p + 1, e)
      <3> HIDE DEF b
      <3>1. SubSeq(t, 0 + 1, b) = SubSeq(s, 0 + p + 1, b + p)
        BY <1>4, <2>3
      <3>2. SubSeq(t, 1, b) = SubSeq(s, p + 1, e)
        BY <2>3, <3>1
      <3> QED  BY <3>2 DEF b
    <2>7. Drop(t, i) = Drop(s, e + 1)
      <3>1. i \in 0 .. Len(s) - p
        BY <1>1, <2>1
      <3>2. Drop(t, i) = Drop(s, p + i)
        BY <1>d, <3>1
      <3> QED  BY <2>1, <3>2
    <2>8. RestAt(s, c, ae, e + 1) = Split(Drop(s, e + 1), c, ae)
      BY <1>1, <2>1 DEF RestAt
    <2> QED  BY <1>3, <2>4, <2>5, <2>6, <2>7, <2>8
  <1> QED  BY <1>6, <1>7

LEMMA RestSkips ==
  ASSUME NEW S, NEW s \in Seq(S), NEW c, NEW p \in 0 .. Len(s) - 1, s[p + 1] = c
  PROVE  RestAt(s, c, FALSE, p) = RestAt(s, c, FALSE, p + 1)
  <1> DEFINE t == Drop(s, p)
  <1>1. Len(s) \in Nat /\ p \in Nat /\ p + 1 <= Len(s) /\ p \in 0 .. Len(s) /\ p + 1 \in Nat
    OBVIOUS
  <1>2. t \in Seq(S) /\ Len(t) = Len(s) - p /\ \A k \in 1 .. Len(s) - p : t[k] = s[p + k]
    BY <1>1, DropFact
  <1>3. RestAt(s, c, FALSE, p) = Split(t, c, FALSE)
    <2>1. ~(p > Len(s))
      BY <1>1
    <2> QED  BY <2>1, Zenon DEF RestAt
  <1>4. RestAt(s, c, FALSE, p + 1) = Split(Drop(s, p + 1), c, FALSE)
    <2>1. ~(p + 1 > Len(s))
      BY <1>1
    <2> QED  BY <2>1, Zenon DEF RestAt
  <1>5. Drop(t, 1) = Drop(s, p + 1)
    <2>1. 1 \in 0 .. Len(s) - p
      BY <1>1
    <2> QED  BY <1>1, <2>1, DropDrop
  <1> HIDE DEF t
  <1>6. 1 \in 1 .. Len(t) /\ t[1] = c /\ \A k \in 1 .. 1 - 1 : t[k] # c
    <2>1. 1 \in 1 .. Len(s) - p
      BY <1>1
    <2> QED  BY <1>2, <2>1
  <1>7. Split(t, c, FALSE) =
          (IF FALSE \/ 1 # 1 THEN <<SubSeq(t, 1, 1 - 1)>> ELSE <<>>) \o Split(Drop(t, 1), c, FALSE)
    <2>1. FALSE \in BOOLEAN
      OBVIOUS
    <2> QED  BY <1>2, <1>6, <2>1, SplitFirst
  <1>8. RestAt(s, c, FALSE, p + 1) \in Seq(Seq(S))
    <2>1. FALSE \in BOOLEAN
      OBVIOUS
    <2> QED  BY <1>1, <2>1, RestAtType
  <1> DEFINE x == RestAt(s, c, FALSE, p + 1)
  <1> HIDE DEF x
  <1>9. <<>> \o x = x
    BY <1>8 DEF x
  <1> QED  BY <1>3, <1>4, <1>5, <1>7, <1>9 DEF x

LEMMA RestSkipsTo ==
  ASSUME NEW S, NEW s \in Seq(S), NEW c, NEW p \in 0 .. Len(s), NEW b \in p .. Len(s),
         \A q \in p .. b - 1 : s[q + 1] = c
  PROVE  RestAt(s, c, FALSE, p) = RestAt(s, c, FALSE, b)
  <1> DEFINE N == b - p
             D == {m \in Nat : RestAt(s, c, FALSE, p) = RestAt(s, c, FALSE, p + m)}
  <1>1. N \in Nat /\ p \in Nat /\ Len(s) \in Nat /\ b <= Len(s) /\ p + N = b
    OBVIOUS
  <1>2. 0 \in D
    BY <1>1
  <1>3. \A m \in 1 .. N : m - 1 \in D => m \in D
    <2> SUFFICES ASSUME NEW m \in 1 .. N, m - 1 \in D PROVE m \in D
      OBVIOUS
    <2> DEFINE q == p + (m - 1)
    <2>1. q \in 0 .. Len(s) - 1 /\ q \in p .. b - 1 /\ q + 1 = p + m /\ m \in Nat
      BY <1>1
    <2>2. RestAt(s, c, FALSE, p) = RestAt(s, c, FALSE, q)
      OBVIOUS
    <2> HIDE DEF q
    <2>3. RestAt(s, c, FALSE, q) = RestAt(s, c, FALSE, q + 1)
      BY <2>1, RestSkips
    <2> QED  BY <2>1, <2>2, <2>3
  <1>4. N \in D
    <2> HIDE DEF D, N
    <2>1. 0 .. N \subseteq D
      BY <1>1, <1>2, <1>3, BoundedInduction
    <2> QED  BY <1>1, <2>1
  <1> QED  BY <1>1, <1>4

\* One call against what the stream has still to give.
Extracts(r, T, s, c, ae, p, e) ==
  /\ e \in 0 .. Len(s) + 1 /\ Streams(r.stream, s, c, ae, e)
  /\ r.ok \/ ~r.ok
  /\ ~r.ok => e = Len(s) + 1 /\ RestAt(s, c, ae, p) = <<>>
  /\ r.ok => /\ e > p /\ r.token \in T /\ (ae \/ r.token # <<>>)
             /\ RestAt(s, c, ae, p) = <<r.token>> \o RestAt(s, c, ae, e)

LEMMA ExtractRest ==
  ASSUME NEW S, NEW s \in Seq(S), Len(s) < npos, NEW c, NEW ae \in BOOLEAN,
         NEW p \in 0 .. Len(s) + 1, NEW st, Streams(st, s, c, ae, p)
  PROVE  \E e : Extracts(items_extract(st), Seq(S), s, c, ae, p, e)
  <1> DEFINE r == items_extract(st)
  <1>0. \/ p > Len(s) /\ ~r.ok /\ r.stream = st
        \/ p <= Len(s) /\ ~ae /\ ~r.ok /\ Streams(r.stream, s, c, ae, Len(s) + 1)
           /\ \A q \in p .. Len(s) - 1 : s[q + 1] = c
        \/ \E b \in p .. Len(s), e \in p .. Len(s) :
             /\ Takes(r, s, c, ae, b, e)
             /\ ae => b = p
             /\ ~ae => b < e /\ \A q \in p .. b - 1 : s[q + 1] = c
    BY ExtractAt
  <1> HIDE DEF r
  <1> SUFFICES \E e : Extracts(r, Seq(S), s, c, ae, p, e)
    BY DEF r
  <1>1. Len(s) \in Nat /\ p \in Nat /\ p <= Len(s) + 1
    OBVIOUS
  <1>2. CASE p > Len(s) /\ ~r.ok /\ r.stream = st
    <2>1. p = Len(s) + 1 /\ RestAt(s, c, ae, p) = <<>>
      BY <1>1, <1>2 DEF RestAt
    <2>2. p \in 0 .. Len(s) + 1 /\ Streams(r.stream, s, c, ae, p)
      BY <1>2
    <2>3. Extracts(r, Seq(S), s, c, ae, p, p)
      BY <1>2, <2>1, <2>2 DEF Extracts
    <2> QED  BY <2>3
  <1>3. CASE p <= Len(s) /\ ~ae /\ ~r.ok /\ Streams(r.stream, s, c, ae, Len(s) + 1)
             /\ \A q \in p .. Len(s) - 1 : s[q + 1] = c
    <2>1. p \in 0 .. Len(s) /\ Len(s) \in p .. Len(s) /\ ae = FALSE
      BY <1>1, <1>3
    <2>2. RestAt(s, c, FALSE, p) = RestAt(s, c, FALSE, Len(s))
      BY <1>3, <2>1, RestSkipsTo
    <2> DEFINE t == Drop(s, Len(s))
    <2>3. t \in Seq(S) /\ Len(t) = 0
      <3>1. Len(s) \in 0 .. Len(s) /\ Len(s) - Len(s) = 0
        BY <1>1
      <3> QED  BY <3>1, DropFact
    <2>4. t = <<>>
      BY <2>3, EmptySeq
    <2>5. RestAt(s, c, FALSE, Len(s)) = Split(t, c, FALSE)
      <3>1. ~(Len(s) > Len(s))
        BY <1>1
      <3> QED  BY <3>1, Zenon DEF RestAt
    <2> HIDE DEF t
    <2>6. Split(t, c, FALSE) = IF FALSE \/ t # <<>> THEN <<t>> ELSE <<>>
      <3>1. FALSE \in BOOLEAN /\ \A k \in 1 .. Len(t) : t[k] # c
        BY <2>3
      <3> QED  BY <2>3, <3>1, SplitOne
    <2>7. RestAt(s, c, ae, p) = <<>>
      BY <2>1, <2>2, <2>4, <2>5, <2>6
    <2>8. Len(s) + 1 \in 0 .. Len(s) + 1
      BY <1>1
    <2> DEFINE e == Len(s) + 1
    <2>9. Streams(r.stream, s, c, ae, e) /\ ~r.ok /\ e \in 0 .. Len(s) + 1 /\ e = Len(s) + 1
      BY <1>3, <2>8
    <2> HIDE DEF e
    <2>10. Extracts(r, Seq(S), s, c, ae, p, e)
      BY <2>7, <2>9 DEF Extracts
    <2> QED  BY <2>10
  <1>4. CASE \E b \in p .. Len(s), e \in p .. Len(s) :
              /\ Takes(r, s, c, ae, b, e)
              /\ ae => b = p
              /\ ~ae => b < e /\ \A q \in p .. b - 1 : s[q + 1] = c
    <2>1. PICK b \in p .. Len(s), e \in p .. Len(s) :
              /\ Takes(r, s, c, ae, b, e)
              /\ ae => b = p
              /\ ~ae => b < e /\ \A q \in p .. b - 1 : s[q + 1] = c
      BY <1>4
    <2>2. /\ e \in b .. Len(s) /\ (e = Len(s) \/ s[e + 1] = c) /\ \A q \in b .. e - 1 : s[q + 1] # c
          /\ r.ok /\ r.token = SubSeq(s, b + 1, e)
          /\ Streams(r.stream, s, c, ae, e + 1)
      BY <2>1 DEF Takes
    <2>3. b \in 0 .. Len(s) /\ p \in 0 .. Len(s) /\ e \in Nat /\ e <= Len(s) /\ p <= e
      BY <1>1
    <2>4. RestAt(s, c, ae, b) = <<SubSeq(s, b + 1, e)>> \o RestAt(s, c, ae, e + 1)
      <3>1. ae \/ b < e
        BY <2>1
      <3> QED  BY <2>2, <2>3, <3>1, RestTakes, Zenon
    <2>5. RestAt(s, c, ae, p) = RestAt(s, c, ae, b)
      <3>1. CASE ae
        BY <2>1, <3>1
      <3>2. CASE ~ae
        <4>1. ae = FALSE /\ \A q \in p .. b - 1 : s[q + 1] = c
          BY <2>1, <3>2
        <4>2. RestAt(s, c, FALSE, p) = RestAt(s, c, FALSE, b)
          BY <2>3, <4>1, RestSkipsTo
        <4> QED  BY <4>1, <4>2
      <3> QED  BY <3>1, <3>2
    <2>6. SubSeq(s, b + 1, e) \in Seq(S) /\ Len(SubSeq(s, b + 1, e)) = e - b
      BY <2>2, <2>3, SubFact
    <2>7. e + 1 \in 0 .. Len(s) + 1 /\ e + 1 > p
      BY <1>1, <2>3
    <2>8. ~ae => r.token # <<>>
      <3>1. ~ae => e - b > 0
        BY <2>1, <2>3
      <3>2. ~ae => Len(r.token) > 0
        BY <2>2, <2>6, <3>1
      <3>3. Len(<<>>) = 0
        OBVIOUS
      <3> QED  BY <3>2, <3>3
    <2> DEFINE d == e + 1
    <2>9. /\ Streams(r.stream, s, c, ae, d) /\ r.ok /\ d \in 0 .. Len(s) + 1 /\ d > p
          /\ r.token \in Seq(S) /\ (ae \/ r.token # <<>>)
          /\ RestAt(s, c, ae, p) = <<r.token>> \o RestAt(s, c, ae, d)
      BY <2>2, <2>4, <2>5, <2>6, <2>7, <2>8
    <2> HIDE DEF d
    <2>10. Extracts(r, Seq(S), s, c, ae, p, d)
      BY <2>9 DEF Extracts
    <2> QED  BY <2>10
  <1> QED  BY <1>0, <1>2, <1>3, <1>4, Zenon

\* What get_remaining gives, cut into fields.
LEMMA RestFact ==
  ASSUME NEW S, NEW s \in Seq(S), Len(s) < npos, NEW c, NEW ae, NEW p \in 0 .. Len(s) + 1,
         NEW st, Streams(st, s, c, ae, p)
  PROVE  Rest(st) = RestAt(s, c, ae, p)
  <1>1. st.tokens = s /\ st.sep = c /\ st.pos = p /\ st.allow_empty = ae
    BY DEF Streams
  <1>2. Len(s) \in Nat /\ p \in Nat /\ npos \in Nat
    BY NposAssumption
  <1>3. CASE p > Len(s)
    BY <1>1, <1>3 DEF Rest, RestAt, stream_finish
  <1>4. CASE ~(p > Len(s))
    <2>1. get_remaining(st) = assign(s, p, npos)
      BY <1>1, <1>4 DEF get_remaining, stream_finish
    <2>2. assign(s, p, npos) = Drop(s, p)
      <3>1. ~(p + npos < Len(s))
        BY <1>2
      <3> QED  BY <3>1 DEF assign, Drop
    <2>3. Rest(st) = Split(Drop(s, p), c, ae)
      BY <1>1, <1>4, <2>1, <2>2 DEF Rest, stream_finish
    <2> QED  BY <1>4, <2>3 DEF RestAt
  <1> QED  BY <1>3, <1>4

\* Walking over a list: the stream stands somewhere in the source.
Walking ==
  how \in {"items", "empties"} =>
    /\ source \in Seq(Alphabet) /\ Len(source) < npos
    /\ out \in Seq(Seq(Alphabet))
    /\ \E ae \in BOOLEAN, p \in 0 .. Len(source) + 1 : Streams(stream, source, " ", ae, p)

LEMMA WalkingInit == TextInit => Walking /\ NothingLost
  <1> SUFFICES ASSUME TextInit, how \in {"items", "empties"} PROVE Walking /\ NothingLost
    BY DEF Walking, NothingLost
  <1>1. /\ source \in BoundedSeq(Alphabet, MaxLength)
        /\ stream = space_node_stream(source, how = "empties")
        /\ out = <<>>
    BY DEF TextInit
  <1>2. source \in Seq(Alphabet) /\ Len(source) < npos
    <2>1. PICK n \in 0 .. MaxLength : source \in [1 .. n -> Alphabet]
      BY <1>1 DEF BoundedSeq, SeqOf
    <2>2. n \in Nat /\ n <= MaxLength /\ n < npos
      BY TextAssumption, NposAssumption
    <2> QED  BY <2>1, <2>2
  <1>3. PICK ae \in BOOLEAN : Streams(stream, source, " ", ae, 0)
    <2>1. CASE how = "empties"
      <3>1. stream = space_node_stream(source, TRUE)
        BY <1>1, <2>1
      <3> QED  BY <3>1 DEF Streams, space_node_stream, node_stream
    <2>2. CASE how # "empties"
      <3>1. stream = space_node_stream(source, FALSE)
        BY <1>1, <2>2
      <3> QED  BY <3>1 DEF Streams, space_node_stream, node_stream
    <2> QED  BY <2>1, <2>2
  <1>4. 0 \in 0 .. Len(source) + 1 /\ ~(0 > Len(source)) /\ Len(source) \in Nat
    BY <1>2
  <1>5. Walking
    <2>1. out \in Seq(Seq(Alphabet))
      BY <1>1
    <2> QED  BY <1>2, <1>3, <1>4, <2>1, Zenon DEF Walking
  <1>6. stream.allow_empty = ae
    BY <1>3 DEF Streams
  <1>7. Rest(stream) = RestAt(source, " ", ae, 0)
    BY <1>2, <1>3, <1>4, RestFact
  <1>8. Drop(source, 0) = source
    <2> DEFINE z == 0
    <2>1. Drop(source, z) = SubSeq(source, z + 1, Len(source)) /\ z + 1 = 1
      BY DEF Drop
    <2>2. SubSeq(source, 1, Len(source)) = source
      BY <1>2, SubSeqFull
    <2> QED  BY <2>1, <2>2
  <1>9. Rest(stream) = Split(source, " ", ae)
    BY <1>4, <1>7, <1>8, Zenon DEF RestAt
  <1> DEFINE x == Split(source, " ", ae)
  <1>10. x \in Seq(Seq(Alphabet))
    BY <1>2, SplitType
  <1>11. <<>> \o x = x
    <2> HIDE DEF x
    <2> QED  BY <1>10
  <1>12. NothingLost
    <2>1. out \o Rest(stream) = x
      BY <1>1, <1>9, <1>11, Zenon
    <2> QED  BY <1>6, <2>1, Zenon DEF NothingLost
  <1> QED  BY <1>5, <1>12

LEMMA WalkingNext == Walking /\ NothingLost /\ [TextNext]_textVars => Walking' /\ NothingLost'
  <1> SUFFICES ASSUME Walking, NothingLost, [TextNext]_textVars, how' \in {"items", "empties"}
               PROVE  Walking' /\ NothingLost'
    BY DEF Walking, NothingLost
  <1>1. CASE UNCHANGED textVars
    BY <1>1 DEF textVars, Walking, NothingLost, Rest, stream_finish, get_remaining
  <1>2. CASE TextNext
    <2>1. NextItem
      BY <1>2 DEF TextNext, NextItem, NextWord, NextNumber, Take
    <2> DEFINE r == items_extract(stream)
               T == Seq(Alphabet)
    <2>2. /\ how \in {"items", "empties"}
          /\ stream' = r.stream
          /\ out' = IF r.ok THEN Append(out, r.token) ELSE out
          /\ source' = source /\ how' = how
      BY <2>1 DEF NextItem, Take
    <2>3. source \in T /\ Len(source) < npos /\ out \in Seq(T) /\ Len(source) \in Nat
      <3>1. source \in T /\ Len(source) < npos /\ out \in Seq(T)
        BY <2>2, Zenon DEF Walking
      <3> QED  BY <3>1
    <2>4. PICK ae \in BOOLEAN, p \in 0 .. Len(source) + 1 : Streams(stream, source, " ", ae, p)
      BY <2>2 DEF Walking
    <2> HIDE DEF r
    <2>5. PICK e : Extracts(items_extract(stream), T, source, " ", ae, p, e)
      BY <2>3, <2>4, ExtractRest
    <2>c. /\ e \in 0 .. Len(source) + 1 /\ Streams(r.stream, source, " ", ae, e)
          /\ ~r.ok => e = Len(source) + 1 /\ RestAt(source, " ", ae, p) = <<>>
          /\ r.ok => r.token \in T /\ RestAt(source, " ", ae, p) = <<r.token>> \o RestAt(source, " ", ae, e)
      BY <2>5, Zenon DEF Extracts, r
    <2>d. stream.allow_empty = ae
      BY <2>4, StreamsFact
    <2>e. r.stream.allow_empty = ae
      BY <2>c, StreamsFact
    <2> DEFINE before == RestAt(source, " ", ae, p)
               after == RestAt(source, " ", ae, e)
    <2>6. Rest(stream) = before
      BY <2>3, <2>4, RestFact
    <2>7. Rest(r.stream) = after
      BY <2>3, <2>c, RestFact
    <2>8. after \in Seq(T)
      <3>1. e \in 0 .. Len(source) + 1
        BY <2>c
      <3>2. e \in Nat
        BY <3>1, <2>3
      <3> QED  BY <2>3, <3>2, RestAtType
    <2>9. stream.allow_empty = ae /\ stream'.allow_empty = ae
      BY <2>2, <2>d, <2>e, Zenon
    <2>10. out \o before = Split(source, " ", ae)
      BY <2>2, <2>6, <2>9, Zenon DEF NothingLost
    <2>a. r.ok => r.token \in T /\ before = <<r.token>> \o after
      BY <2>c, Zenon
    <2>b. ~r.ok => e = Len(source) + 1 /\ before = <<>>
      BY <2>c, Zenon
    <2> HIDE DEF T, before, after
    <2>11. out' \in Seq(T) /\ out' \o after = out \o before
      <3>1. CASE r.ok
        <4>1. r.token \in T /\ out' = Append(out, r.token) /\ before = <<r.token>> \o after
          BY <2>2, <2>a, <3>1
        <4> DEFINE x == r.token
        <4> HIDE DEF x
        <4>2. x \in T
          BY <4>1 DEF x
        <4>3. Append(out, x) \in Seq(T) /\ Append(out, x) = out \o <<x>> /\ <<x>> \in Seq(T)
          BY <2>3, <4>2
        <4>4. (out \o <<x>>) \o after = out \o (<<x>> \o after)
          BY <2>3, <2>8, <4>3, ConcatAssociative
        <4>5. Append(out, x) \in Seq(T) /\ Append(out, x) \o after = out \o (<<x>> \o after)
          BY <4>3, <4>4
        <4> QED  BY <4>1, <4>5 DEF x
      <3>2. CASE ~r.ok
        <4>1. out' = out /\ before = <<>> /\ e = Len(source) + 1
          BY <2>2, <2>b, <3>2
        <4>2. after = <<>>
          <5>1. e > Len(source)
            BY <2>3, <4>1
          <5> QED  BY <5>1, Zenon DEF RestAt, after
        <4> QED  BY <2>3, <4>1, <4>2
      <3> QED  BY <3>1, <3>2
    <2>12. Walking'
      <3>1. \E q \in 0 .. Len(source) + 1 : Streams(stream', source, " ", ae, q)
        BY <2>2, <2>c
      <3> QED  BY <2>2, <2>3, <2>11, <3>1 DEF Walking, T
    <2>13. (Rest(stream))' = after
      BY <2>2, <2>7 DEF Rest, stream_finish, get_remaining
    <2>14. NothingLost'
      <3>1. out' \o (Rest(stream))' = Split(source', " ", stream'.allow_empty)
        BY <2>2, <2>9, <2>10, <2>11, <2>13
      <3> QED  BY <3>1 DEF NothingLost
    <2> QED  BY <2>12, <2>14
  <1> QED  BY <1>1, <1>2

(***************************************************************************)
(* items_extract loses nothing, for lists of any length and any            *)
(* characters: after any number of calls the items taken and the items of  *)
(* get_remaining() are the fields of the source.                           *)
(***************************************************************************)
THEOREM StreamLosesNothing == TextSpec => []NothingLost
  <1>1. TextSpec => [](Walking /\ NothingLost)
    BY WalkingInit, WalkingNext, PTL DEF TextSpec
  <1> QED  BY <1>1, PTL

-----------------------------------------------------------------------------
(***************************************************************************)
(* A stream that is walked to its end.                                     *)
(***************************************************************************)
LEMMA MovedFact ==
  ASSUME NEW st, NEW s, NEW c, NEW ae, NEW p, NEW q, Streams(st, s, c, ae, p)
  PROVE  Streams([st EXCEPT !.pos = q], s, c, ae, q)
  BY DEF Streams

LEMMA EndFact ==
  ASSUME NEW st, NEW s, NEW c, NEW ae, NEW p, Streams(st, s, c, ae, p)
  PROVE  st.tokens = s /\ st.pos = p
  BY DEF Streams

LEMMA ItemsAreRest ==
  ASSUME NEW S, NEW s \in Seq(S), Len(s) < npos, NEW c, NEW ae \in BOOLEAN,
         NEW p0 \in 0 .. Len(s) + 1, NEW st, Streams(st, s, c, ae, p0)
  PROVE  Items(st) = RestAt(s, c, ae, p0)
  <1> DEFINE M == Len(s) + 1
             T == Seq(S)
             R(p) == items_extract([st EXCEPT !.pos = p])
             item == [p \in 0 .. M |-> R(p).token]
             next == [p \in 0 .. M |-> R(p).stream.pos]
             ends == {p \in 0 .. M : ~R(p).ok}
             from[p \in 0 .. M] ==
               IF R(p).ok THEN <<R(p).token>> \o from[R(p).stream.pos] ELSE <<>>
  <1>1. M \in Int /\ 0 \in Int /\ 0 <= M /\ M \in Nat
    OBVIOUS
  <1>2. st.tokens = s /\ st.pos = p0
    BY EndFact
  <1>3. Items(st) = from[p0]
    BY <1>2, Zenon DEF Items
  <1>4. ASSUME NEW p \in 0 .. M
        PROVE  /\ ~R(p).ok => RestAt(s, c, ae, p) = <<>>
               /\ R(p).ok => /\ R(p).token \in T /\ R(p).stream.pos \in p + 1 .. M
                             /\ RestAt(s, c, ae, p) = <<R(p).token>> \o RestAt(s, c, ae, R(p).stream.pos)
    <2> DEFINE at == [st EXCEPT !.pos = p]
    <2>1. Streams(at, s, c, ae, p)
      BY MovedFact
    <2> HIDE DEF at
    <2>2. PICK e : Extracts(items_extract(at), T, s, c, ae, p, e)
      BY <2>1, ExtractRest
    <2> DEFINE r == items_extract(at)
    <2> HIDE DEF r
    <2>3. /\ e \in 0 .. Len(s) + 1 /\ Streams(r.stream, s, c, ae, e)
          /\ ~r.ok => RestAt(s, c, ae, p) = <<>>
          /\ r.ok => /\ e > p /\ r.token \in T
                     /\ RestAt(s, c, ae, p) = <<r.token>> \o RestAt(s, c, ae, e)
      BY <2>2, Zenon DEF Extracts, r
    <2>4. r.stream.pos = e
      BY <2>3, EndFact
    <2>5. r.ok => e \in p + 1 .. M
      BY <2>3
    <2> HIDE DEF T, M
    <2>6. /\ ~r.ok => RestAt(s, c, ae, p) = <<>>
          /\ r.ok => /\ r.token \in T /\ r.stream.pos \in p + 1 .. M
                     /\ RestAt(s, c, ae, p) = <<r.token>> \o RestAt(s, c, ae, r.stream.pos)
      BY <2>3, <2>4, <2>5, Zenon
    <2> QED  BY <2>6 DEF r, at
  <1> HIDE DEF R, M, T
  <1>5. Forward(0, M, T, item, next, ends)
    BY <1>4 DEF Forward
  <1>6. PICK f \in [0 .. M -> Seq(T)] : Walks(f, 0, M, item, next, ends)
    <2> HIDE DEF item, next, ends
    <2> QED  BY <1>1, <1>5, Cursor
  <1>7. f = [p \in 0 .. M |->
               IF R(p).ok THEN <<R(p).token>> \o f[R(p).stream.pos] ELSE <<>>]
    BY <1>6 DEF Walks
  <1>8. \A p \in 0 .. M : from[p] = IF R(p).ok THEN <<R(p).token>> \o from[R(p).stream.pos] ELSE <<>>
    BY <1>7
  <1> HIDE DEF from
  <1> DEFINE D == {p \in 0 .. M : from[p] = RestAt(s, c, ae, p)}
  <1>9. ASSUME NEW p \in 0 .. M, \A q \in p + 1 .. M : q \in D PROVE p \in D
    <2>1. CASE ~R(p).ok
      <3>1. from[p] = <<>> /\ RestAt(s, c, ae, p) = <<>>
        BY <1>4, <1>8, <2>1
      <3> QED  BY <3>1
    <2>2. CASE R(p).ok
      <3>1. R(p).stream.pos \in D
        BY <1>4, <1>9, <2>2
      <3>2. from[p] = <<R(p).token>> \o from[R(p).stream.pos]
        BY <1>8, <2>2
      <3>3. RestAt(s, c, ae, p) = <<R(p).token>> \o RestAt(s, c, ae, R(p).stream.pos)
        BY <1>4, <2>2
      <3> QED  BY <3>1, <3>2, <3>3
    <2> QED  BY <2>1, <2>2
  <1>10. 0 .. M \subseteq D
    <2> HIDE DEF D
    <2> QED  BY <1>1, <1>9, DownwardInduction
  <1>11. p0 \in D
    <2> HIDE DEF D
    <2> QED  BY <1>10 DEF M
  <1> QED  BY <1>3, <1>11

\* What contains leaves of some items: those behind the first match.
Passed(r, s, c, ae, left, value) ==
  \E e \in 0 .. Len(s) + 1 :
    /\ Streams(r.stream, s, c, ae, e)
    /\ r.ok \/ ~r.ok
    /\ ~r.ok => RestAt(s, c, ae, e) = <<>> /\ \A i \in 1 .. Len(left) : left[i] # value
    /\ r.ok => \E k \in 1 .. Len(left) :
                 /\ left[k] = value /\ \A i \in 1 .. k - 1 : left[i] # value
                 /\ RestAt(s, c, ae, e) = Drop(left, k)

LEMMA ConsFact ==
  ASSUME NEW T, NEW x \in T, NEW l \in Seq(T)
  PROVE  LET m == <<x>> \o l IN
         /\ m \in Seq(T) /\ Len(m) = Len(l) + 1 /\ m[1] = x /\ \A i \in 1 .. Len(l) : m[i + 1] = l[i]
         /\ \A k \in 0 .. Len(l) : Drop(m, k + 1) = Drop(l, k)
  <1> DEFINE m == <<x>> \o l
             h == <<x>>
  <1>1. h \in Seq(T) /\ Len(h) = 1 /\ h[1] = x
    OBVIOUS
  <1> HIDE DEF h
  <1>2. h \o l \in Seq(T) /\ Len(h \o l) = Len(h) + Len(l)
        /\ \A i \in 1 .. Len(h) + Len(l) : (h \o l)[i] = IF i <= Len(h) THEN h[i] ELSE l[i - Len(h)]
    BY <1>1, ConcatProperties, Zenon
  <1>3. m = h \o l
    BY DEF h
  <1> HIDE DEF m
  <1>a. Len(l) \in Nat
    OBVIOUS
  <1>4. m \in Seq(T) /\ Len(m) = Len(l) + 1 /\ m[1] = x
    BY <1>a, <1>1, <1>2, <1>3
  <1>5. \A i \in 1 .. Len(l) : m[i + 1] = l[i]
    <2> SUFFICES ASSUME NEW i \in 1 .. Len(l) PROVE m[i + 1] = l[i]
      OBVIOUS
    <2>1. i + 1 \in 1 .. Len(h) + Len(l) /\ ~(i + 1 <= Len(h)) /\ (i + 1) - Len(h) = i
      BY <1>a, <1>1
    <2> QED  BY <1>2, <1>3, <2>1
  <1>6. ASSUME NEW k \in 0 .. Len(l) PROVE Drop(m, k + 1) = Drop(l, k)
    <2> DEFINE j == k + 1
    <2>1. j \in 0 .. Len(m) /\ Len(m) - j = Len(l) - k /\ \A i \in 1 .. Len(l) - k : j + i = (k + i) + 1 /\ k + i \in 1 .. Len(l)
      BY <1>a, <1>4
    <2> HIDE DEF j
    <2>2. Drop(m, j) \in Seq(T) /\ Len(Drop(m, j)) = Len(m) - j
          /\ \A i \in 1 .. Len(m) - j : Drop(m, j)[i] = m[j + i]
      BY <1>4, <2>1, DropFact
    <2>3. Drop(l, k) \in Seq(T) /\ Len(Drop(l, k)) = Len(l) - k
          /\ \A i \in 1 .. Len(l) - k : Drop(l, k)[i] = l[k + i]
      BY DropFact
    <2>4. \A i \in 1 .. Len(l) - k : m[j + i] = l[k + i]
      BY <1>5, <2>1
    <2> DEFINE a == Drop(m, j)
               b == Drop(l, k)
    <2>5. a \in Seq(T) /\ b \in Seq(T) /\ Len(a) = Len(b) /\ \A i \in 1 .. Len(a) : a[i] = b[i]
      BY <2>1, <2>2, <2>3, <2>4
    <2> HIDE DEF a, b
    <2>6. a = b
      BY <2>5, SeqEqual
    <2> QED  BY <2>6 DEF a, b, j
  <1> QED  BY <1>4, <1>5, <1>6 DEF m

LEMMA ContainsFact ==
  ASSUME NEW S, NEW s \in Seq(S), Len(s) < npos, NEW c, NEW ae \in BOOLEAN,
         NEW p0 \in 0 .. Len(s) + 1, NEW st, Streams(st, s, c, ae, p0), NEW value
  PROVE  Passed(contains(st, value), s, c, ae, RestAt(s, c, ae, p0), value)
  <1> DEFINE M == Len(s) + 1
             T == Seq(S)
             left(p) == RestAt(s, c, ae, p)
             R(p) == items_extract([st EXCEPT !.pos = p])
             last == [p \in 0 .. M |-> [ok |-> R(p).ok, stream |-> R(p).stream]]
             next == [p \in 0 .. M |-> R(p).stream.pos]
             ends == {p \in 0 .. M : ~R(p).ok \/ R(p).token = value}
             from[p \in 0 .. M] ==
               IF ~R(p).ok \/ R(p).token = value THEN [ok |-> R(p).ok, stream |-> R(p).stream]
               ELSE from[R(p).stream.pos]
  <1>1. M \in Int /\ 0 \in Int /\ 0 <= M /\ M \in Nat
    OBVIOUS
  <1>2. st.tokens = s /\ st.pos = p0
    BY EndFact
  <1>3. contains(st, value) = from[p0]
    BY <1>2, Zenon DEF contains
  <1>4. ASSUME NEW p \in 0 .. M
        PROVE  /\ R(p).ok \/ ~R(p).ok
               /\ R(p).stream.pos \in 0 .. M /\ Streams(R(p).stream, s, c, ae, R(p).stream.pos)
               /\ ~R(p).ok => left(p) = <<>> /\ left(R(p).stream.pos) = <<>>
               /\ R(p).ok => /\ R(p).token \in T /\ R(p).stream.pos \in p + 1 .. M
                             /\ left(p) = <<R(p).token>> \o left(R(p).stream.pos)
    <2> DEFINE at == [st EXCEPT !.pos = p]
    <2>1. Streams(at, s, c, ae, p)
      BY MovedFact
    <2> HIDE DEF at
    <2>2. PICK e : Extracts(items_extract(at), T, s, c, ae, p, e)
      BY <2>1, ExtractRest
    <2> DEFINE r == items_extract(at)
    <2> HIDE DEF r
    <2>3. /\ e \in 0 .. Len(s) + 1 /\ Streams(r.stream, s, c, ae, e)
          /\ r.ok \/ ~r.ok
          /\ ~r.ok => e = Len(s) + 1 /\ left(p) = <<>>
          /\ r.ok => /\ e > p /\ r.token \in T
                     /\ left(p) = <<r.token>> \o left(e)
      BY <2>2, Zenon DEF Extracts, r
    <2>4. r.stream.pos = e
      BY <2>3, EndFact
    <2>5. r.ok => e \in p + 1 .. M
      BY <2>3
    <2>6. ~r.ok => left(e) = <<>>
      <3>1. ~r.ok => e > Len(s)
        BY <2>3
      <3> QED  BY <3>1, Zenon DEF RestAt
    <2> HIDE DEF T, left
    <2>7. /\ r.ok \/ ~r.ok
          /\ r.stream.pos \in 0 .. M /\ Streams(r.stream, s, c, ae, r.stream.pos)
          /\ ~r.ok => left(p) = <<>> /\ left(r.stream.pos) = <<>>
          /\ r.ok => /\ r.token \in T /\ r.stream.pos \in p + 1 .. M
                     /\ left(p) = <<r.token>> \o left(r.stream.pos)
      BY <2>3, <2>4, <2>5, <2>6, Zenon
    <2> QED  BY <2>7 DEF r, at
  <1>t. \A p \in 0 .. M : left(p) \in Seq(T)
    BY RestAtType
  <1> HIDE DEF R, T
  <1>5. \A p \in 0 .. M : p \notin ends => next[p] \in p + 1 .. M
    BY <1>4
  <1>6. PICK f : Follows(f, 0, M, last, next, ends)
    <2> HIDE DEF last, next, ends, M
    <2> QED  BY <1>1, <1>5, Chase
  <1> HIDE DEF M
  <1>7. f = [p \in 0 .. M |->
               IF ~R(p).ok \/ R(p).token = value THEN [ok |-> R(p).ok, stream |-> R(p).stream]
               ELSE f[R(p).stream.pos]]
    BY <1>6 DEF Follows
  <1>8. \A p \in 0 .. M : from[p] = IF ~R(p).ok \/ R(p).token = value
                                    THEN [ok |-> R(p).ok, stream |-> R(p).stream]
                                    ELSE from[R(p).stream.pos]
    BY <1>7
  <1> HIDE DEF from
  <1> DEFINE D == {p \in 0 .. M : Passed(from[p], s, c, ae, left(p), value)}
  <1>9. ASSUME NEW p \in 0 .. M, \A q \in p + 1 .. M : q \in D PROVE p \in D
    <2> DEFINE r == R(p)
               e == r.stream.pos
               x == r.token
               a == left(p)
               b == left(e)
    <2>0. /\ r.ok \/ ~r.ok
          /\ e \in 0 .. M /\ Streams(r.stream, s, c, ae, e)
          /\ ~r.ok => a = <<>> /\ b = <<>>
          /\ r.ok => x \in T /\ e \in p + 1 .. M /\ a = <<x>> \o b
      BY <1>4
    <2>a. a \in Seq(T) /\ b \in Seq(T) /\ b = RestAt(s, c, ae, e)
      BY <1>t, <2>0
    <2>b. from[p] = IF ~r.ok \/ x = value THEN [ok |-> r.ok, stream |-> r.stream] ELSE from[e]
      BY <1>8
    <2>c. e \in D /\ r.ok => Passed(from[e], s, c, ae, b, value)
      OBVIOUS
    <2>d. Passed(from[p], s, c, ae, a, value) => p \in D
      OBVIOUS
    <2>e. r.ok => e \in D
      BY <1>9, <2>0
    <2> HIDE DEF r, e, x, a, b, D, left
    <2>f. e \in 0 .. Len(s) + 1
      BY <2>0 DEF M
    <2>1. CASE ~r.ok
      <3>1. from[p] = [ok |-> r.ok, stream |-> r.stream]
        BY <2>b, <2>1
      <3>2. (from[p].ok <=> r.ok) /\ from[p].stream = r.stream
        BY <3>1
      <3>3. \A i \in 1 .. Len(a) : a[i] # value
        BY <2>0, <2>1
      <3>4. Passed(from[p], s, c, ae, a, value)
        BY <2>0, <2>1, <2>a, <2>f, <3>2, <3>3, Zenon DEF Passed
      <3> QED  BY <2>d, <3>4
    <2>2. CASE r.ok
      <3>0. /\ Len(a) = Len(b) + 1 /\ a[1] = x /\ \A i \in 1 .. Len(b) : a[i + 1] = b[i]
            /\ \A k \in 0 .. Len(b) : Drop(a, k + 1) = Drop(b, k)
        <4>1. x \in T /\ a = <<x>> \o b
          BY <2>0, <2>2
        <4> QED  BY <2>a, <4>1, ConsFact
      <3>n. Len(b) \in Nat
        BY <2>a
      <3>1. CASE x = value
        <4>1. from[p] = [ok |-> r.ok, stream |-> r.stream]
          BY <2>b, <3>1
        <4>2. (from[p].ok <=> r.ok) /\ from[p].stream = r.stream
          BY <4>1
        <4>3. Drop(a, 1) = b
          <5> DEFINE z == 0
          <5>1. z \in 0 .. Len(b) /\ z + 1 = 1
            BY <3>n
          <5>2. Drop(a, z + 1) = Drop(b, z)
            BY <3>0, <5>1
          <5>3. Drop(b, z) = b
            <6>1. SubSeq(b, 1, Len(b)) = b
              BY <2>a, SubSeqFull
            <6> QED  BY <5>1, <6>1 DEF Drop
          <5> QED  BY <5>1, <5>2, <5>3
        <4>4. 1 \in 1 .. Len(a) /\ a[1] = value /\ \A i \in 1 .. 1 - 1 : a[i] # value
          BY <3>0, <3>1, <3>n
        <4>5. \E k \in 1 .. Len(a) : /\ a[k] = value /\ \A i \in 1 .. k - 1 : a[i] # value
                                     /\ RestAt(s, c, ae, e) = Drop(a, k)
          BY <2>a, <4>3, <4>4
        <4>6. Passed(from[p], s, c, ae, a, value)
          BY <2>0, <2>2, <2>f, <4>2, <4>5, Zenon DEF Passed
        <4> QED  BY <2>d, <4>6
      <3>2. CASE x # value
        <4>1. from[p] = from[e]
          BY <2>2, <2>b, <3>2
        <4>2. Passed(from[p], s, c, ae, b, value)
          BY <2>2, <2>c, <2>e, <4>1
        <4> DEFINE g == from[p]
        <4> HIDE DEF g
        <4>3. PICK d \in 0 .. Len(s) + 1 :
                /\ Streams(g.stream, s, c, ae, d)
                /\ g.ok \/ ~g.ok
                /\ ~g.ok => RestAt(s, c, ae, d) = <<>> /\ \A i \in 1 .. Len(b) : b[i] # value
                /\ g.ok => \E k \in 1 .. Len(b) :
                             /\ b[k] = value /\ \A i \in 1 .. k - 1 : b[i] # value
                             /\ RestAt(s, c, ae, d) = Drop(b, k)
          BY <4>2, Zenon DEF Passed, g
        <4>4. ASSUME NEW n \in 0 .. Len(b), \A i \in 1 .. n : b[i] # value
              PROVE  \A i \in 1 .. n + 1 : a[i] # value
          <5> SUFFICES ASSUME NEW i \in 1 .. n + 1 PROVE a[i] # value
            OBVIOUS
          <5>1. CASE i = 1
            BY <3>0, <3>2, <5>1
          <5>2. CASE i # 1
            <6>1. i - 1 \in 1 .. n /\ i - 1 \in 1 .. Len(b) /\ (i - 1) + 1 = i
              BY <3>n, <5>2
            <6> QED  BY <3>0, <4>4, <6>1
          <5> QED  BY <5>1, <5>2
        <4>5. CASE ~g.ok
          <5>1. \A i \in 1 .. Len(a) : a[i] # value
            <6>1. Len(b) \in 0 .. Len(b)
              BY <3>n
            <6> QED  BY <3>0, <4>3, <4>4, <4>5, <6>1
          <5>2. Passed(g, s, c, ae, a, value)
            BY <4>3, <4>5, <5>1, Zenon DEF Passed
          <5> QED  BY <2>d, <5>2 DEF g
        <4>6. CASE g.ok
          <5>1. PICK k \in 1 .. Len(b) :
                  /\ b[k] = value /\ \A i \in 1 .. k - 1 : b[i] # value
                  /\ RestAt(s, c, ae, d) = Drop(b, k)
            BY <4>3, <4>6
          <5> DEFINE j == k + 1
          <5>2. j \in 1 .. Len(a) /\ k - 1 \in 0 .. Len(b) /\ (k - 1) + 1 = j - 1 /\ k \in 0 .. Len(b)
            BY <3>0, <3>n
          <5>3. a[j] = value /\ Drop(a, j) = Drop(b, k)
            BY <3>0, <5>1, <5>2
          <5>4. \A i \in 1 .. (k - 1) + 1 : a[i] # value
            BY <4>4, <5>1, <5>2
          <5> HIDE DEF j
          <5>5. \A i \in 1 .. j - 1 : a[i] # value
            BY <5>2, <5>4
          <5>6. \E l \in 1 .. Len(a) : /\ a[l] = value /\ \A i \in 1 .. l - 1 : a[i] # value
                                       /\ RestAt(s, c, ae, d) = Drop(a, l)
            BY <5>1, <5>2, <5>3, <5>5
          <5>7. Passed(g, s, c, ae, a, value)
            BY <4>3, <4>6, <5>6, Zenon DEF Passed
          <5> QED  BY <2>d, <5>7 DEF g
        <4> QED  BY <4>3, <4>5, <4>6
      <3> QED  BY <3>1, <3>2
    <2> QED  BY <2>0, <2>1, <2>2
  <1>10. 0 .. M \subseteq D
    <2> HIDE DEF D
    <2> QED  BY <1>1, <1>9, DownwardInduction DEF M
  <1>11. p0 \in D
    <2> HIDE DEF D
    <2> QED  BY <1>10 DEF M
  <1> QED  BY <1>3, <1>11

LEMMA WalkingContains == Walking => ContainsTakes
  <1> SUFFICES ASSUME Walking, how \in {"items", "empties"}, NEW value
               PROVE  LET left == Rest(stream)
                          at   == {i \in DOMAIN left : left[i] = value}
                          r    == contains(stream, value)
                      IN  /\ r.ok <=> at # {}
                          /\ Rest(r.stream) = IF at = {} THEN <<>>
                                              ELSE SubSeq(left, Min(at) + 1, Len(left))
    BY Zenon DEF ContainsTakes
  <1> DEFINE T == Seq(Alphabet)
             r == contains(stream, value)
             left == Rest(stream)
             at == {i \in DOMAIN left : left[i] = value}
  <1>1. source \in T /\ Len(source) < npos
    BY Zenon DEF Walking
  <1>2. PICK ae \in BOOLEAN, p \in 0 .. Len(source) + 1 : Streams(stream, source, " ", ae, p)
    BY Zenon DEF Walking
  <1>3. left = RestAt(source, " ", ae, p)
    BY <1>1, <1>2, RestFact
  <1>4. left \in Seq(T)
    <2>1. p \in Nat
      BY <1>1
    <2> QED  BY <1>1, <1>3, <2>1, RestAtType
  <1>5. Passed(r, source, " ", ae, left, value)
    BY <1>1, <1>2, <1>3, ContainsFact
  <1> HIDE DEF r, left
  <1>6. PICK e \in 0 .. Len(source) + 1 :
          /\ Streams(r.stream, source, " ", ae, e)
          /\ r.ok \/ ~r.ok
          /\ ~r.ok => RestAt(source, " ", ae, e) = <<>> /\ \A i \in 1 .. Len(left) : left[i] # value
          /\ r.ok => \E k \in 1 .. Len(left) :
                       /\ left[k] = value /\ \A i \in 1 .. k - 1 : left[i] # value
                       /\ RestAt(source, " ", ae, e) = Drop(left, k)
    BY <1>5, Zenon DEF Passed
  <1>7. Rest(r.stream) = RestAt(source, " ", ae, e)
    BY <1>1, <1>6, RestFact
  <1>8. DOMAIN left = 1 .. Len(left) /\ Len(left) \in Nat
    BY <1>4
  <1>9. CASE ~r.ok
    <2>1. at = {}
      BY <1>6, <1>8, <1>9
    <2>2. Rest(r.stream) = <<>>
      BY <1>6, <1>7, <1>9
    <2> QED  BY <1>9, <2>1, <2>2, Zenon DEF r, left
  <1>10. CASE r.ok
    <2>1. PICK k \in 1 .. Len(left) :
            /\ left[k] = value /\ \A i \in 1 .. k - 1 : left[i] # value
            /\ RestAt(source, " ", ae, e) = Drop(left, k)
      BY <1>6, <1>10
    <2>2. k \in at /\ at # {}
      BY <1>8, <2>1
    <2>3. \A j \in at : k <= j /\ j \in Nat
      <3> SUFFICES ASSUME NEW j \in at, ~(k <= j) PROVE FALSE
        BY <1>8
      <3>1. j \in 1 .. k - 1 /\ left[j] = value
        BY <1>8
      <3> QED  BY <2>1, <3>1
    <2> HIDE DEF at
    <2>4. Min(at) = k
      <3>1. Min(at) \in at /\ \A y \in at : Min(at) =< y
        <4>1. \E x \in at : \A y \in at : x =< y
          BY <2>2, <2>3
        <4> QED  BY <4>1 DEF Min
      <3> DEFINE x == Min(at)
      <3> HIDE DEF x
      <3>2. x \in Nat /\ k <= x /\ x =< k /\ k \in Nat
        BY <2>2, <2>3, <3>1 DEF x
      <3>3. x = k
        BY <3>2
      <3> QED  BY <3>3 DEF x
    <2>5. Rest(r.stream) = SubSeq(left, Min(at) + 1, Len(left))
      BY <1>7, <2>1, <2>4 DEF Drop
    <2> QED  BY <1>10, <2>2, <2>5, Zenon DEF r, left, at
  <1> QED  BY <1>6, <1>9, <1>10, Zenon

(***************************************************************************)
(* contains asks the items that are left and takes what it passes, at any  *)
(* position of a list of any length.                                       *)
(***************************************************************************)
THEOREM ContainsTakesWhatItPasses == TextSpec => []ContainsTakes
  <1>1. TextSpec => [](Walking /\ NothingLost)
    BY WalkingInit, WalkingNext, PTL DEF TextSpec
  <1>2. Walking => ContainsTakes
    BY WalkingContains
  <1> QED  BY <1>1, <1>2, PTL

-----------------------------------------------------------------------------
(***************************************************************************)
(* The words of a string up to a trailing parameter.                       *)
(***************************************************************************)
LEMMA PrefixFact ==
  ASSUME NEW S, NEW s \in Seq(S), NEW b \in 0 .. Len(s), NEW x \in 0 .. b, NEW y \in x .. b
  PROVE  SubSeq(SubSeq(s, 1, b), x + 1, y) = SubSeq(s, x + 1, y)
  <1> DEFINE u == SubSeq(s, 1, b)
             v == SubSeq(u, x + 1, y)
             z == SubSeq(s, x + 1, y)
  <1>0. Len(s) \in Nat /\ b \in Nat /\ x \in Nat /\ y \in Nat /\ x <= y /\ y <= b /\ b <= Len(s)
    OBVIOUS
  <1>1. u \in Seq(S) /\ Len(u) = b /\ \A k \in 1 .. b : u[k] = s[k]
    <2> DEFINE a == 0
    <2>1. a \in 0 .. Len(s) /\ b \in a .. Len(s) /\ a + 1 = 1 /\ b - a = b /\ \A k \in 1 .. b : a + k = k
      BY <1>0
    <2> HIDE DEF a
    <2>2. SubSeq(s, a + 1, b) \in Seq(S) /\ Len(SubSeq(s, a + 1, b)) = b - a
          /\ \A k \in 1 .. b - a : SubSeq(s, a + 1, b)[k] = s[a + k]
      BY <2>1, SubFact
    <2> QED  BY <2>1, <2>2
  <1> HIDE DEF u
  <1>2. v \in Seq(S) /\ Len(v) = y - x /\ \A k \in 1 .. y - x : v[k] = u[x + k]
    BY <1>0, <1>1, SubFact
  <1>3. z \in Seq(S) /\ Len(z) = y - x /\ \A k \in 1 .. y - x : z[k] = s[x + k]
    <2>1. x \in 0 .. Len(s) /\ y \in x .. Len(s)
      BY <1>0
    <2> QED  BY <2>1, SubFact
  <1>4. \A k \in 1 .. y - x : x + k \in 1 .. b
    BY <1>0
  <1> HIDE DEF v, z
  <1>5. \A k \in 1 .. Len(v) : v[k] = z[k]
    BY <1>1, <1>2, <1>3, <1>4
  <1>6. v = z
    BY <1>2, <1>3, <1>5, SeqEqual
  <1> QED  BY <1>6 DEF u, v, z

\* The two characters by name: their literals are more than the SMT backend takes.
Blank == " "
Colon == ":"

\* Where a trailing parameter may start, and where the first one does.
Starts(s) == {i \in 1 .. Len(s) : s[i] = Colon /\ (i = 1 \/ s[i - 1] = Blank)}

ColonIs(s, k) ==
  /\ k \in 1 .. Len(s) + 1 /\ \A j \in 1 .. k - 1 : j \notin Starts(s)
  /\ k = Len(s) + 1 \/ k \in Starts(s)

Apart(s, k) ==
  Split(SubSeq(s, 1, k - 1), Blank, FALSE) \o (IF k = Len(s) + 1 THEN <<>> ELSE <<Drop(s, k)>>)

LEMMA ParametersFact ==
  ASSUME NEW S, NEW s \in Seq(S)
  PROVE  \E k : ColonIs(s, k) /\ Parameters(s) = Apart(s, k)
  <1> DEFINE Q == Starts(s)
  <1>0. Len(s) \in Nat /\ Q \subseteq 1 .. Len(s)
    BY DEF Starts
  <1>1. Parameters(s) =
          Split(SubSeq(s, 1, (IF Q = {} THEN Len(s) + 1 ELSE Min(Q)) - 1), Blank, FALSE) \o
          (IF Q = {} THEN <<>> ELSE <<SubSeq(s, (IF Q = {} THEN Len(s) + 1 ELSE Min(Q)) + 1, Len(s))>>)
    BY Zenon DEF Parameters, Starts, Colon, Blank
  <1> HIDE DEF Q
  <1>2. CASE Q = {}
    <2> DEFINE k == Len(s) + 1
    <2>1. k \in 1 .. Len(s) + 1 /\ k = Len(s) + 1
      BY <1>0
    <2>2. Parameters(s) = Split(SubSeq(s, 1, k - 1), Blank, FALSE) \o <<>>
      BY <1>1, <1>2, Zenon
    <2> HIDE DEF k
    <2>3. ColonIs(s, k)
      BY <1>2, <2>1 DEF ColonIs, Q
    <2>4. Parameters(s) = Apart(s, k)
      BY <2>1, <2>2, Zenon DEF Apart
    <2> QED  BY <2>3, <2>4
  <1>3. CASE Q # {}
    <2> DEFINE k == Min(Q)
               n == Len(s) + 1
    <2>1. k \in Q /\ \A q \in 1 .. k - 1 : q \notin Q
      <3> DEFINE p == 1
      <3>1. p \in Nat /\ n \in Nat /\ Q \subseteq p .. n - 1
        BY <1>0
      <3> HIDE DEF p, n
      <3>2. Min(Q) \in Q /\ \A q \in p .. Min(Q) - 1 : q \notin Q
        BY <1>3, <3>1, LeastOf
      <3> QED  BY <3>2 DEF p
    <2>2. Parameters(s) = Split(SubSeq(s, 1, k - 1), Blank, FALSE) \o <<SubSeq(s, k + 1, Len(s))>>
      BY <1>1, <1>3, Zenon
    <2> HIDE DEF k, n
    <2>3. k \in 1 .. Len(s)
      BY <1>0, <2>1
    <2>4. k \in 1 .. Len(s) + 1 /\ k # Len(s) + 1
      BY <1>0, <2>3
    <2>5. ColonIs(s, k)
      BY <2>1, <2>4 DEF ColonIs, Q
    <2>6. Parameters(s) = Apart(s, k)
      BY <2>2, <2>4, Zenon DEF Apart, Drop
    <2> QED  BY <2>5, <2>6
  <1> QED  BY <1>2, <1>3

LEMMA ParametersAre ==
  ASSUME NEW S, NEW s \in Seq(S), NEW k, ColonIs(s, k)
  PROVE  Parameters(s) = Apart(s, k)
  <1>1. PICK j : ColonIs(s, j) /\ Parameters(s) = Apart(s, j)
    BY ParametersFact
  <1>2. Len(s) \in Nat /\ \A i \in Starts(s) : i \in 1 .. Len(s)
    BY DEF Starts
  <1>3. j = k
    <2>1. j \in Nat /\ k \in Nat /\ j >= 1 /\ k >= 1 /\ j <= Len(s) + 1 /\ k <= Len(s) + 1
      BY <1>1, <1>2 DEF ColonIs
    <2>2. ~(j < k)
      BY <1>1, <1>2, <2>1 DEF ColonIs
    <2>3. ~(k < j)
      BY <1>1, <1>2, <2>1 DEF ColonIs
    <2> QED  BY <2>1, <2>2, <2>3
  <1> QED  BY <1>1, <1>3

LEMMA ParametersType ==
  ASSUME NEW S, NEW s \in Seq(S)
  PROVE  Parameters(s) \in Seq(Seq(S))
  <1>1. PICK k : ColonIs(s, k) /\ Parameters(s) = Apart(s, k)
    BY ParametersFact
  <1>2. k \in Nat /\ k >= 1 /\ k <= Len(s) + 1 /\ Len(s) \in Nat
    BY <1>1 DEF ColonIs
  <1> DEFINE u == SubSeq(s, 1, k - 1)
             x == Split(u, Blank, FALSE)
             y == IF k = Len(s) + 1 THEN <<>> ELSE <<Drop(s, k)>>
             T == Seq(S)
  <1>3. u \in T
    <2> DEFINE a == 0
               e == k - 1
    <2>1. a \in 0 .. Len(s) /\ e \in a .. Len(s) /\ a + 1 = 1
      BY <1>2
    <2> HIDE DEF a, e
    <2>2. SubSeq(s, a + 1, e) \in T
      BY <2>1, SubFact
    <2> QED  BY <2>1, <2>2 DEF e
  <1>4. x \in Seq(T)
    <2> HIDE DEF u
    <2>1. FALSE \in BOOLEAN
      OBVIOUS
    <2> QED  BY <1>3, <2>1, SplitType, Zenon
  <1>5. y \in Seq(T)
    <2>1. k # Len(s) + 1 => Drop(s, k) \in T
      <3>1. k # Len(s) + 1 => k \in 0 .. Len(s)
        BY <1>2
      <3> QED  BY <3>1, DropFact
    <2> DEFINE q == Drop(s, k)
    <2> HIDE DEF q, T
    <2>2. (IF k = Len(s) + 1 THEN <<>> ELSE <<q>>) \in Seq(T)
      BY <2>1 DEF q
    <2> QED  BY <2>2 DEF q
  <1>6. Parameters(s) = x \o y
    BY <1>1, Zenon DEF Apart
  <1> HIDE DEF x, y, T
  <1>7. x \o y \in Seq(T)
    BY <1>4, <1>5
  <1> QED  BY <1>6, <1>7 DEF T

Cat(x, y) == x \o y
Listed(x, T) == x \in Seq(T)

LEMMA CatAssociative ==
  \A T, x, y, z : Listed(x, T) /\ Listed(y, T) /\ Listed(z, T) =>
    Cat(Cat(x, y), z) = Cat(x, Cat(y, z))
  BY ConcatAssociative DEF Cat, Listed

\* The first space: a word in front of it, unless it is a trailing parameter.
LEMMA ParametersFirst ==
  ASSUME NEW S, NEW s \in Seq(S), NEW i \in 1 .. Len(s), s[i] = Blank, s[1] # Colon,
         \A j \in 1 .. i - 1 : s[j] # Blank
  PROVE  Parameters(s) =
           (IF i # 1 THEN <<SubSeq(s, 1, i - 1)>> ELSE <<>>) \o Parameters(Drop(s, i))
  <1> DEFINE t == Drop(s, i)
  <1>0. Len(s) \in Nat /\ i \in Nat /\ i >= 1 /\ i <= Len(s)
    OBVIOUS
  <1>1. t \in Seq(S) /\ Len(t) = Len(s) - i /\ \A k \in 1 .. Len(s) - i : t[k] = s[i + k]
    BY <1>0, DropFact
  <1>b. \A b \in 0 .. Len(s) - i : SubSeq(t, 0 + 1, b) = SubSeq(s, 0 + i + 1, b + i)
    <2> DEFINE a == 0
    <2> SUFFICES ASSUME NEW b \in 0 .. Len(s) - i
                 PROVE  SubSeq(t, a + 1, b) = SubSeq(s, a + i + 1, b + i)
      OBVIOUS
    <2>1. a \in 0 .. Len(s) - i /\ b \in a .. Len(s) - i /\ i \in 0 .. Len(s)
      BY <1>0
    <2> HIDE DEF a
    <2> QED  BY <2>1, SubOfBehind
  <1>d. \A j \in 0 .. Len(s) - i : Drop(t, j) = Drop(s, i + j)
    <2>1. i \in 0 .. Len(s)
      BY <1>0
    <2> QED  BY <2>1, DropDrop
  <1> HIDE DEF t
  <1>2. PICK k : ColonIs(t, k) /\ Parameters(t) = Apart(t, k)
    BY <1>1, ParametersFact
  <1>3. k \in Nat /\ k >= 1 /\ k <= Len(t) + 1 /\ (\A j \in 1 .. k - 1 : j \notin Starts(t))
        /\ (k = Len(t) + 1 \/ k \in Starts(t)) /\ Len(t) \in Nat
    BY <1>0, <1>1, <1>2 DEF ColonIs
  <1>4. ASSUME NEW j \in 1 .. Len(t) PROVE j \in Starts(t) <=> j + i \in Starts(s)
    <2>1. t[j] = s[j + i] /\ j + i \in 1 .. Len(s) /\ j + i # 1
      BY <1>0, <1>1
    <2>2. (j = 1 \/ t[j - 1] = Blank) <=> s[j + i - 1] = Blank
      <3>1. CASE j = 1
        BY <1>0, <3>1
      <3>2. CASE j # 1
        <4>1. j - 1 \in 1 .. Len(s) - i /\ i + (j - 1) = j + i - 1
          <5>1. Len(t) = Len(s) - i
            BY <1>1
          <5> QED  BY <1>0, <3>2, <5>1
        <4> QED  BY <1>1, <3>2, <4>1
      <3> QED  BY <3>1, <3>2
    <2> QED  BY <2>1, <2>2 DEF Starts
  <1>5. ASSUME NEW j \in 1 .. i PROVE j \notin Starts(s)
    <2>1. CASE j = 1
      BY <2>1 DEF Starts
    <2>2. CASE j # 1
      <3>1. j - 1 \in 1 .. i - 1
        BY <1>0, <2>2
      <3> QED  BY <2>2, <3>1 DEF Starts
    <2> QED  BY <2>1, <2>2
  <1> DEFINE m == k + i
  <1>6. m \in 1 .. Len(s) + 1 /\ (m = Len(s) + 1 <=> k = Len(t) + 1) /\ m \in Nat /\ m > i /\ m <= Len(s) + 1
    BY <1>0, <1>1, <1>3
  <1>7. ColonIs(s, m)
    <2>1. \A j \in 1 .. m - 1 : j \notin Starts(s)
      <3> SUFFICES ASSUME NEW j \in 1 .. m - 1 PROVE j \notin Starts(s)
        OBVIOUS
      <3>1. CASE j <= i
        <4>1. j \in 1 .. i
          BY <1>0, <3>1
        <4> QED  BY <1>5, <4>1
      <3>2. CASE j > i
        <4>1. j - i \in 1 .. Len(t) /\ j - i \in 1 .. k - 1 /\ (j - i) + i = j
          BY <1>0, <1>1, <1>3, <3>2
        <4> QED  BY <1>3, <1>4, <4>1
      <3> QED  BY <1>0, <3>1, <3>2
    <2>2. m = Len(s) + 1 \/ m \in Starts(s)
      <3>1. CASE k = Len(t) + 1
        BY <1>6, <3>1
      <3>2. CASE k # Len(t) + 1
        <4>1. k \in 1 .. Len(t) /\ k \in Starts(t)
          BY <1>3, <3>2
        <4>2. k + i \in Starts(s)
          BY <1>4, <4>1
        <4> QED  BY <4>2
      <3> QED  BY <3>1, <3>2
    <2> HIDE DEF m
    <2> QED  BY <1>6, <2>1, <2>2 DEF ColonIs
  <1> HIDE DEF m
  <1>8. Parameters(s) = Apart(s, m)
    BY <1>7, ParametersAre
  <1> DEFINE u == SubSeq(s, 1, m - 1)
             b == m - 1
  <1>9. b \in 0 .. Len(s) /\ i \in 1 .. b /\ b - i \in 0 .. Len(s) - i /\ b - i = k - 1 /\ i - 1 \in 0 .. b
        /\ b \in i .. b /\ i \in 0 .. b
    BY <1>0, <1>3, <1>6 DEF m
  <1> HIDE DEF b
  <1>10. u \in Seq(S) /\ Len(u) = b /\ \A j \in 1 .. b : u[j] = s[j]
    <2> DEFINE a == 0
    <2>1. a \in 0 .. Len(s) /\ b \in a .. Len(s) /\ a + 1 = 1 /\ b - a = b /\ \A j \in 1 .. b : a + j = j
      BY <1>9
    <2> HIDE DEF a
    <2>2. SubSeq(s, a + 1, b) \in Seq(S) /\ Len(SubSeq(s, a + 1, b)) = b - a
          /\ \A j \in 1 .. b - a : SubSeq(s, a + 1, b)[j] = s[a + j]
      BY <2>1, SubFact
    <2>3. u = SubSeq(s, a + 1, b)
      BY <2>1 DEF b
    <2> HIDE DEF u
    <2> QED  BY <2>1, <2>2, <2>3
  <1>11. SubSeq(u, 1, i - 1) = SubSeq(s, 1, i - 1)
    <2> DEFINE a == 0
               y == i - 1
    <2>1. a \in 0 .. b /\ y \in a .. b /\ a + 1 = 1
      BY <1>0, <1>9
    <2> HIDE DEF a, y
    <2>2. SubSeq(SubSeq(s, 1, b), a + 1, y) = SubSeq(s, a + 1, y)
      BY <1>9, <2>1, PrefixFact
    <2> QED  BY <2>1, <2>2 DEF b, y
  <1>12. Drop(u, i) = SubSeq(t, 1, k - 1)
    <2>1. SubSeq(SubSeq(s, 1, b), i + 1, b) = SubSeq(s, i + 1, b)
      BY <1>9, PrefixFact
    <2>2. Drop(u, i) = SubSeq(s, i + 1, b)
      BY <1>10, <2>1 DEF Drop, b
    <2> DEFINE d == b - i
    <2>3. d \in 0 .. Len(s) - i /\ d + i = b /\ 0 + 1 = 1 /\ 0 + i + 1 = i + 1
      BY <1>0, <1>9
    <2>4. SubSeq(t, 0 + 1, d) = SubSeq(s, 0 + i + 1, d + i)
      BY <1>b, <2>3
    <2>5. d = k - 1
      BY <1>9
    <2> HIDE DEF d
    <2> QED  BY <2>2, <2>3, <2>4, <2>5
  <1>13. Split(u, Blank, FALSE) =
           (IF FALSE \/ i # 1 THEN <<SubSeq(u, 1, i - 1)>> ELSE <<>>) \o Split(Drop(u, i), Blank, FALSE)
    <2>1. FALSE \in BOOLEAN /\ i \in 1 .. Len(u) /\ u[i] = Blank /\ \A j \in 1 .. i - 1 : u[j] # Blank
      <3>1. \A j \in 1 .. i - 1 : j \in 1 .. b
        BY <1>9
      <3> QED  BY <1>9, <1>10, <3>1
    <2> HIDE DEF u
    <2> QED  BY <1>10, <2>1, SplitFirst, Zenon
  <1> DEFINE h == IF i # 1 THEN <<SubSeq(s, 1, i - 1)>> ELSE <<>>
             x == Split(SubSeq(t, 1, k - 1), Blank, FALSE)
             y == IF k = Len(t) + 1 THEN <<>> ELSE <<Drop(t, k)>>
  <1>14. Split(u, Blank, FALSE) = h \o x
    BY <1>11, <1>12, <1>13, Zenon
  <1>15. (IF m = Len(s) + 1 THEN <<>> ELSE <<Drop(s, m)>>) = y
    <2>1. CASE k = Len(t) + 1
      BY <1>6, <2>1
    <2>2. CASE k # Len(t) + 1
      <3>1. k \in 0 .. Len(s) - i /\ i + k = m
        <4>1. Len(t) = Len(s) - i
          BY <1>1
        <4> QED  BY <1>0, <1>3, <2>2, <4>1 DEF m
      <3>2. Drop(t, k) = Drop(s, m)
        BY <1>d, <3>1
      <3> QED  BY <1>6, <2>2, <3>2
    <2> QED  BY <2>1, <2>2
  <1>16. Parameters(s) = (h \o x) \o y
    BY <1>8, <1>14, <1>15, Zenon DEF Apart
  <1>17. Parameters(t) = x \o y
    BY <1>2, Zenon DEF Apart
  <1>18. h \in Seq(Seq(S)) /\ x \in Seq(Seq(S)) /\ y \in Seq(Seq(S))
    <2>1. SubSeq(s, 1, i - 1) \in Seq(S)
      <3> DEFINE a == 0
                 e == i - 1
      <3>1. a \in 0 .. Len(s) /\ e \in a .. Len(s) /\ a + 1 = 1
        BY <1>0
      <3> HIDE DEF a, e
      <3>2. SubSeq(s, a + 1, e) \in Seq(S)
        BY <3>1, SubFact
      <3> QED  BY <3>1, <3>2 DEF e
    <2>2. SubSeq(t, 1, k - 1) \in Seq(S)
      <3> DEFINE a == 0
                 e == k - 1
      <3>1. a \in 0 .. Len(t) /\ e \in a .. Len(t) /\ a + 1 = 1
        BY <1>3
      <3> HIDE DEF a, e
      <3>2. SubSeq(t, a + 1, e) \in Seq(S)
        BY <1>1, <3>1, SubFact
      <3> QED  BY <3>1, <3>2 DEF e
    <2>3. x \in Seq(Seq(S))
      <3> DEFINE v == SubSeq(t, 1, k - 1)
      <3> HIDE DEF v
      <3>1. FALSE \in BOOLEAN /\ v \in Seq(S)
        BY <2>2 DEF v
      <3>2. Split(v, Blank, FALSE) \in Seq(Seq(S))
        BY <3>1, SplitType, Zenon
      <3> QED  BY <3>2 DEF v
    <2>4. k # Len(t) + 1 => Drop(t, k) \in Seq(S)
      <3>1. k # Len(t) + 1 => k \in 0 .. Len(t)
        BY <1>3
      <3> QED  BY <1>1, <3>1, DropFact
    <2> DEFINE p == SubSeq(s, 1, i - 1)
               q == Drop(t, k)
    <2> HIDE DEF p, q
    <2>5. (IF i # 1 THEN <<p>> ELSE <<>>) \in Seq(Seq(S))
      BY <2>1 DEF p
    <2>6. (IF k = Len(t) + 1 THEN <<>> ELSE <<q>>) \in Seq(Seq(S))
      BY <2>4 DEF q
    <2> QED  BY <2>3, <2>5, <2>6 DEF p, q
  <1> HIDE DEF h, x, y
  <1>19. (h \o x) \o y = h \o (x \o y)
    <2> DEFINE T == Seq(S)
    <2>1. Listed(h, T) /\ Listed(x, T) /\ Listed(y, T)
      BY <1>18 DEF Listed
    <2> HIDE DEF T
    <2>2. Cat(Cat(h, x), y) = Cat(h, Cat(x, y))
      BY <2>1, CatAssociative
    <2> QED  BY <2>2 DEF Cat
  <1> QED  BY <1>16, <1>17, <1>19, Zenon DEF h, t

\* A string that is a trailing parameter, and one that is a word.
LEMMA ParametersWhole ==
  ASSUME NEW S, NEW s \in Seq(S), s # <<>>
  PROVE  /\ s[1] = Colon => Parameters(s) = <<Drop(s, 1)>>
         /\ s[1] # Colon /\ (\A i \in 1 .. Len(s) : s[i] # Blank) => Parameters(s) = <<s>>
  <1>0. Len(s) \in Nat /\ Len(s) > 0
    BY EmptySeq
  <1>1. ASSUME s[1] = Colon PROVE Parameters(s) = <<Drop(s, 1)>>
    <2>1. ColonIs(s, 1)
      <3>1. 1 \in Starts(s) /\ 1 \in 1 .. Len(s) + 1 /\ \A j \in 1 .. 1 - 1 : FALSE
        BY <1>0, <1>1 DEF Starts
      <3> QED  BY <3>1 DEF ColonIs
    <2> DEFINE k == 1
    <2>2. k # Len(s) + 1 /\ k - 1 = 0 /\ ColonIs(s, k)
      BY <1>0, <2>1
    <2> HIDE DEF k
    <2>3. Parameters(s) = Apart(s, k)
      BY <2>2, ParametersAre
    <2> DEFINE u == SubSeq(s, 1, k - 1)
    <2>4. u = <<>>
      BY <2>2
    <2>5. Split(u, Blank, FALSE) = <<>>
      <3> HIDE DEF u
      <3>1. u \in Seq(S) /\ FALSE \in BOOLEAN /\ \A j \in 1 .. Len(u) : u[j] # Blank
        BY <2>4
      <3>2. Split(u, Blank, FALSE) = IF FALSE \/ u # <<>> THEN <<u>> ELSE <<>>
        BY <3>1, SplitOne, Zenon
      <3> QED  BY <2>4, <3>2, Zenon
    <2>6. Parameters(s) = <<>> \o <<Drop(s, k)>>
      BY <2>2, <2>3, <2>5, Zenon DEF Apart
    <2> DEFINE x == Drop(s, k)
    <2> HIDE DEF x
    <2>7. <<>> \o <<x>> = <<x>>
      OBVIOUS
    <2> QED  BY <2>6, <2>7, Zenon DEF x, k
  <1>2. ASSUME s[1] # Colon, \A i \in 1 .. Len(s) : s[i] # Blank PROVE Parameters(s) = <<s>>
    <2> DEFINE k == Len(s) + 1
    <2>1. \A j \in Starts(s) : FALSE
      <3> SUFFICES ASSUME NEW j \in Starts(s) PROVE FALSE
        OBVIOUS
      <3>1. j \in 1 .. Len(s) /\ s[j] = Colon /\ (j = 1 \/ s[j - 1] = Blank)
        BY DEF Starts
      <3>2. j # 1 => j - 1 \in 1 .. Len(s)
        BY <1>0, <3>1
      <3> QED  BY <1>2, <3>1, <3>2
    <2>2. k \in 1 .. Len(s) + 1 /\ k = Len(s) + 1 /\ k - 1 = Len(s)
      BY <1>0
    <2> HIDE DEF k
    <2>3. ColonIs(s, k)
      BY <2>1, <2>2 DEF ColonIs
    <2>4. Parameters(s) = Apart(s, k)
      BY <2>3, ParametersAre
    <2>5. SubSeq(s, 1, k - 1) = s
      BY <2>2, SubSeqFull
    <2>6. Split(s, Blank, FALSE) = <<s>>
      <3>1. FALSE \in BOOLEAN
        OBVIOUS
      <3>2. Split(s, Blank, FALSE) = IF FALSE \/ s # <<>> THEN <<s>> ELSE <<>>
        BY <1>2, <3>1, SplitOne, Zenon
      <3> QED  BY <3>2, Zenon
    <2>7. Parameters(s) = <<s>> \o <<>>
      BY <2>2, <2>4, <2>5, <2>6, Zenon DEF Apart
    <2>8. <<s>> \o <<>> = <<s>>
      OBVIOUS
    <2> QED  BY <2>7, <2>8
  <1> QED  BY <1>1, <1>2

LEMMA ParametersNone == Parameters(<<>>) = <<>>
  <1> DEFINE s == <<>>
  <1>1. s \in Seq({}) /\ Len(s) = 0 /\ FALSE \in BOOLEAN /\ \A j \in 1 .. Len(s) : s[j] # Blank
    OBVIOUS
  <1>2. ColonIs(s, 1)
    <2>1. \A j \in Starts(s) : FALSE
      BY <1>1 DEF Starts
    <2> QED  BY <1>1, <2>1 DEF ColonIs
  <1>3. SubSeq(s, 1, 1 - 1) = s /\ 1 = Len(s) + 1
    OBVIOUS
  <1> HIDE DEF s
  <1>4. Parameters(s) = Apart(s, 1)
    BY <1>1, <1>2, ParametersAre
  <1>5. Split(s, Blank, FALSE) = <<>>
    <2>1. Split(s, Blank, FALSE) = IF FALSE \/ s # <<>> THEN <<s>> ELSE <<>>
      BY <1>1, SplitOne, Zenon
    <2> QED  BY <2>1, Zenon DEF s
  <1>6. Parameters(s) = <<>> \o <<>>
    BY <1>3, <1>4, <1>5, Zenon DEF Apart
  <1>7. <<>> \o <<>> = <<>>
    OBVIOUS
  <1> QED  BY <1>6, <1>7 DEF s

\* Blanks in front are skipped.
LEMMA ParametersSkip ==
  ASSUME NEW S, NEW s \in Seq(S), NEW p \in 0 .. Len(s), NEW b \in p .. Len(s),
         \A q \in p .. b - 1 : s[q + 1] = Blank, Blank # Colon
  PROVE  Parameters(Drop(s, p)) = Parameters(Drop(s, b))
  <1> DEFINE N == b - p
             D == {m \in Nat : Parameters(Drop(s, p)) = Parameters(Drop(s, p + m))}
  <1>1. N \in Nat /\ p \in Nat /\ Len(s) \in Nat /\ b <= Len(s) /\ p + N = b
    OBVIOUS
  <1>2. 0 \in D
    BY <1>1
  <1>3. \A m \in 1 .. N : m - 1 \in D => m \in D
    <2> SUFFICES ASSUME NEW m \in 1 .. N, m - 1 \in D PROVE m \in D
      OBVIOUS
    <2> DEFINE q == p + (m - 1)
    <2>1. q \in 0 .. Len(s) /\ q \in p .. b - 1 /\ q + 1 = p + m /\ m \in Nat /\ q < Len(s)
          /\ 1 \in 0 .. Len(s) - q /\ 1 \in 1 .. Len(s) - q
      BY <1>1
    <2>2. Parameters(Drop(s, p)) = Parameters(Drop(s, q))
      OBVIOUS
    <2> HIDE DEF q
    <2> DEFINE t == Drop(s, q)
    <2>3. t \in Seq(S) /\ Len(t) = Len(s) - q /\ t[1] = s[q + 1]
      BY <2>1, DropFact
    <2>4. Drop(t, 1) = Drop(s, q + 1)
      BY <2>1, DropDrop
    <2> HIDE DEF t
    <2>5. 1 \in 1 .. Len(t) /\ t[1] = Blank /\ t[1] # Colon /\ \A j \in 1 .. 1 - 1 : t[j] # Blank
      BY <2>1, <2>3
    <2>6. Parameters(t) = (IF 1 # 1 THEN <<SubSeq(t, 1, 1 - 1)>> ELSE <<>>) \o Parameters(Drop(t, 1))
      BY <2>3, <2>5, ParametersFirst
    <2> DEFINE u == Drop(t, 1)
    <2>7. u \in Seq(S)
      <3>1. 1 \in 0 .. Len(t)
        BY <2>1, <2>3
      <3> QED  BY <2>3, <3>1, DropFact
    <2> HIDE DEF u
    <2>8. Parameters(u) \in Seq(Seq(S))
      BY <2>7, ParametersType
    <2>9. <<>> \o Parameters(u) = Parameters(u)
      BY <2>8
    <2>10. Parameters(t) = Parameters(u)
      BY <2>6, <2>9, Zenon DEF u
    <2> QED  BY <2>1, <2>2, <2>4, <2>10 DEF t, u
  <1>4. N \in D
    <2> HIDE DEF D, N
    <2>1. 0 .. N \subseteq D
      BY <1>1, <1>2, <1>3, BoundedInduction
    <2> QED  BY <1>1, <2>1
  <1> QED  BY <1>1, <1>4

LEMMA BlankIsNotColon == Blank # Colon
  BY Zenon DEF Blank, Colon

\* The empty word that a blank in front gives, and what a walk at p has still to give.
Lead(s) == IF s # <<>> /\ s[1] = Blank THEN <<<<>>>> ELSE <<>>

After(s, p) == IF p >= Len(s) THEN <<>> ELSE Lead(Drop(s, p)) \o Parameters(Drop(s, p))

\* Where a walk over s may stand: not on a blank, unless the string begins there.
Stands(s, p) == p \in Nat /\ (p = 0 \/ p >= Len(s) \/ s[p + 1] # Blank)

\* The next word of t, which may be empty, and where what is behind it begins.
LEMMA WordSplit ==
  ASSUME NEW S, NEW t \in Seq(S), NEW i \in 1 .. Len(t), t[i] = Blank, t[1] # Colon,
         \A j \in 1 .. i - 1 : t[j] # Blank
  PROVE  Lead(t) \o Parameters(t) = <<SubSeq(t, 1, i - 1)>> \o Parameters(Drop(t, i))
  <1> DEFINE w == SubSeq(t, 1, i - 1)
             u == Drop(t, i)
             rest == Parameters(u)
             T == Seq(S)
  <1>0. Len(t) \in Nat /\ i \in Nat /\ t # <<>>
    OBVIOUS
  <1>1. Parameters(t) = (IF i # 1 THEN <<w>> ELSE <<>>) \o rest
    BY ParametersFirst, Zenon
  <1>2. u \in Seq(S)
    <2>1. i \in 0 .. Len(t)
      BY <1>0
    <2> QED  BY <2>1, DropFact
  <1> HIDE DEF u
  <1>3. rest \in Seq(T)
    BY <1>2, ParametersType
  <1>4. w \in T
    <2> DEFINE z == 0
               e == i - 1
    <2>1. z \in 0 .. Len(t) /\ e \in z .. Len(t) /\ z + 1 = 1
      BY <1>0
    <2> HIDE DEF z, e
    <2>2. SubSeq(t, z + 1, e) \in Seq(S)
      BY <2>1, SubFact
    <2> QED  BY <2>1, <2>2 DEF e
  <1>5. CASE i = 1
    <2>1. Lead(t) = <<<<>>>>
      BY <1>0, <1>5 DEF Lead
    <2>2. w = <<>>
      BY <1>5
    <2> HIDE DEF w, rest, T
    <2>3. <<>> \o rest = rest
      BY <1>3
    <2>4. Parameters(t) = rest
      BY <1>1, <1>5, <2>3, Zenon
    <2> QED  BY <2>1, <2>2, <2>4, Zenon DEF w, rest, u
  <1>6. CASE i # 1
    <2>1. t[1] # Blank
      <3>1. 1 \in 1 .. i - 1
        BY <1>0, <1>6
      <3> QED  BY <3>1
    <2>2. Lead(t) = <<>>
      BY <2>1 DEF Lead
    <2> HIDE DEF w, rest, T
    <2>3. <<>> \o (<<w>> \o rest) = <<w>> \o rest
      <3> DEFINE y == <<w>> \o rest
      <3>1. y \in Seq(T)
        BY <1>3, <1>4
      <3> HIDE DEF y
      <3>2. <<>> \o y = y
        BY <3>1
      <3> QED  BY <3>2 DEF y
    <2>4. Parameters(t) = <<w>> \o rest
      BY <1>1, <1>6, Zenon
    <2> QED  BY <2>2, <2>3, <2>4, Zenon DEF w, rest, u
  <1> QED  BY <1>5, <1>6

\* One call of get_trailing that takes a word at p and then stands at q.
Gives(r, T, s, p, q) ==
  /\ r.ok /\ r.token \in T /\ r.stream = [message |-> s, position |-> q] /\ Stands(s, q)
  /\ After(s, p) = <<r.token>> \o After(s, q)

\* The call by the cases of the code.
Trailing(r, s, p, f, g) ==
  \/ p >= Len(s) /\ ~r.ok /\ r.stream = [message |-> s, position |-> p]
  \/ /\ p < Len(s) /\ s[p + 1] = Colon /\ r.ok /\ r.token = Drop(s, p + 1)
     /\ r.stream = [message |-> s, position |-> Len(s)]
  \/ /\ p < Len(s) /\ s[p + 1] # Colon /\ f = npos /\ r.ok /\ r.token = Drop(s, p)
     /\ r.stream = [message |-> s, position |-> Len(s)]
  \/ /\ p < Len(s) /\ s[p + 1] # Colon /\ f # npos /\ r.ok /\ r.token = SubSeq(s, p + 1, f)
     /\ r.stream = [message |-> s, position |-> g]

LEMMA TrailingFact ==
  ASSUME NEW S, NEW s \in Seq(S), Len(s) < npos, NEW p \in Nat,
         NEW ts, ts = [message |-> s, position |-> p], NEW f, f = find(s, Blank, p)
  PROVE  Trailing(get_trailing(ts), s, p, f, find_first_not_of(s, Blank, f))
  <1> DEFINE r == get_trailing(ts)
             g == find_first_not_of(s, Blank, f)
             N == Len(s)
             stop == [message |-> s, position |-> p]
             end == [message |-> s, position |-> N]
             on == [message |-> s, position |-> g]
  <1>1. N \in Nat /\ npos \in Nat /\ N < npos
    BY NposAssumption
  <1>2. ts.message = s /\ ts.position = p /\ ts = stop
    OBVIOUS
  <1>3. [ts EXCEPT !.position = N] = end /\ [ts EXCEPT !.position = g] = on
    <2> HIDE DEF g, N
    <2> QED  OBVIOUS
  <1>4. IsFind(s, Blank, p, f)
    BY Searches
  <1>5. get_middle(ts) =
          IF p >= N THEN [ok |-> FALSE, token |-> <<>>, stream |-> stop]
          ELSE IF f = npos THEN [ok |-> TRUE, token |-> assign(s, p, npos), stream |-> end]
          ELSE [ok |-> TRUE, token |-> assign(s, p, f - p), stream |-> on]
    BY <1>2, <1>3, Zenon DEF get_middle, Blank
  <1>6. r = IF p < N /\ s[p + 1] = Colon
            THEN [ok |-> TRUE, token |-> assign(s, p + 1, npos), stream |-> end]
            ELSE get_middle(ts)
    BY <1>2, <1>3, Zenon DEF get_trailing, Colon
  <1>7. assign(s, p + 1, npos) = Drop(s, p + 1) /\ assign(s, p, npos) = Drop(s, p)
    <2>1. (IF p + 1 + npos < N THEN p + 1 + npos ELSE N) = N /\ (IF p + npos < N THEN p + npos ELSE N) = N
      BY <1>1
    <2> QED  BY <2>1, Zenon DEF assign, Drop
  <1>8. f # npos => assign(s, p, f - p) = SubSeq(s, p + 1, f)
    <2> SUFFICES ASSUME f # npos PROVE assign(s, p, f - p) = SubSeq(s, p + 1, f)
      OBVIOUS
    <2>1. f \in p .. N - 1
      BY <1>4 DEF IsFind
    <2>2. (IF p + (f - p) < N THEN p + (f - p) ELSE N) = f
      BY <1>1, <2>1
    <2> QED  BY <2>2, Zenon DEF assign
  <1> HIDE DEF r, g, N, stop, end, on
  <1>9. CASE p >= N
    <2>1. ~(p < N)
      BY <1>1, <1>9
    <2>2. r = [ok |-> FALSE, token |-> <<>>, stream |-> stop]
      BY <1>5, <1>6, <1>9, <2>1, Zenon
    <2>3. ~r.ok /\ r.stream = stop
      BY <2>2
    <2> QED  BY <1>9, <2>3, Zenon DEF Trailing, r, stop, N
  <1>10. CASE p < N /\ s[p + 1] = Colon
    <2>1. r.ok /\ r.token = assign(s, p + 1, npos) /\ r.stream = end
      BY <1>6, <1>10
    <2> QED  BY <1>7, <1>10, <2>1, Zenon DEF Trailing, r, end, N
  <1>11. CASE p < N /\ s[p + 1] # Colon /\ f = npos
    <2>1. ~(p >= N)
      BY <1>1, <1>11
    <2>2. r = [ok |-> TRUE, token |-> assign(s, p, npos), stream |-> end]
      BY <1>5, <1>6, <1>11, <2>1, Zenon
    <2>3. r.ok /\ r.token = assign(s, p, npos) /\ r.stream = end
      BY <2>2
    <2> QED  BY <1>7, <1>11, <2>3, Zenon DEF Trailing, r, end, N
  <1>12. CASE p < N /\ s[p + 1] # Colon /\ f # npos
    <2>1. ~(p >= N)
      BY <1>1, <1>12
    <2>2. r = [ok |-> TRUE, token |-> assign(s, p, f - p), stream |-> on]
      BY <1>5, <1>6, <1>12, <2>1, Zenon
    <2>3. r.ok /\ r.token = assign(s, p, f - p) /\ r.stream = on
      BY <2>2
    <2> QED  BY <1>8, <1>12, <2>3, Zenon DEF Trailing, r, on, g, N
  <1>13. p >= N \/ p < N
    BY <1>1
  <1> QED  BY <1>9, <1>10, <1>11, <1>12, <1>13, Zenon DEF r, g

LEMMA TrailingTakes ==
  ASSUME NEW S, NEW s \in Seq(S), Len(s) < npos, NEW p \in Nat, p < Len(s),
         NEW ts, ts = [message |-> s, position |-> p], Stands(s, p)
  PROVE  \E q : Gives(get_trailing(ts), Seq(S), s, p, q)
  <1> DEFINE r == get_trailing(ts)
             f == find(s, Blank, p)
             g == find_first_not_of(s, Blank, f)
             N == Len(s)
             T == Seq(S)
             t == Drop(s, p)
  <1>0. N \in Nat /\ npos \in Nat /\ N < npos /\ p \in 0 .. N /\ p < N /\ ~(p >= N) /\ N >= N
        /\ N - p \in Nat /\ N - p >= 1 /\ p + 1 \in 0 .. N
    BY NposAssumption
  <1>1. Trailing(r, s, p, f, g)
    BY TrailingFact, Zenon
  <1>2. t \in T /\ Len(t) = N - p /\ \A k \in 1 .. N - p : t[k] = s[p + k]
    BY <1>0, DropFact
  <1>3. \A j \in 0 .. N - p : Drop(t, j) = Drop(s, p + j)
    BY <1>0, DropDrop
  <1>4. After(s, p) = Lead(t) \o Parameters(t)
    BY <1>0, Zenon DEF After
  <1>5. IsFind(s, Blank, p, f)
    BY Searches
  <1> HIDE DEF r, f, N, t
  <1>6. t # <<>> /\ t[1] = s[p + 1] /\ 1 \in 1 .. Len(t)
    BY <1>0, <1>2
  <1>7. After(s, N) = <<>> /\ Stands(s, N)
    BY <1>0 DEF After, Stands, N
  <1>8. \A y : <<y>> \o <<>> = <<y>> /\ <<>> \o <<y>> = <<y>>
    OBVIOUS
  <1>9. CASE s[p + 1] = Colon
    <2>1. r.ok /\ r.token = Drop(s, p + 1) /\ r.stream = [message |-> s, position |-> N]
      BY <1>0, <1>1, <1>9, Zenon DEF Trailing, N
    <2>2. Drop(s, p + 1) \in T
      BY <1>0, DropFact DEF N
    <2>3. Drop(t, 1) = Drop(s, p + 1)
      <3>1. 1 \in 0 .. N - p
        BY <1>0
      <3> QED  BY <1>3, <3>1
    <2>4. Parameters(t) = <<Drop(t, 1)>>
      BY <1>2, <1>6, <1>9, ParametersWhole, Zenon
    <2>5. Lead(t) = <<>>
      BY <1>6, <1>9, BlankIsNotColon DEF Lead
    <2>6. After(s, p) = <<r.token>>
      BY <1>4, <1>8, <2>1, <2>3, <2>4, <2>5, Zenon
    <2>7. Gives(r, T, s, p, N)
      BY <1>7, <1>8, <2>1, <2>2, <2>6, Zenon DEF Gives
    <2> QED  BY <2>7 DEF r
  <1>10. CASE s[p + 1] # Colon /\ f = npos
    <2>1. r.ok /\ r.token = t /\ r.stream = [message |-> s, position |-> N]
      BY <1>0, <1>1, <1>10, Zenon DEF Trailing, N, t
    <2>2. \A i \in 1 .. Len(t) : t[i] # Blank
      <3> SUFFICES ASSUME NEW i \in 1 .. Len(t) PROVE t[i] # Blank
        OBVIOUS
      <3> DEFINE q == p + i - 1
      <3>1. q \in p .. N - 1 /\ q + 1 = p + i /\ i \in 1 .. N - p /\ q # npos
        BY <1>0, <1>2
      <3>2. \A x \in p .. N - 1 : s[x + 1] # Blank
        BY <1>0, <1>5, <1>10 DEF IsFind, N
      <3> HIDE DEF q
      <3>3. s[q + 1] # Blank
        BY <3>1, <3>2
      <3> QED  BY <1>2, <3>1, <3>3
    <2>3. Parameters(t) = <<t>>
      BY <1>2, <1>6, <1>10, <2>2, ParametersWhole, Zenon
    <2>4. Lead(t) = <<>>
      BY <1>6, <2>2 DEF Lead
    <2>5. After(s, p) = <<r.token>>
      BY <1>4, <1>8, <2>1, <2>3, <2>4, Zenon
    <2>6. Gives(r, T, s, p, N)
      BY <1>2, <1>7, <1>8, <2>1, <2>5, Zenon DEF Gives
    <2> QED  BY <2>6 DEF r
  <1>11. CASE s[p + 1] # Colon /\ f # npos
    <2>1. r.ok /\ r.token = SubSeq(s, p + 1, f) /\ r.stream = [message |-> s, position |-> g]
      BY <1>0, <1>1, <1>11, Zenon DEF Trailing, N, g
    <2>2. f \in p .. N - 1 /\ s[f + 1] = Blank /\ \A q \in p .. f - 1 : s[q + 1] # Blank
      BY <1>5, <1>11 DEF IsFind, N
    <2> DEFINE i == f - p + 1
               u == Drop(s, f + 1)
    <2>3. f \in Nat /\ i \in 1 .. N - p /\ p + i = f + 1 /\ i - 1 \in 0 .. N - p /\ (i - 1) + p = f
          /\ i \in 0 .. N - p /\ f + 1 \in 0 .. N /\ i - 1 = f - p
      BY <1>0, <2>2
    <2> HIDE DEF i
    <2>4. t[i] = Blank
      BY <1>2, <2>2, <2>3
    <2>5. \A j \in 1 .. i - 1 : t[j] # Blank
      <3> SUFFICES ASSUME NEW j \in 1 .. i - 1 PROVE t[j] # Blank
        OBVIOUS
      <3> DEFINE q == p + j - 1
      <3>1. q \in p .. f - 1 /\ q + 1 = p + j /\ j \in 1 .. N - p
        BY <1>0, <2>3
      <3> HIDE DEF q
      <3>2. s[q + 1] # Blank
        BY <2>2, <3>1
      <3> QED  BY <1>2, <3>1, <3>2
    <2>6. SubSeq(t, 1, i - 1) = SubSeq(s, p + 1, f)
      <3> DEFINE z == 0
                 e == i - 1
      <3>1. z \in 0 .. N - p /\ e \in z .. N - p /\ z + 1 = 1 /\ z + p + 1 = p + 1 /\ e + p = f
        BY <1>0, <2>3
      <3> HIDE DEF z, e
      <3>2. SubSeq(Drop(s, p), z + 1, e) = SubSeq(s, z + p + 1, e + p)
        BY <1>0, <3>1, SubOfBehind DEF N
      <3>3. SubSeq(t, z + 1, e) = SubSeq(s, z + p + 1, e + p)
        BY <3>2 DEF t
      <3> QED  BY <3>1, <3>3 DEF e
    <2>7. Drop(t, i) = u
      BY <1>3, <2>3
    <2>8. Lead(t) \o Parameters(t) = <<SubSeq(t, 1, i - 1)>> \o Parameters(Drop(t, i))
      <3>1. i \in 1 .. Len(t) /\ t[1] # Colon
        BY <1>2, <1>6, <1>11, <2>3
      <3> QED  BY <1>2, <2>4, <2>5, <3>1, WordSplit
    <2>9. After(s, p) = <<r.token>> \o Parameters(u)
      BY <1>4, <2>1, <2>6, <2>7, <2>8, Zenon
    <2>10. r.token \in T
      <3>1. f \in p .. N
        BY <1>0, <2>2
      <3>2. SubSeq(s, p + 1, f) \in T
        BY <1>0, <3>1, SubFact DEF N
      <3> QED  BY <2>1, <3>2
    <2>11. IsSkip(s, Blank, f, g)
      BY <2>3, Searches
    <2> HIDE DEF g, u
    <2>12. CASE g = npos
      <3>1. \A q \in f + 1 .. N - 1 : s[q + 1] = Blank
        <4>1. \A q \in f .. N - 1 : s[q + 1] = Blank /\ q # npos
          BY <1>0, <2>3, <2>11, <2>12 DEF IsSkip, N
        <4>2. \A q \in f + 1 .. N - 1 : q \in f .. N - 1
          BY <1>0, <2>3
        <4> QED  BY <4>1, <4>2
      <3> DEFINE b == f + 1
      <3>2. b \in 0 .. N /\ N \in b .. N /\ \A q \in b .. N - 1 : s[q + 1] = Blank
        BY <1>0, <2>3, <3>1
      <3> HIDE DEF b
      <3>3. Parameters(Drop(s, b)) = Parameters(Drop(s, N))
        BY <3>2, BlankIsNotColon, ParametersSkip DEF N
      <3>4. Drop(s, N) = <<>>
        <4>1. N \in 0 .. N
          BY <1>0
        <4>2. Drop(s, N) \in T /\ Len(Drop(s, N)) = N - N
          BY <4>1, DropFact DEF N
        <4>3. N - N = 0
          BY <1>0
        <4> QED  BY <4>2, <4>3, EmptySeq
      <3>5. Parameters(u) = <<>>
        BY <3>3, <3>4, ParametersNone, Zenon DEF u, b
      <3>6. g \in Nat /\ g >= N
        BY <1>0, <2>12
      <3>7. After(s, g) = <<>> /\ Stands(s, g)
        BY <3>6 DEF After, Stands, N
      <3>8. Gives(r, T, s, p, g)
        BY <2>1, <2>9, <2>10, <3>5, <3>7, Zenon DEF Gives
      <3> QED  BY <3>8 DEF r
    <2>13. CASE g # npos
      <3>1. g \in f .. N - 1 /\ s[g + 1] # Blank /\ \A q \in f .. g - 1 : s[q + 1] = Blank
        BY <2>11, <2>13 DEF IsSkip, N
      <3>2. g # f
        BY <2>2, <3>1
      <3> DEFINE b == f + 1
      <3>3. g \in Nat /\ b \in 0 .. N /\ g \in b .. N /\ g < N /\ ~(g >= N) /\ g \in 0 .. N /\ N - g \in Nat /\ N - g # 0
            /\ 1 \in 1 .. N - g
        BY <1>0, <2>3, <3>1, <3>2
      <3>4. \A q \in b .. g - 1 : s[q + 1] = Blank
        <4>1. \A q \in b .. g - 1 : q \in f .. g - 1
          BY <2>3, <3>3
        <4> QED  BY <3>1, <4>1
      <3> HIDE DEF b
      <3>5. Parameters(Drop(s, b)) = Parameters(Drop(s, g))
        BY <3>3, <3>4, BlankIsNotColon, ParametersSkip DEF N
      <3> DEFINE v == Drop(s, g)
      <3>6. v \in T /\ v[1] = s[g + 1]
        BY <3>3, DropFact DEF N
      <3>7. Parameters(u) = Parameters(v)
        BY <3>5, Zenon DEF u, b
      <3>8. After(s, g) = Lead(v) \o Parameters(v)
        BY <3>3, Zenon DEF After, N
      <3> HIDE DEF v
      <3>9. Lead(v) = <<>>
        BY <3>1, <3>6 DEF Lead
      <3>10. <<>> \o Parameters(v) = Parameters(v)
        <4>1. Parameters(v) \in Seq(Seq(S))
          BY <3>6, ParametersType
        <4> QED  BY <4>1
      <3>11. After(s, g) = Parameters(u)
        BY <3>7, <3>8, <3>9, <3>10, Zenon
      <3>12. Stands(s, g)
        BY <3>1, <3>3 DEF Stands
      <3>13. Gives(r, T, s, p, g)
        BY <2>1, <2>9, <2>10, <3>11, <3>12, Zenon DEF Gives
      <3> QED  BY <3>13 DEF r
    <2> QED  BY <2>12, <2>13
  <1> QED  BY <1>9, <1>10, <1>11

\* Walking over words: where the walk stands, and that nothing is lost or repeated.
Wording ==
  how = "words" =>
    /\ source \in Seq(Alphabet) /\ Len(source) < npos /\ out \in Seq(Seq(Alphabet))
    /\ \E p \in Nat :
         /\ stream = [message |-> source, position |-> p] /\ Stands(source, p)
         /\ done => p >= Len(source)
         /\ out \o After(source, p) = Lead(source) \o Parameters(source)

LEMMA LeadType ==
  ASSUME NEW S, NEW s \in Seq(S)
  PROVE  Lead(s) \in Seq(Seq(S)) /\ Lead(s) \o Parameters(s) \in Seq(Seq(S))
  <1> DEFINE T == Seq(S)
             x == Lead(s)
             y == Parameters(s)
  <1>1. x \in Seq(T)
    <2>1. <<>> \in T
      OBVIOUS
    <2> HIDE DEF T
    <2> QED  BY <2>1 DEF Lead
  <1>2. y \in Seq(T)
    BY ParametersType
  <1> HIDE DEF T, x, y
  <1>3. x \o y \in Seq(T)
    BY <1>1, <1>2
  <1> QED  BY <1>1, <1>3 DEF T, x, y

LEMMA AfterFact ==
  ASSUME NEW S, NEW s \in Seq(S)
  PROVE  /\ After(s, 0) = Lead(s) \o Parameters(s)
         /\ \A p \in Nat : After(s, p) \in Seq(Seq(S))
  <1>1. Len(s) \in Nat
    OBVIOUS
  <1>2. After(s, 0) = Lead(s) \o Parameters(s)
    <2> DEFINE z == 0
    <2>1. z + 1 = 1 /\ (z >= Len(s) <=> s = <<>>)
      BY <1>1, EmptySeq
    <2> HIDE DEF z
    <2>2. CASE s = <<>>
      <3>1. Lead(s) = <<>>
        BY <2>2 DEF Lead
      <3>2. Parameters(s) = <<>>
        BY <2>2, ParametersNone, Zenon
      <3>3. <<>> \o <<>> = <<>>
        OBVIOUS
      <3>4. After(s, z) = <<>>
        BY <2>1, <2>2, Zenon DEF After
      <3> QED  BY <3>1, <3>2, <3>3, <3>4, Zenon DEF z
    <2>3. CASE s # <<>>
      <3>1. Drop(s, z) = s
        <4>1. SubSeq(s, 1, Len(s)) = s
          BY SubSeqFull
        <4> QED  BY <2>1, <4>1, Zenon DEF Drop
      <3>2. After(s, z) = Lead(s) \o Parameters(s)
        BY <2>1, <2>3, <3>1, Zenon DEF After
      <3> QED  BY <3>2 DEF z
    <2> QED  BY <2>2, <2>3
  <1>3. ASSUME NEW p \in Nat PROVE After(s, p) \in Seq(Seq(S))
    <2>1. CASE p >= Len(s)
      BY <2>1 DEF After
    <2>2. CASE ~(p >= Len(s))
      <3> DEFINE t == Drop(s, p)
      <3>1. t \in Seq(S)
        <4>1. p \in 0 .. Len(s)
          BY <1>1, <2>2
        <4> QED  BY <4>1, DropFact
      <3>2. After(s, p) = Lead(t) \o Parameters(t)
        BY <2>2, Zenon DEF After
      <3> HIDE DEF t
      <3>3. Lead(t) \o Parameters(t) \in Seq(Seq(S))
        BY <3>1, LeadType
      <3> QED  BY <3>2, <3>3, Zenon
    <2> QED  BY <2>1, <2>2
  <1> QED  BY <1>2, <1>3

LEMMA WordingInit == TextInit => Wording
  <1> SUFFICES ASSUME TextInit, how = "words" PROVE Wording
    BY DEF Wording
  <1>1. how \notin {"items", "empties"} /\ how # "numbers" /\ how # "string"
    BY Zenon
  <1>2. PICK msg \in BoundedSeq(Alphabet, MaxLength) :
          \E start \in {0, 1} \cap 0 .. Len(msg), end \in {3, npos} :
            /\ stream = token_node_stream(msg, start, end)
            /\ source = SubSeq(msg, start + 1, Min({Len(msg), start + end}))
    BY <1>1, Zenon DEF TextInit
  <1>3. PICK start \in {0, 1} \cap 0 .. Len(msg), end \in {3, npos} :
            /\ stream = token_node_stream(msg, start, end)
            /\ source = SubSeq(msg, start + 1, Min({Len(msg), start + end}))
    BY <1>2, Zenon
  <1>4. out = <<>> /\ done = FALSE
    BY DEF TextInit
  <1>5. msg \in Seq(Alphabet) /\ Len(msg) \in Nat /\ Len(msg) < npos
    <2>1. PICK n \in 0 .. MaxLength : msg \in [1 .. n -> Alphabet]
      BY DEF BoundedSeq, SeqOf
    <2>2. n \in Nat /\ n <= MaxLength /\ n < npos
      BY TextAssumption, NposAssumption
    <2> QED  BY <2>1, <2>2
  <1>6. start \in Nat /\ start <= Len(msg) /\ end \in Nat
    BY <1>5, NposAssumption
  <1> DEFINE e == Min({Len(msg), start + end})
             N == Len(msg)
             M == start + end
  <1>7. e \in start .. N /\ e = IF M < N THEN M ELSE N
    <2>1. \E x \in {N, M} : \A y \in {N, M} : x =< y
      <3>1. N \in Nat /\ M \in Nat
        BY <1>5, <1>6
      <3> HIDE DEF N, M
      <3>2. CASE M < N
        BY <3>1, <3>2
      <3>3. CASE ~(M < N)
        BY <3>1, <3>3
      <3> QED  BY <3>2, <3>3
    <2>2. e \in {N, M} /\ \A y \in {N, M} : e =< y
      BY <2>1 DEF Min
    <2> HIDE DEF e
    <2>3. e =< N /\ e =< M /\ (e = N \/ e = M) /\ N \in Nat /\ M \in Nat /\ start <= M
      BY <1>5, <1>6, <2>2
    <2> QED  BY <1>6, <2>3
  <1> HIDE DEF e
  <1>8. source = SubSeq(msg, start + 1, e) /\ source = assign(msg, start, end)
    BY <1>3, <1>7, Zenon DEF assign, e, N, M
  <1> DEFINE z == 0
  <1>9. stream = [message |-> source, position |-> z]
    BY <1>3, <1>8 DEF token_node_stream
  <1>10. source \in Seq(Alphabet) /\ Len(source) < npos
    <2>1. start \in 0 .. Len(msg) /\ e \in start .. Len(msg)
      BY <1>5, <1>6, <1>7
    <2>2. source \in Seq(Alphabet) /\ Len(source) = e - start
      BY <1>5, <1>8, <2>1, SubFact
    <2>3. e - start < npos
      BY <1>5, <1>6, <1>7, NposAssumption
    <2> QED  BY <2>2, <2>3
  <1>11. z \in Nat /\ Stands(source, z)
    BY DEF Stands
  <1>12. After(source, z) = Lead(source) \o Parameters(source) /\ After(source, z) \in Seq(Seq(Alphabet))
    BY <1>10, <1>11, AfterFact DEF z
  <1> DEFINE x == After(source, z)
  <1> HIDE DEF z
  <1>13. <<>> \o x = x
    <2> HIDE DEF x
    <2>1. x \in Seq(Seq(Alphabet))
      BY <1>12 DEF x
    <2> QED  BY <2>1
  <1>14. out \o After(source, z) = Lead(source) \o Parameters(source)
    BY <1>4, <1>12, <1>13, Zenon
  <1>15. out \in Seq(Seq(Alphabet))
    BY <1>4
  <1> QED  BY <1>4, <1>9, <1>10, <1>11, <1>14, <1>15, Zenon DEF Wording

LEMMA WordingNext == Wording /\ [TextNext]_textVars => Wording'
  <1> SUFFICES ASSUME Wording, [TextNext]_textVars, how' = "words" PROVE Wording'
    BY DEF Wording
  <1>1. CASE UNCHANGED textVars
    BY <1>1 DEF textVars, Wording
  <1>2. CASE TextNext
    <2>1. NextWord
      <3>1. how' = how
        BY <1>2 DEF TextNext, NextItem, NextWord, NextNumber, Take
      <3>2. how \notin {"items", "empties"} /\ how # "numbers"
        BY <3>1, Zenon
      <3> QED  BY <1>2, <3>2, Zenon DEF TextNext, NextItem, NextNumber
    <2> DEFINE r == get_trailing(stream)
               T == Seq(Alphabet)
               whole == Lead(source) \o Parameters(source)
    <2>2. /\ how = "words" /\ stream' = r.stream /\ done' = ~r.ok
          /\ out' = IF r.ok THEN Append(out, r.token) ELSE out
          /\ source' = source
      BY <2>1, Zenon DEF NextWord, Take
    <2>3. /\ source \in T /\ Len(source) < npos /\ out \in Seq(T)
          /\ \E p \in Nat :
               /\ stream = [message |-> source, position |-> p] /\ Stands(source, p)
               /\ done => p >= Len(source)
               /\ out \o After(source, p) = whole
      BY <2>2, Zenon DEF Wording
    <2>4. PICK p \in Nat :
               /\ stream = [message |-> source, position |-> p] /\ Stands(source, p)
               /\ out \o After(source, p) = whole
      BY <2>3, Zenon
    <2>5. Len(source) \in Nat
      BY <2>3
    <2> HIDE DEF whole
    <2>6. CASE p >= Len(source)
      <3> DEFINE f == find(source, Blank, p)
                 g == find_first_not_of(source, Blank, f)
      <3>1. Trailing(r, source, p, f, g)
        BY <2>3, <2>4, TrailingFact, Zenon
      <3>2. ~(p < Len(source))
        BY <2>5, <2>6
      <3>3. ~r.ok /\ r.stream = [message |-> source, position |-> p]
        BY <3>1, <3>2, Zenon DEF Trailing
      <3>4. out' = out
        BY <2>2, <3>3, Zenon
      <3>5. stream' = [message |-> source, position |-> p]
        BY <2>2, <3>3, Zenon
      <3> QED  BY <2>2, <2>3, <2>4, <2>6, <3>4, <3>5, Zenon DEF Wording, whole
    <2>7. CASE p < Len(source)
      <3>1. PICK q : Gives(r, T, source, p, q)
        <4>1. \E q : Gives(get_trailing(stream), Seq(Alphabet), source, p, q)
          BY <2>3, <2>4, <2>7, TrailingTakes
        <4> QED  BY <4>1
      <3>2. /\ r.ok /\ r.token \in T /\ r.stream = [message |-> source, position |-> q] /\ Stands(source, q)
            /\ After(source, p) = <<r.token>> \o After(source, q)
        BY <3>1, Zenon DEF Gives
      <3>3. q \in Nat
        BY <3>2, Zenon DEF Stands
      <3> DEFINE after == After(source, q)
                 token == r.token
      <3>4. after \in Seq(T)
        BY <2>3, <3>3, AfterFact
      <3>5. out' = Append(out, token) /\ token \in T /\ out \o (<<token>> \o after) = whole
        BY <2>2, <2>4, <3>2, Zenon
      <3> HIDE DEF T, after, token
      <3>6. Append(out, token) \in Seq(T) /\ Append(out, token) = out \o <<token>> /\ <<token>> \in Seq(T)
        BY <2>3, <3>5
      <3>7. (out \o <<token>>) \o after = out \o (<<token>> \o after)
        BY <2>3, <3>4, <3>6, ConcatAssociative
      <3>8. out' \in Seq(T) /\ out' \o after = whole
        BY <3>5, <3>6, <3>7
      <3>9. stream' = [message |-> source, position |-> q] /\ ~done'
        BY <2>2, <3>2, Zenon
      <3> QED  BY <2>2, <2>3, <3>2, <3>3, <3>8, <3>9, Zenon DEF Wording, whole, T, after
    <2>8. p >= Len(source) \/ p < Len(source)
      BY <2>5
    <2> QED  BY <2>6, <2>7, <2>8
  <1> QED  BY <1>1, <1>2

LEMMA WordingKeeps == Wording => TrailingKept
  <1> SUFFICES ASSUME Wording, how = "words", done
               PROVE  out = (IF source # <<>> /\ Head(source) = " " THEN <<<<>>>> ELSE <<>>) \o Parameters(source)
    BY Zenon DEF TrailingKept
  <1>1. source \in Seq(Alphabet) /\ out \in Seq(Seq(Alphabet))
    BY Zenon DEF Wording
  <1>2. PICK p \in Nat : p >= Len(source) /\ out \o After(source, p) = Lead(source) \o Parameters(source)
    BY Zenon DEF Wording
  <1>3. After(source, p) = <<>>
    BY <1>2, Zenon DEF After
  <1>4. out \o <<>> = out
    BY <1>1
  <1>5. source # <<>> => Head(source) = source[1]
    BY <1>1
  <1>6. Lead(source) = IF source # <<>> /\ Head(source) = " " THEN <<<<>>>> ELSE <<>>
    BY <1>5, Zenon DEF Lead, Blank
  <1> QED  BY <1>2, <1>3, <1>4, <1>6, Zenon

(***************************************************************************)
(* get_trailing keeps everything behind " :" in one piece, for messages of *)
(* any length and any characters and for any part of them the constructor  *)
(* takes, and gives the words before it one at a time.                     *)
(***************************************************************************)
THEOREM TrailingIsKept == TextSpec => []TrailingKept
  <1>1. TextSpec => []Wording
    BY WordingInit, WordingNext, PTL DEF TextSpec
  <1> QED  BY <1>1, WordingKeeps, PTL

-----------------------------------------------------------------------------
(***************************************************************************)
(* Digits: what conv_numeric prints is a minus or none and the digits of a *)
(* number that NumberOf gives back.                                        *)
(***************************************************************************)
LEMMA NumeralFact ==
  ASSUME NEW d \in 0 .. 9
  PROVE  /\ IsDigit(Numeral[d + 1]) /\ ValueOf(Numeral[d + 1]) = d
         /\ IsDigit(Numeral[1 + d]) /\ ValueOf(Numeral[1 + d]) = d
  <1>1. \A a, b \in 1 .. 10 : Numeral[a] = Numeral[b] => a = b
    BY DEF Numeral
  <1> DEFINE c == Numeral[d + 1]
  <1>2. IsDigit(c)
    BY DEF IsDigit
  <1>3. \E v \in 0 .. 9 : Numeral[v + 1] = c
    OBVIOUS
  <1>4. ValueOf(c) \in 0 .. 9 /\ Numeral[ValueOf(c) + 1] = c
    BY <1>3 DEF ValueOf
  <1>5. ValueOf(c) = d
    <2> DEFINE v == ValueOf(c)
    <2>1. v \in 0 .. 9 /\ Numeral[v + 1] = Numeral[d + 1]
      BY <1>4
    <2> HIDE DEF v
    <2>2. v + 1 \in 1 .. 10 /\ d + 1 \in 1 .. 10
      BY <2>1
    <2>3. v + 1 = d + 1
      BY <1>1, <2>1, <2>2
    <2>4. v = d
      BY <2>1, <2>3
    <2> QED  BY <2>4 DEF v
  <1>6. 1 + d = d + 1
    OBVIOUS
  <1> QED  BY <1>2, <1>5, <1>6

\* A sign is no digit, no blank and no comma, a digit neither, and a quote nothing of the kind.
LEMMA Kinds ==
  ASSUME NEW c, IsDigit(c)
  PROVE  ~IsSign(c) /\ ~IsBlank(c) /\ c # "," /\ c # "x"
  <1>1. c \in {"0", "1", "2", "3", "4", "5", "6", "7", "8", "9"}
    BY DEF IsDigit, Numeral
  <1>2. ~IsSign(c)
    BY <1>1, Zenon DEF IsSign
  <1>3. ~IsBlank(c)
    BY <1>1, Zenon DEF IsBlank, CR, LF
  <1>4. c # "," /\ c # "x"
    BY <1>1, Zenon
  <1> QED  BY <1>2, <1>3, <1>4

LEMMA MinusFact == IsSign("-") /\ ~IsBlank("-") /\ "-" # ","
  BY Zenon DEF IsSign, IsBlank, CR, LF

LEMMA QuotientFact ==
  ASSUME NEW a \in Int
  PROVE  /\ Quotient(a, 10) \in Int /\ Absolute(Remainder(a, 10)) \in 0 .. 9
         /\ Absolute(a) \in Nat /\ Absolute(Quotient(a, 10)) \in Nat
         /\ Absolute(a) = 10 * Absolute(Quotient(a, 10)) + Absolute(Remainder(a, 10))
         /\ a # 0 => Absolute(Quotient(a, 10)) < Absolute(a)
         /\ Absolute(a) = 0 <=> a = 0
  BY DEF Quotient, Remainder, Absolute

\* The value of a row of digits, one after the other.
Sums(f, base, digits) ==
  f[0] = 0 /\ \A n \in 1 .. Len(digits) : f[n] = base * f[n - 1] + ValueOf(digits[n])

LEMMA NumberOfFact ==
  ASSUME NEW base \in Nat, NEW digits, Len(digits) \in Nat,
         \A i \in 1 .. Len(digits) : ValueOf(digits[i]) \in Nat
  PROVE  \E f \in [0 .. Len(digits) -> Nat] : Sums(f, base, digits) /\ NumberOf(base, digits) = f[Len(digits)]
  <1> DEFINE N == Len(digits)
             Body(f, n) == IF n = 0 THEN 0 ELSE base * f[n - 1] + ValueOf(digits[n])
             value == CHOOSE f : f = [n \in 0 .. N |-> Body(f, n)]
  <1>1. \E f : f = [n \in 0 .. N |-> Body(f, n)]
    <2> DEFINE step == [x \in (1 .. N) \X Nat |-> base * x[2] + ValueOf(digits[x[1]])]
               z == 0
    <2>1. step \in [(1 .. N) \X Nat -> Nat]
      OBVIOUS
    <2>2. z \in Nat /\ N \in Nat
      OBVIOUS
    <2> HIDE DEF step, z, N
    <2>3. PICK f \in [0 .. N -> Nat] : Computes(f, N, z, step)
      BY <2>1, <2>2, Recursion
    <2> USE DEF N
    <2>4. f[0] = z /\ \A n \in 1 .. N : f[n] = step[<<n, f[n - 1]>>]
      BY <2>3 DEF Computes
    <2>5. ASSUME NEW n \in 1 .. N PROVE f[n] = base * f[n - 1] + ValueOf(digits[n])
      <3>1. n - 1 \in 0 .. N /\ f[n - 1] \in Nat
        BY <2>2, <2>3
      <3>2. step[<<n, f[n - 1]>>] = base * f[n - 1] + ValueOf(digits[n])
        BY <3>1 DEF step
      <3> QED  BY <2>4, <3>2
    <2>6. ASSUME NEW n \in 0 .. N PROVE f[n] = Body(f, n)
      BY <2>2, <2>4, <2>5 DEF z
    <2>7. f = [n \in 0 .. N |-> Body(f, n)]
      BY <2>3, <2>6
    <2> QED  BY <2>7
  <1>2. value = [n \in 0 .. N |-> Body(value, n)]
    BY <1>1
  <1>3. NumberOf(base, digits) = value[N]
    BY DEF NumberOf
  <1> HIDE DEF value
  <1>4. value[0] = 0 /\ \A n \in 1 .. N : value[n] = base * value[n - 1] + ValueOf(digits[n])
    BY <1>2
  <1>5. 0 .. N \subseteq {n \in Nat : value[n] \in Nat}
    <2> DEFINE D == {n \in Nat : value[n] \in Nat}
    <2>1. 0 \in D
      BY <1>4
    <2>2. ASSUME NEW n \in 1 .. N, n - 1 \in D PROVE n \in D
      <3>1. value[n - 1] \in Nat /\ ValueOf(digits[n]) \in Nat
        BY <2>2
      <3>2. base * value[n - 1] \in Nat
        BY <3>1
      <3>3. value[n] \in Nat
        BY <1>4, <3>1, <3>2
      <3> QED  BY <3>3
    <2>3. 0 .. N \subseteq D
      <3> HIDE DEF D
      <3> QED  BY <2>1, <2>2, BoundedInduction
    <2> QED  BY <2>3
  <1>6. value \in [0 .. N -> Nat]
    BY <1>2, <1>5
  <1> QED  BY <1>3, <1>4, <1>6 DEF Sums

\* The turns of the loop: what is left of q after each, until it is 0.
Turns(left, turns, q) ==
  /\ left[0] = q /\ left[turns] = 0 /\ (q # 0 => turns >= 1)
  /\ \A n \in 0 .. turns - 1 : left[n] # 0
  /\ \A n \in 0 .. turns : left[n] \in Int
  /\ \A n \in 1 .. turns : left[n] = Quotient(left[n - 1], 10)
  /\ DigitsOf(q) = [n \in 1 .. turns |-> Numeral[1 + Absolute(Remainder(left[n - 1], 10))]]

LEMMA TurnsFact ==
  ASSUME NEW q \in Int
  PROVE  \E left : \E turns \in Nat : Turns(left, turns, q)
  <1> DEFINE N == Absolute(q)
             Body(f, n) == IF n = 0 THEN q ELSE Quotient(f[n - 1], 10)
             left == CHOOSE f : f = [n \in 0 .. N |-> Body(f, n)]
             turns == CHOOSE n \in 0 .. N : left[n] = 0 /\ \A m \in 0 .. n - 1 : left[m] # 0
  <1>0. N \in Nat
    BY QuotientFact
  <1>1. \E f : f = [n \in 0 .. N |-> Body(f, n)]
    <2> DEFINE step == [x \in (1 .. N) \X Int |-> Quotient(x[2], 10)]
    <2>1. step \in [(1 .. N) \X Int -> Int]
      BY QuotientFact
    <2> HIDE DEF step, N
    <2>2. PICK f \in [0 .. N -> Int] : Computes(f, N, q, step)
      BY <1>0, <2>1, Recursion
    <2>3. f[0] = q /\ \A n \in 1 .. N : f[n] = step[<<n, f[n - 1]>>]
      BY <2>2 DEF Computes
    <2>4. ASSUME NEW n \in 1 .. N PROVE f[n] = Quotient(f[n - 1], 10)
      <3>1. n - 1 \in 0 .. N /\ f[n - 1] \in Int
        BY <1>0, <2>2
      <3>2. step[<<n, f[n - 1]>>] = Quotient(f[n - 1], 10)
        BY <3>1 DEF step
      <3> QED  BY <2>3, <3>2
    <2>5. ASSUME NEW n \in 0 .. N PROVE f[n] = Body(f, n)
      BY <1>0, <2>3, <2>4
    <2>6. f = [n \in 0 .. N |-> Body(f, n)]
      BY <2>2, <2>5
    <2> QED  BY <2>6 DEF N
  <1>2. left = [n \in 0 .. N |-> Body(left, n)]
    BY <1>1
  <1>3. DigitsOf(q) = [n \in 1 .. turns |-> Numeral[1 + Absolute(Remainder(left[n - 1], 10))]]
    BY DEF DigitsOf
  <1> HIDE DEF left
  <1>4. left[0] = q /\ \A n \in 1 .. N : left[n] = Quotient(left[n - 1], 10)
    BY <1>0, <1>2
  <1> DEFINE D == {n \in Nat : left[n] \in Int /\ Absolute(left[n]) \in Nat
                               /\ (left[n] = 0 \/ Absolute(left[n]) <= N - n)}
  <1>5. 0 .. N \subseteq D
    <2>1. 0 \in D
      BY <1>0, <1>4
    <2>2. ASSUME NEW n \in 1 .. N, n - 1 \in D PROVE n \in D
      <3> DEFINE a == left[n - 1]
                 b == left[n]
      <3>1. a \in Int /\ (a = 0 \/ Absolute(a) <= N - (n - 1)) /\ n \in Nat
        BY <2>2
      <3>2. b = Quotient(a, 10)
        BY <1>4
      <3> HIDE DEF a, b, N
      <3>3. b \in Int /\ Absolute(b) \in Nat /\ Absolute(a) \in Nat
            /\ (a # 0 => Absolute(b) < Absolute(a)) /\ (a = 0 => b = 0)
        <4>1. a = 0 => Quotient(a, 10) = 0
          BY DEF Quotient
        <4> QED  BY <3>1, <3>2, <4>1, QuotientFact
      <3>4. b = 0 \/ Absolute(b) <= N - n
        BY <1>0, <3>1, <3>3
      <3> QED  BY <3>1, <3>3, <3>4 DEF b
    <2> HIDE DEF D, N
    <2> QED  BY <1>0, <2>1, <2>2, BoundedInduction
  <1>6. left[N] = 0
    <2>1. N \in D
      <3> HIDE DEF D, N
      <3> QED  BY <1>0, <1>5
    <2>2. left[N] \in Int /\ (left[N] = 0 \/ (Absolute(left[N]) \in Nat /\ Absolute(left[N]) <= N - N))
      BY <2>1
    <2>3. Absolute(left[N]) = 0 => left[N] = 0
      BY <2>2, QuotientFact
    <2> HIDE DEF N
    <2> QED  BY <1>0, <2>2, <2>3
  <1>7. turns \in 0 .. N /\ left[turns] = 0 /\ \A m \in 0 .. turns - 1 : left[m] # 0
    <2> DEFINE Z == {n \in 0 .. N : left[n] = 0}
    <2> HIDE DEF N
    <2>1. Z \subseteq Nat /\ N \in Z
      BY <1>0, <1>6
    <2>2. PICK x \in Z : \A y \in Z : x <= y
      <3> HIDE DEF Z
      <3> QED  BY <2>1, LeastNumber
    <2>3. x \in 0 .. N /\ left[x] = 0 /\ \A m \in 0 .. x - 1 : left[m] # 0
      <3>1. ASSUME NEW m \in 0 .. x - 1, left[m] = 0 PROVE FALSE
        <4>1. x \in 0 .. N
          BY <2>2
        <4>2. m \in 0 .. N /\ ~(x <= m)
          BY <1>0, <4>1
        <4>3. m \in Z
          BY <3>1, <4>2
        <4> QED  BY <2>2, <4>2, <4>3
      <3> QED  BY <2>2, <3>1
    <2>4. \E n \in 0 .. N : left[n] = 0 /\ \A m \in 0 .. n - 1 : left[m] # 0
      BY <2>3
    <2> QED  BY <2>4
  <1> HIDE DEF turns
  <1>8. turns \in Nat /\ (q # 0 => turns >= 1)
    BY <1>0, <1>4, <1>7
  <1>9. \A n \in 0 .. turns : left[n] \in Int
    <2>1. ASSUME NEW n \in 0 .. turns PROVE left[n] \in Int
      <3>1. n \in 0 .. N
        <4> HIDE DEF N
        <4> QED  BY <1>0, <1>7
      <3>2. n \in D
        <4> HIDE DEF D, N
        <4> QED  BY <1>5, <3>1
      <3> QED  BY <3>2
    <2> QED  BY <2>1
  <1>10. \A n \in 1 .. turns : left[n] = Quotient(left[n - 1], 10)
    <2> HIDE DEF N
    <2> QED  BY <1>0, <1>4, <1>7
  <1>11. Turns(left, turns, q)
    BY <1>3, <1>4, <1>7, <1>8, <1>9, <1>10 DEF Turns
  <1> QED  BY <1>8, <1>11

Figures == {Numeral[i] : i \in 1 .. 10}

LEMMA FiguresFact ==
  ASSUME NEW c \in Figures
  PROVE  IsDigit(c) /\ ValueOf(c) \in 0 .. 9
  <1>1. PICK i \in 1 .. 10 : c = Numeral[i]
    BY DEF Figures
  <1>2. i - 1 \in 0 .. 9 /\ (i - 1) + 1 = i
    OBVIOUS
  <1> QED  BY <1>1, <1>2, NumeralFact

\* The digits of m, from the first to the last, and the first is 0 only if m is.
Decimal(d, m) ==
  d \in Seq(Figures) /\ Len(d) >= 1 /\ NumberOf(10, d) = m /\ (m # 0 => ValueOf(d[1]) # 0)

LEMMA DigitsFact ==
  ASSUME NEW q \in Int, q # 0
  PROVE  LET D == DigitsOf(q) IN D \in Seq(Figures) /\ Decimal(Reverse(D), Absolute(q))
  <1>1. PICK left : \E turns \in Nat : Turns(left, turns, q)
    BY TurnsFact
  <1>2. PICK t \in Nat : Turns(left, t, q)
    BY <1>1
  <1> DEFINE Fig(a) == Numeral[1 + Absolute(Remainder(a, 10))]
             D == DigitsOf(q)
             R == [i \in 1 .. t |-> Fig(left[t - i])]
  <1>3. /\ left[0] = q /\ left[t] = 0 /\ t >= 1
        /\ \A n \in 0 .. t - 1 : left[n] # 0
        /\ \A n \in 0 .. t : left[n] \in Int
        /\ \A n \in 1 .. t : left[n] = Quotient(left[n - 1], 10)
    BY <1>2 DEF Turns
  <1>4. D = [n \in 1 .. t |-> Fig(left[n - 1])]
    BY <1>2 DEF Turns
  <1>5. ASSUME NEW a \in Int
        PROVE  Fig(a) \in Figures /\ ValueOf(Fig(a)) = Absolute(Remainder(a, 10))
    <2> DEFINE d == Absolute(Remainder(a, 10))
    <2>1. d \in 0 .. 9
      BY QuotientFact
    <2> HIDE DEF d
    <2>2. ValueOf(Numeral[1 + d]) = d /\ 1 + d \in 1 .. 10
      BY <2>1, NumeralFact
    <2>3. Numeral[1 + d] \in Figures
      BY <2>2 DEF Figures
    <2> QED  BY <2>2, <2>3 DEF d
  <1> HIDE DEF Fig, D
  <1>6. D \in Seq(Figures) /\ Len(D) = t
    <2>1. \A n \in 1 .. t : n - 1 \in 0 .. t
      OBVIOUS
    <2>2. \A n \in 1 .. t : Fig(left[n - 1]) \in Figures
      BY <1>3, <1>5, <2>1
    <2> QED  BY <1>4, <2>2
  <1>7. Reverse(D) = R
    <2>1. Reverse(D) = [i \in 1 .. t |-> D[(t - i) + 1]]
      BY <1>6 DEF Reverse
    <2>2. ASSUME NEW i \in 1 .. t PROVE D[(t - i) + 1] = Fig(left[t - i])
      <3>1. (t - i) + 1 \in 1 .. t /\ ((t - i) + 1) - 1 = t - i
        OBVIOUS
      <3> QED  BY <1>4, <3>1
    <2> QED  BY <2>1, <2>2
  <1>8. \A i \in 1 .. t : t - i \in 0 .. t /\ left[t - i] \in Int
    BY <1>3
  <1>9. R \in Seq(Figures) /\ Len(R) = t /\ \A i \in 1 .. t : R[i] = Fig(left[t - i])
    BY <1>5, <1>8
  <1> HIDE DEF R
  <1>10. \A i \in 1 .. Len(R) : ValueOf(R[i]) \in Nat
    BY <1>9, FiguresFact
  <1>11. PICK f \in [0 .. Len(R) -> Nat] : Sums(f, 10, R) /\ NumberOf(10, R) = f[Len(R)]
    BY <1>9, <1>10, NumberOfFact
  <1>12. f[0] = 0 /\ \A n \in 1 .. t : f[n] = 10 * f[n - 1] + ValueOf(R[n])
    BY <1>9, <1>11 DEF Sums
  <1> DEFINE H == {j \in Nat : j <= t /\ f[j] = Absolute(left[t - j])}
  <1>13. 0 .. t \subseteq H
    <2>1. 0 \in H
      <3>1. t - 0 = t /\ Absolute(0) = 0
        BY DEF Absolute
      <3> QED  BY <1>3, <1>12, <3>1
    <2>2. ASSUME NEW j \in 1 .. t, j - 1 \in H PROVE j \in H
      <3> DEFINE a == left[t - j]
      <3>1. a \in Int /\ t - j \in 0 .. t
        BY <1>8
      <3>2. f[j - 1] = Absolute(left[t - (j - 1)])
        BY <2>2
      <3>3. left[t - (j - 1)] = Quotient(a, 10)
        <4> DEFINE k == t - (j - 1)
        <4>1. k \in 1 .. t /\ k - 1 = t - j
          OBVIOUS
        <4> HIDE DEF k
        <4> QED  BY <1>3, <4>1 DEF k
      <3>4. ValueOf(R[j]) = Absolute(Remainder(a, 10))
        BY <1>5, <1>9, <3>1
      <3>5. f[j] = 10 * Absolute(Quotient(a, 10)) + Absolute(Remainder(a, 10))
        BY <1>12, <3>2, <3>3, <3>4
      <3>6. f[j] = Absolute(a)
        <4> HIDE DEF a
        <4> QED  BY <3>1, <3>5, QuotientFact
      <3> QED  BY <3>6
    <2> HIDE DEF H
    <2> QED  BY <2>1, <2>2, BoundedInduction
  <1>14. f[t] = Absolute(q)
    <2>1. t \in H
      <3> HIDE DEF H
      <3> QED  BY <1>13
    <2>2. t - t = 0
      OBVIOUS
    <2> QED  BY <1>3, <2>1, <2>2
  <1>15. ValueOf(R[1]) # 0
    <2> DEFINE a == left[t - 1]
    <2>1. t - 1 \in 0 .. t - 1 /\ t \in 1 .. t /\ t - 1 \in 0 .. t /\ 1 \in 1 .. t
      BY <1>3
    <2>2. a \in Int /\ a # 0 /\ Quotient(a, 10) = 0
      BY <1>3, <2>1
    <2>3. ValueOf(R[1]) = Absolute(Remainder(a, 10))
      BY <1>5, <1>9, <2>1, <2>2
    <2> HIDE DEF a
    <2>4. Absolute(Quotient(a, 10)) = 0
      BY <2>2 DEF Absolute
    <2> QED  BY <2>2, <2>3, <2>4, QuotientFact
  <1>16. Decimal(R, Absolute(q))
    BY <1>3, <1>9, <1>11, <1>14, <1>15 DEF Decimal
  <1> QED  BY <1>6, <1>7, <1>16 DEF D

LEMMA PrintedFact ==
  ASSUME NEW in \in Int
  PROVE  \E d : Decimal(d, Absolute(in)) /\ conv_numeric(in) = IF in < 0 THEN <<"-">> \o d ELSE d
  <1>1. CASE in = 0
    <2> DEFINE c == Numeral[0 + 1]
               d == <<c>>
    <2>1. c = "0"
      BY DEF Numeral
    <2>2. ValueOf(c) = 0 /\ c \in Figures
      <3>1. 0 \in 0 .. 9 /\ 0 + 1 \in 1 .. 10
        OBVIOUS
      <3>2. ValueOf(Numeral[0 + 1]) = 0
        BY <3>1, NumeralFact, Zenon
      <3> QED  BY <3>1, <3>2 DEF Figures
    <2> HIDE DEF c
    <2>3. d \in Seq(Figures) /\ Len(d) = 1 /\ d[1] = c
      BY <2>2
    <2> HIDE DEF d
    <2>4. PICK f \in [0 .. Len(d) -> Nat] : Sums(f, 10, d) /\ NumberOf(10, d) = f[Len(d)]
      <3>1. \A i \in 1 .. Len(d) : ValueOf(d[i]) \in Nat
        BY <2>2, <2>3
      <3> QED  BY <2>3, <3>1, NumberOfFact
    <2>5. NumberOf(10, d) = 0
      BY <2>2, <2>3, <2>4 DEF Sums
    <2>6. Absolute(in) = 0 /\ ~(in < 0)
      BY <1>1 DEF Absolute
    <2>7. Decimal(d, Absolute(in))
      BY <2>3, <2>5, <2>6 DEF Decimal
    <2>8. conv_numeric(in) = d
      BY <1>1, <2>1, Zenon DEF conv_numeric, d
    <2> QED  BY <2>6, <2>7, <2>8
  <1>2. CASE in # 0
    <2> DEFINE D == DigitsOf(in)
               R == Reverse(D)
               m == "-"
    <2>1. D \in Seq(Figures) /\ Decimal(R, Absolute(in))
      BY <1>2, DigitsFact
    <2>2. R \in Seq(Figures)
      BY <2>1 DEF Decimal
    <2>3. conv_numeric(in) = Reverse(D \o (IF in < 0 THEN <<m>> ELSE <<>>))
      BY <1>2, Zenon DEF conv_numeric
    <2> HIDE DEF D, m
    <2>4. CASE in < 0
      <3>1. conv_numeric(in) = Reverse(D \o <<m>>)
        BY <2>3, <2>4
      <3>2. D \o <<m>> = [i \in 1 .. Len(D) + 1 |-> IF i <= Len(D) THEN D[i] ELSE m]
        BY <2>1
      <3>3. Reverse(D \o <<m>>) = <<m>> \o R
        <4> DEFINE x == Reverse(D \o <<m>>)
                   y == <<m>> \o R
                   n == Len(D)
        <4>1. n \in Nat /\ Len(D \o <<m>>) = n + 1
          BY <2>1
        <4>2. x = [i \in 1 .. n + 1 |-> (D \o <<m>>)[(n + 1 - i) + 1]]
          BY <4>1 DEF Reverse
        <4>3. R = [i \in 1 .. n |-> D[(n - i) + 1]]
          BY DEF Reverse
        <4>4. Len(R) = n /\ y = [i \in 1 .. n + 1 |-> IF i = 1 THEN m ELSE R[i - 1]]
          <5>1. Len(R) = n
            BY <4>1, <4>3
          <5>2. Len(<<m>>) = 1 /\ <<m>>[1] = m
            OBVIOUS
          <5> HIDE DEF R, n
          <5> QED  BY <2>2, <4>1, <5>1, <5>2
        <4>5. ASSUME NEW i \in 1 .. n + 1
              PROVE  (D \o <<m>>)[(n + 1 - i) + 1] = IF i = 1 THEN m ELSE R[i - 1]
          <5>1. (n + 1 - i) + 1 \in 1 .. n + 1
            BY <4>1
          <5>2. CASE i = 1
            <6>1. (n + 1 - i) + 1 = n + 1 /\ ~(n + 1 <= n)
              BY <4>1, <5>2
            <6> QED  BY <3>2, <5>1, <5>2, <6>1
          <5>3. CASE i # 1
            <6>1. i - 1 \in 1 .. n /\ (n + 1 - i) + 1 <= n /\ (n - (i - 1)) + 1 = (n + 1 - i) + 1
              BY <4>1, <5>3
            <6>2. R[i - 1] = D[(n + 1 - i) + 1]
              BY <4>3, <6>1
            <6> QED  BY <3>2, <5>1, <5>3, <6>1, <6>2
          <5> QED  BY <5>2, <5>3
        <4> HIDE DEF x, y, n, R
        <4> QED  BY <4>2, <4>4, <4>5 DEF x, y
      <3> QED  BY <2>1, <2>4, <3>1, <3>3 DEF m
    <2>5. CASE ~(in < 0)
      <3>1. D \o <<>> = D
        BY <2>1
      <3> QED  BY <2>1, <2>3, <2>5, <3>1
    <2> QED  BY <2>4, <2>5
  <1> QED  BY <1>1, <1>2

-----------------------------------------------------------------------------
(***************************************************************************)
(* The language of is_number.                                              *)
(***************************************************************************)
Counted(c, dots) == IsDigit(c) \/ (dots /\ c \in {".", "+", "e"})

\* k signs, and behind them what is counted.
Language(s, dots, k, n) ==
  (\A i \in 1 .. k : IsSign(s[i])) /\ \A i \in k + 1 .. n : Counted(s[i], dots)

Seen(f, s, dots, n) ==
  /\ f[n] \in [ok : BOOLEAN, counter : Nat]
  /\ f[n].ok => (f[n].counter = 0 <=> \A i \in 1 .. n : IsSign(s[i]))
  /\ f[n].ok <=> \E k \in 0 .. n : Language(s, dots, k, n)

LEMMA SignsOnly ==
  ASSUME NEW s, NEW dots, NEW n \in Nat, \A i \in 1 .. n : IsSign(s[i])
  PROVE  Language(s, dots, n, n)
  BY DEF Language

LEMMA LanguageGrows ==
  ASSUME NEW s, NEW dots, NEW n \in Nat, NEW k \in 0 .. n
  PROVE  Language(s, dots, k, n + 1) <=> Language(s, dots, k, n) /\ Counted(s[n + 1], dots)
  <1>1. k + 1 .. n + 1 = (k + 1 .. n) \cup {n + 1}
    OBVIOUS
  <1> QED  BY <1>1 DEF Language

LEMMA SeenStep ==
  ASSUME NEW s, NEW dots \in BOOLEAN, NEW n \in Nat, NEW f, Seen(f, s, dots, n),
         f[n + 1] = IF ~f[n].ok \/ (f[n].counter = 0 /\ IsSign(s[n + 1])) THEN f[n]
                    ELSE IF Counted(s[n + 1], dots) THEN [f[n] EXCEPT !.counter = @ + 1]
                    ELSE [f[n] EXCEPT !.ok = FALSE]
  PROVE  Seen(f, s, dots, n + 1)
  <1> DEFINE c == s[n + 1]
             a == f[n]
             b == f[n + 1]
             ok == \E k \in 0 .. n + 1 : Language(s, dots, k, n + 1)
  <1>1. /\ a \in [ok : BOOLEAN, counter : Nat]
        /\ a.ok => (a.counter = 0 <=> \A i \in 1 .. n : IsSign(s[i]))
        /\ a.ok <=> \E k \in 0 .. n : Language(s, dots, k, n)
    BY DEF Seen
  <1>2. b = IF ~a.ok \/ (a.counter = 0 /\ IsSign(c)) THEN a
            ELSE IF Counted(c, dots) THEN [a EXCEPT !.counter = @ + 1]
            ELSE [a EXCEPT !.ok = FALSE]
    OBVIOUS
  <1>3. (\A i \in 1 .. n + 1 : IsSign(s[i])) <=> (\A i \in 1 .. n : IsSign(s[i])) /\ IsSign(c)
    <2>1. 1 .. n + 1 = (1 .. n) \cup {n + 1}
      OBVIOUS
    <2> QED  BY <2>1
  <1>4. Language(s, dots, n + 1, n + 1) => Language(s, dots, n, n)
    <2>1. Language(s, dots, n + 1, n + 1) => \A i \in 1 .. n + 1 : IsSign(s[i])
      BY DEF Language
    <2> QED  BY <1>3, <2>1, SignsOnly
  <1>5. ok => a.ok
    <2> SUFFICES ASSUME NEW k \in 0 .. n + 1, Language(s, dots, k, n + 1)
                 PROVE  \E j \in 0 .. n : Language(s, dots, j, n)
      BY <1>1
    <2>1. CASE k = n + 1
      <3>1. n \in 0 .. n
        OBVIOUS
      <3> QED  BY <1>4, <2>1, <3>1
    <2>2. CASE k # n + 1
      <3>1. k \in 0 .. n
        BY <2>2
      <3> QED  BY <3>1, LanguageGrows
    <2> QED  BY <2>1, <2>2
  <1>6. CASE ~a.ok
    <2>1. b = a /\ ~ok
      BY <1>2, <1>5, <1>6
    <2>2. n + 1 \in Nat
      OBVIOUS
    <2> QED  BY <1>1, <1>6, <2>1 DEF Seen
  <1>7. CASE a.ok /\ a.counter = 0 /\ IsSign(c)
    <2>1. b = a /\ \A i \in 1 .. n + 1 : IsSign(s[i])
      BY <1>1, <1>2, <1>3, <1>7
    <2>2. ok
      <3>1. n + 1 \in 0 .. n + 1 /\ n + 1 \in Nat
        OBVIOUS
      <3>2. Language(s, dots, n + 1, n + 1)
        BY <2>1, <3>1, SignsOnly
      <3> QED  BY <3>1, <3>2
    <2> QED  BY <1>1, <1>7, <2>1, <2>2 DEF Seen
  <1>8. CASE a.ok /\ ~(a.counter = 0 /\ IsSign(c)) /\ Counted(c, dots)
    <2>1. b = [a EXCEPT !.counter = @ + 1]
      BY <1>2, <1>8
    <2>2. b \in [ok : BOOLEAN, counter : Nat] /\ b.ok /\ b.counter # 0
      BY <1>1, <1>8, <2>1
    <2>3. ~\A i \in 1 .. n + 1 : IsSign(s[i])
      BY <1>1, <1>3, <1>8
    <2>4. ok
      <3>1. PICK k \in 0 .. n : Language(s, dots, k, n)
        BY <1>1, <1>8
      <3>2. k \in 0 .. n + 1
        OBVIOUS
      <3>3. Language(s, dots, k, n + 1)
        BY <1>8, <3>1, LanguageGrows
      <3> QED  BY <3>2, <3>3
    <2> QED  BY <2>2, <2>3, <2>4 DEF Seen
  <1>9. CASE a.ok /\ ~(a.counter = 0 /\ IsSign(c)) /\ ~Counted(c, dots)
    <2>1. b = [a EXCEPT !.ok = FALSE]
      BY <1>2, <1>9
    <2>2. b \in [ok : BOOLEAN, counter : Nat] /\ ~b.ok
      BY <1>1, <2>1
    <2>3. ~ok
      <3> SUFFICES ASSUME NEW k \in 0 .. n + 1, Language(s, dots, k, n + 1) PROVE FALSE
        OBVIOUS
      <3>1. CASE k = n + 1
        <4>1. \A i \in 1 .. n + 1 : IsSign(s[i])
          BY <3>1 DEF Language
        <4> QED  BY <1>1, <1>3, <1>9, <4>1
      <3>2. CASE k # n + 1
        <4>1. k \in 0 .. n
          BY <3>2
        <4> QED  BY <1>9, <4>1, LanguageGrows
      <3> QED  BY <3>1, <3>2
    <2> QED  BY <2>2, <2>3 DEF Seen
  <1> QED  BY <1>1, <1>6, <1>7, <1>8, <1>9

LEMMA LanguageFact ==
  ASSUME NEW s, Len(s) \in Nat, NEW dots \in BOOLEAN
  PROVE  is_number(s, dots) <=> \E k \in 0 .. Len(s) : Language(s, dots, k, Len(s))
  <1> DEFINE N == Len(s)
             S == [ok : BOOLEAN, counter : Nat]
             none == [ok |-> TRUE, counter |-> 0]
             Look(st, c) ==
               IF ~st.ok \/ (st.counter = 0 /\ IsSign(c)) THEN st
               ELSE IF Counted(c, dots) THEN [st EXCEPT !.counter = @ + 1]
               ELSE [st EXCEPT !.ok = FALSE]
             Body(f, n) == IF n = 0 THEN none ELSE Look(f[n - 1], s[n])
             seen == CHOOSE f : f = [n \in 0 .. N |-> Body(f, n)]
  <1>1. is_number(s, dots) = seen[N].ok
    BY DEF is_number, Counted
  <1>2. none \in S /\ \A st \in S : \A c : Look(st, c) \in S
    <2>1. none \in S
      OBVIOUS
    <2>2. ASSUME NEW st \in S, NEW c PROVE Look(st, c) \in S
      <3>1. st.ok \in BOOLEAN /\ st.counter \in Nat
        OBVIOUS
      <3>2. [st EXCEPT !.counter = @ + 1] \in S /\ [st EXCEPT !.ok = FALSE] \in S
        <4>1. ASSUME NEW b, b = [st EXCEPT !.counter = @ + 1] PROVE b \in S
          BY <3>1, <4>1
        <4>2. ASSUME NEW b, b = [st EXCEPT !.ok = FALSE] PROVE b \in S
          BY <3>1, <4>2
        <4> HIDE DEF S
        <4> QED  BY <4>1, <4>2, Zenon
      <3> HIDE DEF S
      <3> QED  BY <2>2, <3>2, Zenon
    <2> QED  BY <2>1, <2>2
  <1> HIDE DEF Look, none, S
  <1>3. \E f : f = [n \in 0 .. N |-> Body(f, n)]
    <2> DEFINE step == [x \in (1 .. N) \X S |-> Look(x[2], s[x[1]])]
    <2>1. step \in [(1 .. N) \X S -> S]
      BY <1>2
    <2> HIDE DEF step, N
    <2>2. PICK f \in [0 .. N -> S] : Computes(f, N, none, step)
      BY <1>2, <2>1, Recursion DEF N
    <2>3. f[0] = none /\ \A n \in 1 .. N : f[n] = step[<<n, f[n - 1]>>]
      BY <2>2 DEF Computes
    <2>4. ASSUME NEW n \in 1 .. N PROVE f[n] = Look(f[n - 1], s[n])
      <3>1. n - 1 \in 0 .. N /\ f[n - 1] \in S
        BY <2>2 DEF N
      <3>2. step[<<n, f[n - 1]>>] = Look(f[n - 1], s[n])
        BY <3>1 DEF step
      <3> QED  BY <2>3, <3>2
    <2>5. ASSUME NEW n \in 0 .. N PROVE f[n] = Body(f, n)
      BY <2>3, <2>4 DEF N
    <2>6. f = [n \in 0 .. N |-> Body(f, n)]
      BY <2>2, <2>5
    <2> QED  BY <2>6 DEF N
  <1>4. seen = [n \in 0 .. N |-> Body(seen, n)]
    BY <1>3
  <1> HIDE DEF seen
  <1>5. seen[0] = none /\ \A n \in 1 .. N : seen[n] = Look(seen[n - 1], s[n])
    BY <1>4
  <1> DEFINE D == {n \in Nat : Seen(seen, s, dots, n)}
  <1>6. 0 .. N \subseteq D
    <2>1. 0 \in D
      <3>1. seen[0] \in [ok : BOOLEAN, counter : Nat] /\ seen[0].ok /\ seen[0].counter = 0
        BY <1>5 DEF none
      <3>2. 0 \in 0 .. 0 /\ Language(s, dots, 0, 0)
        BY DEF Language
      <3> QED  BY <3>1, <3>2 DEF Seen
    <2>2. ASSUME NEW n \in 1 .. N, n - 1 \in D PROVE n \in D
      <3> DEFINE m == n - 1
      <3>1. m \in Nat /\ n = m + 1 /\ Seen(seen, s, dots, m)
        BY <2>2
      <3>2. seen[m + 1] = Look(seen[m], s[m + 1])
        BY <1>5
      <3> HIDE DEF m
      <3>3. Seen(seen, s, dots, m + 1)
        BY <3>1, <3>2, SeenStep DEF Look
      <3> QED  BY <3>1, <3>3
    <2> HIDE DEF D
    <2> QED  BY <2>1, <2>2, BoundedInduction
  <1>7. Seen(seen, s, dots, N)
    <2>1. N \in 0 .. N
      OBVIOUS
    <2> QED  BY <1>6, <2>1
  <1> QED  BY <1>1, <1>7 DEF Seen

LEMMA ListsFact ==
  ASSUME NEW ns \in Lists
  PROVE  ns \in Seq(Int) /\ \A i \in 1 .. Len(ns) : ns[i] \in Ints /\ ns[i] \in Int
  <1>1. \A n \in Ints : n \in Int
    BY DEF Ints
  <1>2. CASE ns \in {<<n>> : n \in Ints}
    <2>1. PICK n \in Ints : ns = <<n>>
      BY <1>2
    <2> HIDE DEF Ints
    <2> QED  BY <1>1, <2>1
  <1>3. CASE ns \in BoundedSeq(Edges, 3)
    <2>1. PICK m \in 0 .. 3 : ns \in [1 .. m -> Edges]
      BY <1>3 DEF BoundedSeq, SeqOf
    <2>2. Edges \subseteq Ints
      BY TextAssumption
    <2>3. m \in Nat /\ \A i \in 1 .. m : ns[i] \in Ints
      <3> HIDE DEF Edges, Ints
      <3> QED  BY <2>1, <2>2
    <2>4. \A i \in 1 .. m : ns[i] \in Int
      BY <1>1, <2>3
    <2>5. ns = [i \in 1 .. m |-> ns[i]]
      <3> HIDE DEF Edges
      <3> QED  BY <2>1
    <2>6. ns \in Seq(Int) /\ Len(ns) = m
      BY <2>3, <2>4, <2>5
    <2> QED  BY <2>3, <2>4, <2>6
  <1> QED  BY <1>2, <1>3 DEF Lists

\* What a list of numbers looks like up to each of them.
Dash  == "-"
Comma == ","
Marks == Figures \cup {Dash, Comma}

LEMMA Pushed ==
  ASSUME NEW F, NEW c \in F, NEW d \in Seq(F), NEW s, s = <<c>> \o d
  PROVE  /\ s \in Seq(F) /\ Len(s) = Len(d) + 1 /\ s[1] = c
         /\ \A i \in 1 .. Len(d) : s[i + 1] = d[i]
         /\ \A i \in 2 .. Len(s) : i - 1 \in 1 .. Len(d) /\ s[i] = d[i - 1]
  <1> DEFINE h == <<c>>
  <1>1. h \in Seq(F) /\ Len(h) = 1 /\ h[1] = c
    OBVIOUS
  <1> HIDE DEF h
  <1>2. s = h \o d /\ Len(d) \in Nat
    BY DEF h
  <1>3. s \in Seq(F) /\ Len(s) = Len(d) + 1
    BY <1>1, <1>2
  <1>4. s[1] = c
    BY <1>1, <1>2
  <1>5. ASSUME NEW i \in 1 .. Len(d) PROVE s[i + 1] = d[i]
    <2>1. i + 1 \in 1 .. Len(h) + Len(d) /\ ~(i + 1 <= Len(h)) /\ (i + 1) - Len(h) = i
      BY <1>1, <1>2
    <2> QED  BY <1>1, <1>2, <2>1, ConcatProperties
  <1>6. ASSUME NEW i \in 2 .. Len(s) PROVE i - 1 \in 1 .. Len(d) /\ s[i] = d[i - 1]
    <2>1. i - 1 \in 1 .. Len(d) /\ (i - 1) + 1 = i
      BY <1>2, <1>3
    <2> QED  BY <1>5, <2>1
  <1> QED  BY <1>3, <1>4, <1>5, <1>6

LEMMA NumeralText ==
  ASSUME NEW in \in Int
  PROVE  convto_string(in) \in Seq(Figures \cup {Dash}) /\ Len(convto_string(in)) >= 1
  <1>1. PICK d : Decimal(d, Absolute(in)) /\ conv_numeric(in) = IF in < 0 THEN <<"-">> \o d ELSE d
    BY PrintedFact
  <1>2. d \in Seq(Figures) /\ Len(d) >= 1
    BY <1>1 DEF Decimal
  <1>3. convto_string(in) = IF in < 0 THEN <<Dash>> \o d ELSE d
    BY <1>1, Zenon DEF convto_string, Dash
  <1> HIDE DEF Figures, Dash
  <1>4. d \in Seq(Figures \cup {Dash}) /\ <<Dash>> \in Seq(Figures \cup {Dash}) /\ Len(<<Dash>>) = 1
    BY <1>2
  <1> DEFINE F == Figures \cup {Dash}
             h == <<Dash>>
  <1> HIDE DEF F, h
  <1>5. h \o d \in Seq(F) /\ Len(h \o d) = Len(d) + 1
    BY <1>4 DEF F, h
  <1>6. CASE in < 0
    <2>1. convto_string(in) = h \o d
      BY <1>3, <1>6 DEF h
    <2> QED  BY <1>2, <1>5, <2>1 DEF F
  <1>7. CASE ~(in < 0)
    <2>1. convto_string(in) = d
      BY <1>3, <1>7
    <2> QED  BY <1>2, <1>4, <2>1 DEF F
  <1> QED  BY <1>6, <1>7

TextOf(text, ns, n) ==
  (IF n = 1 THEN <<>> ELSE text[n - 1] \o <<Comma>>) \o convto_string(ns[n])

Texts(text, ns) ==
  /\ text[0] = <<>>
  /\ \A n \in 1 .. Len(ns) : text[n] = TextOf(text, ns, n)
  /\ \A n \in 0 .. Len(ns) : text[n] \in Seq(Marks)

LEMMA TextsOf ==
  ASSUME NEW ns \in Lists
  PROVE  \E text : Texts(text, ns) /\ Printed(ns) = text[Len(ns)]
  <1> DEFINE N == Len(ns)
             S == Seq(Marks)
             Join(t, n) == (IF n = 1 THEN <<>> ELSE t \o <<Comma>>) \o convto_string(ns[n])
             Body(f, n) == IF n = 0 THEN <<>> ELSE Join(f[n - 1], n)
             text == CHOOSE f : f = [n \in 0 .. N |-> Body(f, n)]
             none == <<>>
  <1>1. Printed(ns) = text[N]
    BY Zenon DEF Printed, Comma
  <1>2. N \in Nat /\ \A n \in 1 .. N : ns[n] \in Int
    BY ListsFact
  <1>3. none \in S /\ \A n \in 1 .. N : \A t \in S : Join(t, n) \in S
    <2>1. ASSUME NEW n \in 1 .. N, NEW t \in S PROVE Join(t, n) \in S
      <3> DEFINE c == convto_string(ns[n])
                 h == <<Comma>>
      <3>1. c \in Seq(Figures \cup {Dash})
        BY <1>2, NumeralText
      <3> HIDE DEF c, Figures, Dash, Comma
      <3>2. c \in S /\ h \in S
        BY <3>1 DEF Marks
      <3> HIDE DEF h
      <3>3. t \o h \in S /\ none \in S
        BY <2>1, <3>2
      <3>4. (IF n = 1 THEN <<>> ELSE t \o h) \in S
        BY <3>3
      <3> DEFINE u == IF n = 1 THEN <<>> ELSE t \o h
      <3> HIDE DEF u
      <3>5. u \o c \in S
        BY <3>2, <3>4 DEF u
      <3> QED  BY <3>5 DEF u, c, h
    <2> QED  BY <2>1
  <1> HIDE DEF Join, S, none
  <1>4. \E f : f = [n \in 0 .. N |-> Body(f, n)]
    <2> DEFINE step == [x \in (1 .. N) \X S |-> Join(x[2], x[1])]
    <2>1. step \in [(1 .. N) \X S -> S]
      BY <1>3
    <2> HIDE DEF step, N
    <2>2. PICK f \in [0 .. N -> S] : Computes(f, N, none, step)
      BY <1>2, <1>3, <2>1, Recursion
    <2>3. f[0] = none /\ \A n \in 1 .. N : f[n] = step[<<n, f[n - 1]>>]
      BY <2>2 DEF Computes
    <2>4. ASSUME NEW n \in 1 .. N PROVE f[n] = Join(f[n - 1], n)
      <3>1. n - 1 \in 0 .. N /\ f[n - 1] \in S
        BY <1>2, <2>2
      <3>2. step[<<n, f[n - 1]>>] = Join(f[n - 1], n)
        BY <3>1 DEF step
      <3> QED  BY <2>3, <3>2
    <2>5. ASSUME NEW n \in 0 .. N PROVE f[n] = Body(f, n)
      BY <1>2, <2>3, <2>4 DEF none
    <2>6. f = [n \in 0 .. N |-> Body(f, n)]
      BY <2>2, <2>5
    <2> QED  BY <2>6 DEF N
  <1>5. text = [n \in 0 .. N |-> Body(text, n)]
    BY <1>4
  <1> HIDE DEF text
  <1>6. text[0] = none /\ \A n \in 1 .. N : text[n] = Join(text[n - 1], n)
    BY <1>2, <1>5 DEF none
  <1> DEFINE D == {n \in Nat : text[n] \in S}
  <1>7. 0 .. N \subseteq D
    <2>1. 0 \in D
      BY <1>3, <1>6
    <2>2. ASSUME NEW n \in 1 .. N, n - 1 \in D PROVE n \in D
      BY <1>3, <1>6, <2>2
    <2> HIDE DEF D, N
    <2> QED  BY <1>2, <2>1, <2>2, BoundedInduction
  <1>8. Texts(text, ns)
    <2>1. \A n \in 0 .. N : text[n] \in Seq(Marks)
      BY <1>7 DEF S
    <2>2. \A n \in 1 .. N : text[n] = TextOf(text, ns, n)
      BY <1>6 DEF Join, TextOf
    <2> QED  BY <1>6, <2>1, <2>2 DEF Texts, none
  <1> QED  BY <1>1, <1>8

LEMMA SignedIsNumber ==
  ASSUME NEW in \in Int
  PROVE  is_number(convto_string(in), FALSE)
  <1> DEFINE s == convto_string(in)
  <1>1. PICK d : Decimal(d, Absolute(in)) /\ conv_numeric(in) = IF in < 0 THEN <<"-">> \o d ELSE d
    BY PrintedFact
  <1>2. d \in Seq(Figures) /\ Len(d) >= 1
    BY <1>1 DEF Decimal
  <1>3. s = IF in < 0 THEN <<Dash>> \o d ELSE d
    BY <1>1, Zenon DEF convto_string, Dash
  <1>4. s \in Seq(Figures \cup {Dash})
    BY NumeralText
  <1>5. IsSign(Dash)
    BY MinusFact, Zenon DEF Dash
  <1>6. \A i \in 1 .. Len(d) : Counted(d[i], FALSE)
    <2>1. \A i \in 1 .. Len(d) : d[i] \in Figures
      <3> HIDE DEF Figures
      <3> QED  BY <1>2
    <2> QED  BY <2>1, FiguresFact DEF Counted
  <1> HIDE DEF s, Figures, Dash
  <1>7. Len(s) \in Nat /\ Len(d) \in Nat
    BY <1>2, <1>4
  <1>8. \E k \in 0 .. Len(s) : Language(s, FALSE, k, Len(s))
    <2>1. CASE in < 0
      <3>1. s[1] = Dash /\ Len(s) = Len(d) + 1 /\ \A i \in 2 .. Len(s) : i - 1 \in 1 .. Len(d) /\ s[i] = d[i - 1]
        <4> DEFINE F == Figures \cup {Dash}
        <4>1. Dash \in F /\ d \in Seq(F)
          BY <1>2
        <4> HIDE DEF F
        <4>2. s = <<Dash>> \o d
          BY <1>3, <2>1
        <4> QED  BY <4>1, <4>2, Pushed
      <3>2. Language(s, FALSE, 1, Len(s))
        <4>1. \A i \in 1 .. 1 : IsSign(s[i])
          BY <1>5, <3>1
        <4>2. \A i \in 1 + 1 .. Len(s) : Counted(s[i], FALSE)
          <5>1. 1 + 1 = 2
            OBVIOUS
          <5> QED  BY <1>6, <3>1, <5>1
        <4> QED  BY <4>1, <4>2 DEF Language
      <3>3. 1 \in 0 .. Len(s)
        BY <1>7, <3>1
      <3> QED  BY <3>2, <3>3
    <2>2. CASE ~(in < 0)
      <3>1. s = d
        BY <1>3, <2>2
      <3>2. 0 \in 0 .. Len(s) /\ 0 + 1 .. Len(s) = 1 .. Len(d) /\ 1 .. 0 = {}
        BY <1>7, <3>1
      <3>3. Language(s, FALSE, 0, Len(s))
        BY <1>6, <3>1, <3>2 DEF Language
      <3> QED  BY <3>2, <3>3
    <2> QED  BY <2>1, <2>2
  <1> QED  BY <1>7, <1>8, LanguageFact DEF s

-----------------------------------------------------------------------------
(***************************************************************************)
(* The strings that nobody walks over, and those of numbers.               *)
(***************************************************************************)
Sources ==
  /\ how = "string" => source \in Seq(Symbols)
  /\ how = "numbers" => numbers \in Lists /\ source = Printed(numbers)

LEMMA SourcesInit == TextInit => Sources
  <1> SUFFICES ASSUME TextInit PROVE Sources
    OBVIOUS
  <1>1. how = "numbers" => numbers \in Lists /\ source = Printed(numbers)
    BY DEF TextInit
  <1>2. how = "string" => source \in BoundedSeq(Symbols, MaxSymbols)
    BY DEF TextInit
  <1>3. source \in BoundedSeq(Symbols, MaxSymbols) => source \in Seq(Symbols)
    <2> SUFFICES ASSUME source \in BoundedSeq(Symbols, MaxSymbols) PROVE source \in Seq(Symbols)
      OBVIOUS
    <2>1. PICK n \in 0 .. MaxSymbols : source \in [1 .. n -> Symbols]
      BY DEF BoundedSeq, SeqOf
    <2>2. n \in Nat
      OBVIOUS
    <2> QED  BY <2>1, <2>2
  <1> QED  BY <1>1, <1>2, <1>3 DEF Sources

LEMMA SourcesNext == Sources /\ [TextNext]_textVars => Sources'
  <1> SUFFICES ASSUME Sources, [TextNext]_textVars PROVE Sources'
    OBVIOUS
  <1>1. UNCHANGED <<source, how, numbers>>
    BY DEF TextNext, NextItem, NextWord, NextNumber, Take, textVars
  <1> QED  BY <1>1 DEF Sources

\* A number alone is printed as what is_number takes.
LEMMA OneNumber ==
  ASSUME Sources, how = "numbers", Len(numbers) = 1
  PROVE  source \in Seq(Figures \cup {Dash}) /\ is_number(source, FALSE)
  <1>1. numbers \in Lists /\ source = Printed(numbers)
    BY Zenon DEF Sources
  <1>2. PICK text : Texts(text, numbers) /\ Printed(numbers) = text[Len(numbers)]
    BY <1>1, TextsOf
  <1>3. text[1] = TextOf(text, numbers, 1) /\ numbers[1] \in Int
    <2>1. 1 \in 1 .. Len(numbers)
      OBVIOUS
    <2> QED  BY <1>1, <1>2, <2>1, ListsFact DEF Texts
  <1> DEFINE c == convto_string(numbers[1])
  <1>4. c \in Seq(Figures \cup {Dash})
    BY <1>3, NumeralText
  <1>5. source = <<>> \o c
    <2>1. TextOf(text, numbers, 1) = <<>> \o c
      BY Zenon DEF TextOf
    <2> QED  BY <1>1, <1>2, <1>3, <2>1
  <1>6. <<>> \o c = c
    <2> HIDE DEF c, Figures, Dash
    <2> QED  BY <1>4
  <1>7. is_number(c, FALSE)
    BY <1>3, SignedIsNumber
  <1> QED  BY <1>4, <1>5, <1>6, <1>7

LEMMA NumberKeeps == Sources => NumberLanguage
  <1> SUFFICES ASSUME Sources PROVE NumberLanguage
    OBVIOUS
  <1>1. ASSUME how = "string", NEW dots \in BOOLEAN
        PROVE  is_number(source, dots) <=>
                 \E k \in 0 .. Len(source) :
                   /\ \A i \in 1 .. k : IsSign(source[i])
                   /\ \A i \in k + 1 .. Len(source) :
                        IsDigit(source[i]) \/ (dots /\ source[i] \in {".", "+", "e"})
    <2>1. Len(source) \in Nat
      BY <1>1 DEF Sources
    <2>2. is_number(source, dots) <=> \E k \in 0 .. Len(source) : Language(source, dots, k, Len(source))
      BY <2>1, LanguageFact
    <2> QED  BY <2>2, Zenon DEF Language, Counted
  <1> QED  BY <1>1, OneNumber, Zenon DEF NumberLanguage

(***************************************************************************)
(* is_number takes signs in front and what it counts behind them, for      *)
(* every string, and every number that conv_numeric prints.                *)
(***************************************************************************)
THEOREM NumbersAreTold == TextSpec => []NumberLanguage
  <1>1. TextSpec => []Sources
    BY SourcesInit, SourcesNext, PTL DEF TextSpec
  <1> QED  BY <1>1, NumberKeeps, PTL

LEMMA QuoteFact == ~IsSign(Quote) /\ \A dots \in BOOLEAN : ~Counted(Quote, dots)
  <1>1. ~IsSign(Quote)
    BY Zenon DEF IsSign, Quote
  <1>2. Quote \notin {".", "+", "e"}
    BY Zenon DEF Quote
  <1>3. ~IsDigit(Quote)
    <2>1. \A i \in 1 .. 10 : Numeral[i] \in {"0", "1", "2", "3", "4", "5", "6", "7", "8", "9"}
      BY DEF Numeral
    <2>2. Quote \notin {"0", "1", "2", "3", "4", "5", "6", "7", "8", "9"}
      BY Zenon DEF Quote
    <2> QED  BY <2>1, <2>2, Zenon DEF IsDigit
  <1> QED  BY <1>1, <1>2, <1>3, Zenon DEF Counted

LEMMA QuotesUndone ==
  ASSUME Sources, how = "string"
  PROVE  LET quoted == <<Quote>> \o source \o <<Quote>>
         IN  /\ is_correct(quoted) /\ stripe(quoted) = source
             /\ is_positive_number(source) => stripe(source) = source
  <1> DEFINE s == source
             n == Len(s)
             T == Symbols \cup {Quote}
             t == <<Quote>> \o s
             q == t \o <<Quote>>
  <1> HIDE DEF s
  <1>1. s \in Seq(T) /\ n \in Nat
    BY DEF Sources, s
  <1>2. Quote \in T
    OBVIOUS
  <1> HIDE DEF T
  <1>3. t \in Seq(T) /\ Len(t) = n + 1 /\ t[1] = Quote /\ \A i \in 1 .. n : t[i + 1] = s[i]
    BY <1>1, <1>2, Pushed
  <1> HIDE DEF t
  <1>4. q = Append(t, Quote)
    BY <1>2, <1>3
  <1> HIDE DEF q
  <1>5. /\ q \in Seq(T) /\ Len(q) = n + 2 /\ q[n + 2] = Quote /\ q[1] = Quote
        /\ \A i \in 1 .. n : q[i + 1] = s[i]
    <2>1. Len(q) = (n + 1) + 1 /\ q \in Seq(T) /\ q[(n + 1) + 1] = Quote /\ \A i \in 1 .. n + 1 : q[i] = t[i]
      BY <1>1, <1>2, <1>3, <1>4
    <2>2. (n + 1) + 1 = n + 2 /\ 1 \in 1 .. n + 1 /\ \A i \in 1 .. n : i + 1 \in 1 .. n + 1
      BY <1>1
    <2> HIDE DEF n
    <2> QED  BY <1>3, <2>1, <2>2
  <1>6. is_correct(q)
    BY <1>1, <1>5 DEF is_correct, Last
  <1>7. stripe(q) = s
    <2>1. ~is_number(q, TRUE)
      <3> SUFFICES ASSUME NEW k \in 0 .. Len(q), Language(q, TRUE, k, Len(q)) PROVE FALSE
        <4>1. Len(q) \in Nat
          BY <1>1, <1>5
        <4> QED  BY <4>1, LanguageFact
      <3>1. IsSign(q[1]) \/ Counted(q[1], TRUE)
        <4>1. 1 \in 1 .. k \/ 1 \in k + 1 .. Len(q)
          BY <1>1, <1>5
        <4> QED  BY <4>1 DEF Language
      <3> QED  BY <1>5, <3>1, QuoteFact
    <2>2. Len(q) # 1 /\ Len(q) - 1 = n + 1
      BY <1>1, <1>5
    <2>3. stripe(q) = SubSeq(q, 2, n + 1)
      BY <2>1, <2>2 DEF stripe
    <2>4. SubSeq(q, 2, n + 1) = [i \in 1 .. n |-> q[i + 1]]
      <3>1. (n + 1) - 2 + 1 = n
        BY <1>1
      <3> HIDE DEF n
      <3> QED  BY <1>1, <1>5, <3>1
    <2>5. s = [i \in 1 .. n |-> s[i]]
      BY <1>1
    <2> HIDE DEF n
    <2> QED  BY <1>5, <2>3, <2>4, <2>5
  <1>8. is_positive_number(s) => stripe(s) = s
    <2> SUFFICES ASSUME is_positive_number(s) PROVE is_number(s, TRUE)
      BY DEF stripe
    <2>1. \A i \in 1 .. n : Counted(s[i], TRUE)
      BY DEF is_positive_number, Counted
    <2>2. 0 \in 0 .. n /\ 1 .. 0 = {} /\ 0 + 1 .. n = 1 .. n
      BY <1>1
    <2>3. Language(s, TRUE, 0, n)
      BY <2>1, <2>2 DEF Language
    <2> QED  BY <1>1, <2>2, <2>3, LanguageFact
  <1>9. q = <<Quote>> \o source \o <<Quote>>
    BY DEF q, t, s
  <1> QED  BY <1>6, <1>7, <1>8, <1>9, Zenon DEF s

\* What is a number without dots is one with them.
LEMMA DotsAllowMore ==
  ASSUME NEW s, Len(s) \in Nat, is_number(s, FALSE)
  PROVE  is_number(s, TRUE)
  <1>1. PICK k \in 0 .. Len(s) : Language(s, FALSE, k, Len(s))
    BY LanguageFact
  <1>2. Language(s, TRUE, k, Len(s))
    BY <1>1, Zenon DEF Language, Counted
  <1> QED  BY <1>2, LanguageFact

LEMMA StripeKeeps == Sources => StripeUnquotes
  <1> SUFFICES ASSUME Sources PROVE StripeUnquotes
    OBVIOUS
  <1>1. ASSUME how = "numbers", Len(numbers) = 1 PROVE stripe(source) = source
    <2>1. source \in Seq(Figures \cup {Dash}) /\ is_number(source, FALSE)
      BY <1>1, OneNumber
    <2>2. Len(source) \in Nat
      BY <2>1
    <2>3. is_number(source, TRUE)
      BY <2>1, <2>2, DotsAllowMore
    <2> QED  BY <2>3, Zenon DEF stripe
  <1> QED  BY <1>1, QuotesUndone, Zenon DEF StripeUnquotes

(***************************************************************************)
(* stripe undoes the quotes of Methods around any string, and leaves every *)
(* number that conv_numeric prints alone.                                  *)
(***************************************************************************)
THEOREM QuotesComeOff == TextSpec => []StripeUnquotes
  <1>1. TextSpec => []Sources
    BY SourcesInit, SourcesNext, PTL DEF TextSpec
  <1> QED  BY <1>1, StripeKeeps, PTL

-----------------------------------------------------------------------------
(***************************************************************************)
(* Spans: the runs of blanks, digits and bits that a string begins with.   *)
(***************************************************************************)
LEMMA Furthest ==
  ASSUME NEW n \in Nat, NEW T, T \subseteq 0 .. n, 0 \in T
  PROVE  /\ Max(T) \in T /\ Max(T) \in 0 .. n
         /\ n \in T => Max(T) = n
         /\ 1 \notin T /\ (\A m \in T : m > 1 => 1 \in T) => Max(T) = 0
  <1> DEFINE m == Max(T)
  <1>1. \E x \in T : \A y \in T : x >= y
    BY Greatest
  <1>2. m \in T /\ \A y \in T : m >= y
    BY <1>1 DEF Max
  <1> HIDE DEF m
  <1>3. m \in 0 .. n
    BY <1>2
  <1>4. n \in T => m = n
    BY <1>2, <1>3
  <1>5. 1 \notin T /\ (\A k \in T : k > 1 => 1 \in T) => m = 0
    BY <1>2, <1>3
  <1> QED  BY <1>2, <1>3, <1>4, <1>5 DEF m

LEMMA BlanksFact ==
  ASSUME NEW S, NEW s \in Seq(S)
  PROVE  /\ Behind(s, IsBlank) \in Seq(S) /\ Len(Behind(s, IsBlank)) \in 0 .. Len(s)
         /\ (s = <<>> \/ ~IsBlank(s[1])) => Behind(s, IsBlank) = s
  <1> DEFINE n == Len(s)
             T == {k \in 0 .. n : \A i \in 1 .. k : IsBlank(s[i])}
             m == Max(T)
  <1>1. n \in Nat /\ T \subseteq 0 .. n /\ 0 \in T
    OBVIOUS
  <1>2. m \in 0 .. n /\ (1 \notin T /\ (\A k \in T : k > 1 => 1 \in T) => m = 0)
    <2> HIDE DEF T, n
    <2> QED  BY <1>1, Furthest
  <1>3. Behind(s, IsBlank) = SubSeq(s, Len(SubSeq(s, 1, m)) + 1, n)
    BY DEF Behind, Span
  <1>4. (s = <<>> \/ ~IsBlank(s[1])) => m = 0
    <2>1. \A k \in T : k > 1 => 1 \in T
      BY <1>1
    <2>2. CASE s = <<>>
      BY <1>2, <2>2
    <2>3. CASE ~IsBlank(s[1])
      <3>1. 1 \notin T
        BY <2>3
      <3> HIDE DEF T, m
      <3> QED  BY <1>2, <2>1, <3>1
    <2> QED  BY <2>2, <2>3
  <1> HIDE DEF T, m
  <1>5. Len(SubSeq(s, 1, m)) = m
    BY <1>1, <1>2
  <1>6. Behind(s, IsBlank) = SubSeq(s, m + 1, n)
    BY <1>3, <1>5
  <1>7. SubSeq(s, m + 1, n) \in Seq(S) /\ Len(SubSeq(s, m + 1, n)) = n - m
    BY <1>1, <1>2
  <1>8. m = 0 => SubSeq(s, m + 1, n) = s
    BY SubSeqFull
  <1> QED  BY <1>1, <1>2, <1>4, <1>6, <1>7, <1>8

LEMMA AllDigits ==
  ASSUME NEW S, NEW s \in Seq(S), \A i \in 1 .. Len(s) : IsDigit(s[i])
  PROVE  Span(s, IsDigit) = s
  <1> DEFINE n == Len(s)
             T == {k \in 0 .. n : \A i \in 1 .. k : IsDigit(s[i])}
             m == Max(T)
  <1>1. n \in Nat /\ T \subseteq 0 .. n /\ 0 \in T /\ n \in T
    OBVIOUS
  <1>2. m = n
    <2> HIDE DEF T, n
    <2> QED  BY <1>1, Furthest
  <1>3. Span(s, IsDigit) = SubSeq(s, 1, m)
    BY DEF Span
  <1> HIDE DEF m
  <1> QED  BY <1>2, <1>3, SubSeqFull

LEMMA BitRun ==
  ASSUME NEW S, NEW s \in Seq(S)
  PROVE  /\ Span(s, IsBit) \in Seq(S) /\ Len(Span(s, IsBit)) \in 0 .. Len(s)
         /\ (\A i \in 1 .. Len(s) : IsBit(s[i])) => Span(s, IsBit) = s
         /\ (s = <<>> \/ ~IsBit(s[1])) => Span(s, IsBit) = <<>>
  <1> DEFINE n == Len(s)
             T == {k \in 0 .. n : \A i \in 1 .. k : IsBit(s[i])}
             m == Max(T)
  <1>1. n \in Nat /\ T \subseteq 0 .. n /\ 0 \in T
    OBVIOUS
  <1>2. /\ m \in 0 .. n /\ (n \in T => m = n)
        /\ (1 \notin T /\ (\A k \in T : k > 1 => 1 \in T) => m = 0)
    <2> HIDE DEF T, n
    <2> QED  BY <1>1, Furthest
  <1>3. Span(s, IsBit) = SubSeq(s, 1, m)
    BY DEF Span
  <1>4. (s = <<>> \/ ~IsBit(s[1])) => m = 0
    <2>1. \A k \in T : k > 1 => 1 \in T
      BY <1>1
    <2>2. CASE s = <<>>
      BY <1>2, <2>2
    <2>3. CASE ~IsBit(s[1])
      <3>1. 1 \notin T
        BY <2>3
      <3> HIDE DEF T, m
      <3> QED  BY <1>2, <2>1, <3>1
    <2> QED  BY <2>2, <2>3
  <1>5. (\A i \in 1 .. n : IsBit(s[i])) => n \in T
    BY <1>1
  <1> HIDE DEF T, m
  <1>6. SubSeq(s, 1, m) \in Seq(S) /\ Len(SubSeq(s, 1, m)) = m
    BY <1>1, <1>2
  <1>7. m = n => SubSeq(s, 1, m) = s
    BY SubSeqFull
  <1>8. m = 0 => SubSeq(s, 1, m) = <<>>
    BY <1>6
  <1> QED  BY <1>1, <1>2, <1>3, <1>4, <1>5, <1>6, <1>7, <1>8

-----------------------------------------------------------------------------
(***************************************************************************)
(* What convto_string prints, convto_num reads.                            *)
(***************************************************************************)
LEMMA ReadBack ==
  ASSUME NEW n \in Ints
  PROVE  convto_num(Int8, convto_string(n)) = n
  <1> DEFINE s == convto_string(n)
  <1>1. n \in Int /\ n >= Lowest(Int8) /\ n <= Highest(Int8)
    BY DEF Ints
  <1>2. PICK d : Decimal(d, Absolute(n)) /\ conv_numeric(n) = IF n < 0 THEN <<"-">> \o d ELSE d
    BY <1>1, PrintedFact
  <1>3. d \in Seq(Figures) /\ Len(d) >= 1 /\ NumberOf(10, d) = Absolute(n)
    BY <1>2 DEF Decimal
  <1>4. s = IF n < 0 THEN <<Dash>> \o d ELSE d
    BY <1>2, Zenon DEF convto_string, Dash
  <1> HIDE DEF s
  <1> DEFINE F == Figures \cup {Dash}
  <1>5. \A i \in 1 .. Len(d) : d[i] \in Figures /\ IsDigit(d[i])
    <2>1. \A i \in 1 .. Len(d) : d[i] \in Figures
      <3> HIDE DEF Figures
      <3> QED  BY <1>3
    <2> QED  BY <2>1, FiguresFact
  <1>6. Dash \in F /\ d \in Seq(F)
    <2> HIDE DEF Figures
    <2> QED  BY <1>3
  <1> HIDE DEF F
  <1>7. /\ s \in Seq(F) /\ s # <<>>
        /\ n < 0 => Head(s) = Dash /\ Tail(s) = d /\ s[1] = Dash
        /\ ~(n < 0) => Head(s) = d[1] /\ s = d /\ s[1] = d[1]
    <2>1. CASE n < 0
      <3>1. s = <<Dash>> \o d
        BY <1>4, <2>1
      <3>2. /\ s \in Seq(F) /\ Len(s) = Len(d) + 1 /\ s[1] = Dash
            /\ \A i \in 1 .. Len(d) : s[i + 1] = d[i]
        BY <1>6, <3>1, Pushed
      <3>3. Head(s) = Dash /\ s # <<>>
        BY <1>3, <3>2
      <3>4. Tail(s) = d
        <4>1. /\ Tail(s) \in Seq(F) /\ Len(Tail(s)) = Len(s) - 1
              /\ \A i \in 1 .. Len(Tail(s)) : Tail(s)[i] = s[i + 1]
          BY <3>2, <3>3, HeadTailProperties
        <4> DEFINE t == Tail(s)
        <4> HIDE DEF t
        <4>2. t \in Seq(F) /\ Len(t) = Len(d) /\ \A i \in 1 .. Len(d) : t[i] = d[i]
          BY <1>3, <3>2, <4>1 DEF t
        <4>3. t = d
          BY <1>6, <4>2
        <4> QED  BY <4>3 DEF t
      <3> QED  BY <2>1, <3>2, <3>3, <3>4
    <2>2. CASE ~(n < 0)
      <3>1. s = d
        BY <1>4, <2>2
      <3>2. Head(d) = d[1] /\ d # <<>>
        BY <1>3
      <3> QED  BY <1>6, <2>2, <3>1, <3>2
    <2> QED  BY <2>1, <2>2
  <1>8. IsSign(Dash) /\ ~IsBlank(Dash)
    BY MinusFact, Zenon DEF Dash
  <1>9. 1 \in 1 .. Len(d) /\ ~IsSign(d[1]) /\ ~IsBlank(d[1]) /\ d[1] # Dash
    <2>1. 1 \in 1 .. Len(d)
      BY <1>3
    <2>2. IsDigit(d[1])
      BY <1>5, <2>1
    <2> QED  BY <1>8, <2>1, <2>2, Kinds
  <1>10. Behind(s, IsBlank) = s
    <2>1. ~IsBlank(s[1])
      BY <1>7, <1>8, <1>9
    <2> QED  BY <1>7, <2>1, BlanksFact
  <1>11. (IF s # <<>> /\ IsSign(Head(s)) THEN Tail(s) ELSE s) = d
    BY <1>7, <1>8, <1>9
  <1>12. Span(d, IsDigit) = d
    BY <1>3, <1>5, AllDigits
  <1>13. (s # <<>> /\ Head(s) = Dash) <=> n < 0
    BY <1>7, <1>9
  <1>14. (IF s # <<>> /\ Head(s) = Dash THEN -Absolute(n) ELSE Absolute(n)) = n
    <2>1. (IF n < 0 THEN -Absolute(n) ELSE Absolute(n)) = n
      BY <1>1 DEF Absolute
    <2> QED  BY <1>13, <2>1
  <1>15. Int8.signed = TRUE /\ d # <<>>
    BY <1>3 DEF Int8
  <1> DEFINE r == Extract(Int8, s)
  <1>16. r.ok /\ r.value = n
    <2> DEFINE digits == Span(IF s # <<>> /\ IsSign(Head(s)) THEN Tail(s) ELSE s, IsDigit)
               size == NumberOf(10, digits)
               value == IF s # <<>> /\ Head(s) = Dash THEN -size ELSE size
    <2>1. r = [ok    |-> digits # <<>> /\ (IF Int8.signed THEN value >= Lowest(Int8) /\ value <= Highest(Int8)
                                            ELSE size <= Highest(Int8)),
               value |-> IF Int8.signed THEN value ELSE value % 2 ^ Int8.bits]
      BY <1>10, Zenon DEF Extract, Dash
    <2>2. digits = d
      BY <1>11, <1>12, Zenon
    <2> HIDE DEF digits
    <2>3. value = n
      BY <1>3, <1>14, <2>2
    <2> HIDE DEF value, size, r
    <2>4. r.ok = (digits # <<>> /\ (IF Int8.signed THEN value >= Lowest(Int8) /\ value <= Highest(Int8)
                                     ELSE size <= Highest(Int8)))
      BY <2>1
    <2>5. r.value = (IF Int8.signed THEN value ELSE value % 2 ^ Int8.bits)
      BY <2>1
    <2> QED  BY <1>1, <1>15, <2>2, <2>3, <2>4, <2>5
  <1> QED  BY <1>16 DEF convto_num, s

LEMMA NoComma ==
  ASSUME NEW n \in Int, NEW i \in 1 .. Len(convto_string(n))
  PROVE  convto_string(n)[i] # Comma
  <1> DEFINE s == convto_string(n)
             F == Figures \cup {Dash}
  <1>1. s \in Seq(F)
    BY NumeralText
  <1> HIDE DEF s
  <1>2. s[i] \in F
    <2> HIDE DEF F
    <2> QED  BY <1>1 DEF s
  <1>3. \A c \in Figures : c # Comma
    BY FiguresFact, Kinds, Zenon DEF Comma
  <1>4. Dash # Comma
    BY MinusFact, Zenon DEF Dash, Comma
  <1> QED  BY <1>2, <1>3, <1>4 DEF s

\* Where the next number begins when k have been printed.
Place(text, k) == IF k = 0 THEN 0 ELSE Len(text[k]) + 1

LEMMA TextStep ==
  ASSUME NEW ns \in Lists, NEW text, Texts(text, ns), NEW k \in 0 .. Len(ns) - 1
  PROVE  LET c == convto_string(ns[k + 1])
             p == Place(text, k)
             t == text[k + 1]
         IN  /\ t \in Seq(Marks) /\ Len(t) = p + Len(c) /\ p \in Nat /\ Len(c) \in Nat \ {0}
             /\ \A j \in 1 .. Len(c) : t[p + j] = c[j]
             /\ k >= 1 => t[p] = Comma
             /\ Len(text[k]) \in Nat /\ Len(text[k]) <= p
             /\ \A i \in 1 .. Len(text[k]) : t[i] = text[k][i]
  <1> DEFINE c == convto_string(ns[k + 1])
             t == text[k + 1]
             s == text[k]
             h == <<Comma>>
  <1>1. k \in Nat /\ k + 1 \in 1 .. Len(ns) /\ k \in 0 .. Len(ns) /\ k + 1 \in 0 .. Len(ns) /\ (k + 1) - 1 = k
    BY ListsFact
  <1>2. c \in Seq(Figures \cup {Dash}) /\ Len(c) >= 1
    <2>1. ns[k + 1] \in Int
      BY <1>1, ListsFact
    <2> QED  BY <2>1, NumeralText
  <1> HIDE DEF c
  <1>3. c \in Seq(Marks) /\ Len(c) \in Nat \ {0}
    <2> HIDE DEF Figures, Dash, Comma
    <2> QED  BY <1>2 DEF Marks
  <1>4. s \in Seq(Marks) /\ t \in Seq(Marks)
    BY <1>1 DEF Texts
  <1>5. t = (IF k + 1 = 1 THEN <<>> ELSE text[(k + 1) - 1] \o h) \o c
    BY <1>1 DEF Texts, TextOf, c
  <1>6. Comma \in Marks
    BY DEF Marks
  <1> HIDE DEF t, s, Marks, Comma
  <1>7. CASE k = 0
    <2>1. t = <<>> \o c
      BY <1>5, <1>7
    <2>2. t = c
      BY <1>3, <2>1
    <2>3. Place(text, k) = 0 /\ s = <<>>
      BY <1>7 DEF Place, Texts, s
    <2>4. Len(s) = 0
      BY <2>3
    <2>5. \A j \in 1 .. Len(c) : 0 + j = j
      OBVIOUS
    <2> QED  BY <1>3, <1>4, <1>7, <2>2, <2>3, <2>4, <2>5 DEF t, s, c
  <1>8. CASE k # 0
    <2> DEFINE u == Append(s, Comma)
               n == Len(s)
               m == Len(c)
    <2>1. Place(text, k) = n + 1
      BY <1>8 DEF Place, s
    <2>2. t = (s \o h) \o c
      <3>1. k + 1 # 1
        BY <1>1, <1>8
      <3> QED  BY <1>1, <1>5, <3>1 DEF s
    <2>3. s \o h = u
      BY <1>4, <1>6
    <2>4. u \in Seq(Marks) /\ Len(u) = n + 1 /\ u[n + 1] = Comma /\ \A i \in 1 .. n : u[i] = s[i]
      BY <1>4, <1>6
    <2>5. n \in Nat /\ m \in Nat \ {0}
      BY <1>3, <1>4
    <2> HIDE DEF u, n, m
    <2>6. t = u \o c
      BY <2>2, <2>3
    <2>7. /\ Len(t) = (n + 1) + m
          /\ \A i \in 1 .. (n + 1) + m : t[i] = IF i <= n + 1 THEN u[i] ELSE c[i - (n + 1)]
      <3>1. /\ Len(u \o c) = Len(u) + Len(c)
            /\ \A i \in 1 .. Len(u) + Len(c) : (u \o c)[i] = IF i <= Len(u) THEN u[i] ELSE c[i - Len(u)]
        <4> HIDE DEF m
        <4> QED  BY <1>3, <2>4, ConcatProperties
      <3>2. Len(u) = n + 1 /\ Len(c) = m
        BY <2>4 DEF m
      <3> QED  BY <2>6, <3>1, <3>2
    <2>8. ASSUME NEW j \in 1 .. m PROVE t[(n + 1) + j] = c[j]
      <3>1. (n + 1) + j \in 1 .. (n + 1) + m /\ ~((n + 1) + j <= n + 1) /\ ((n + 1) + j) - (n + 1) = j
        BY <2>5
      <3> QED  BY <2>7, <3>1
    <2>9. t[n + 1] = Comma /\ \A i \in 1 .. n : t[i] = s[i]
      <3>1. n + 1 \in 1 .. (n + 1) + m /\ \A i \in 1 .. n : i \in 1 .. (n + 1) + m /\ i <= n + 1
        BY <2>5
      <3> QED  BY <2>4, <2>7, <3>1
    <2>10. n + 1 \in Nat /\ n <= n + 1
      BY <2>5
    <2> QED  BY <1>4, <2>1, <2>5, <2>7, <2>8, <2>9, <2>10 DEF t, s, c, n, m
  <1> QED  BY <1>7, <1>8

\* What was printed first stands in front of all that is printed later.
Fronts(x, y) == Len(x) \in Nat /\ Len(y) \in Nat /\ Len(x) <= Len(y) /\ \A i \in 1 .. Len(x) : y[i] = x[i]

LEMMA TextFront ==
  ASSUME NEW ns \in Lists, NEW text, Texts(text, ns), NEW k \in 0 .. Len(ns)
  PROVE  Fronts(text[k], text[Len(ns)])
  <1> DEFINE N == Len(ns)
             D == {d \in Nat : d <= N - k => Fronts(text[k], text[k + d])}
  <1>1. N \in Nat /\ k \in Nat /\ N - k \in Nat /\ k + (N - k) = N
    BY ListsFact
  <1>2. 0 \in D
    <2>1. text[k] \in Seq(Marks) /\ k + 0 = k
      BY <1>1 DEF Texts
    <2> HIDE DEF Marks
    <2>2. Fronts(text[k], text[k])
      BY <2>1 DEF Fronts
    <2> QED  BY <2>1, <2>2
  <1>3. ASSUME NEW d \in 1 .. N - k, d - 1 \in D PROVE d \in D
    <2> DEFINE m == k + (d - 1)
               x == text[k]
               y == text[m]
               z == text[m + 1]
    <2>1. m \in 0 .. N - 1 /\ d \in Nat /\ d - 1 <= N - k /\ m + 1 = k + d
      BY <1>1
    <2>2. Fronts(x, y)
      BY <1>3, <2>1
    <2> HIDE DEF m
    <2>3. /\ Len(y) \in Nat /\ Len(z) \in Nat /\ Len(y) <= Len(z)
          /\ \A i \in 1 .. Len(y) : z[i] = y[i]
      <3> DEFINE c == convto_string(ns[m + 1])
                 p == Place(text, m)
      <3>1. /\ Len(z) = p + Len(c) /\ p \in Nat /\ Len(c) \in Nat \ {0}
            /\ Len(y) \in Nat /\ Len(y) <= p
            /\ \A i \in 1 .. Len(y) : z[i] = y[i]
        BY <2>1, TextStep
      <3> HIDE DEF c, p, y, z
      <3> QED  BY <3>1
    <2>4. Fronts(x, z)
      <3> HIDE DEF x, y, z
      <3> QED  BY <2>2, <2>3 DEF Fronts
    <2> QED  BY <2>1, <2>4
  <1>4. N - k \in D
    <2>1. 0 .. N - k \subseteq D
      <3> HIDE DEF D, N
      <3> QED  BY <1>1, <1>2, <1>3, BoundedInduction
    <2> HIDE DEF D, N
    <2> QED  BY <1>1, <2>1
  <1> QED  BY <1>1, <1>4

\* The number behind k others: from p to e, and then a comma or the end.
LEMMA NumberAt ==
  ASSUME NEW ns \in Lists, NEW text, Texts(text, ns), NEW k \in 0 .. Len(ns) - 1
  PROVE  LET c == convto_string(ns[k + 1])
             p == Place(text, k)
             e == Place(text, k + 1) - 1
             s == text[Len(ns)]
         IN  /\ p \in Nat /\ e \in Nat /\ e <= Len(s) /\ e = p + Len(c) /\ Len(c) \in Nat \ {0}
             /\ \A j \in 1 .. Len(c) : s[p + j] = c[j] /\ c[j] # Comma
             /\ (e = Len(s) \/ s[e + 1] = Comma)
             /\ k + 1 = Len(ns) => e = Len(s)
  <1> DEFINE N == Len(ns)
             c == convto_string(ns[k + 1])
             p == Place(text, k)
             t == text[k + 1]
             s == text[N]
             e == Len(t)
  <1>1. N \in Nat /\ k \in Nat /\ k + 1 \in 1 .. N /\ k + 1 \in 0 .. N /\ ns[k + 1] \in Int
    <2>1. N \in Nat /\ k \in Nat /\ k + 1 \in 1 .. N /\ k + 1 \in 0 .. N
      BY ListsFact
    <2> QED  BY <2>1, ListsFact
  <1>2. e \in Nat /\ Place(text, k + 1) = e + 1
    <2>1. t \in Seq(Marks)
      BY <1>1 DEF Texts
    <2>2. k + 1 # 0
      BY <1>1
    <2> HIDE DEF Marks
    <2> QED  BY <2>1, <2>2 DEF Place
  <1>3. /\ e = p + Len(c) /\ p \in Nat /\ Len(c) \in Nat \ {0}
        /\ \A j \in 1 .. Len(c) : t[p + j] = c[j]
    BY TextStep
  <1>4. e <= Len(s) /\ Len(s) \in Nat /\ \A i \in 1 .. e : s[i] = t[i]
    BY <1>1, TextFront DEF Fronts
  <1>5. \A j \in 1 .. Len(c) : c[j] # Comma
    BY <1>1, NoComma
  <1>6. e = Len(s) \/ s[e + 1] = Comma
    <2>1. CASE k + 1 = N
      BY <2>1
    <2>2. CASE k + 1 # N
      <3> DEFINE u == text[(k + 1) + 1]
      <3>1. k + 1 \in 0 .. N - 1 /\ k + 1 >= 1 /\ (k + 1) + 1 \in 0 .. N
        BY <1>1, <2>2
      <3>2. /\ u[Place(text, k + 1)] = Comma
            /\ Len(u) = Place(text, k + 1) + Len(convto_string(ns[(k + 1) + 1]))
            /\ Len(convto_string(ns[(k + 1) + 1])) \in Nat
        <4> DEFINE m == k + 1
        <4>1. m \in 0 .. Len(ns) - 1 /\ m >= 1
          BY <3>1
        <4> HIDE DEF m
        <4>2. /\ text[m + 1][Place(text, m)] = Comma
              /\ Len(text[m + 1]) = Place(text, m) + Len(convto_string(ns[m + 1]))
              /\ Len(convto_string(ns[m + 1])) \in Nat
          BY <4>1, TextStep
        <4> QED  BY <4>2 DEF m
      <3>3. \A i \in 1 .. Len(u) : s[i] = u[i]
        BY <3>1, TextFront DEF Fronts
      <3> DEFINE w == Len(convto_string(ns[(k + 1) + 1]))
                 x == Len(u)
      <3>4. x = (e + 1) + w /\ w \in Nat
        BY <1>2, <3>2
      <3> HIDE DEF w, x, e, u
      <3>5. e + 1 \in 1 .. x
        BY <1>2, <3>4
      <3> QED  BY <1>2, <3>2, <3>3, <3>5 DEF x
    <2> QED  BY <2>1, <2>2
  <1>7. \A j \in 1 .. Len(c) : s[p + j] = c[j]
    <2> HIDE DEF c, p, e, s, t
    <2>1. \A j \in 1 .. Len(c) : p + j \in 1 .. e
      BY <1>3
    <2> QED  BY <1>3, <1>4, <2>1
  <1>8. (e + 1) - 1 = e
    BY <1>2
  <1>9. k + 1 = N => e = Len(s)
    OBVIOUS
  <1> QED  BY <1>2, <1>3, <1>4, <1>5, <1>6, <1>7, <1>8, <1>9

-----------------------------------------------------------------------------
(***************************************************************************)
(* The numbers of a list come back one after the other: k of them are in   *)
(* out, and the stream stands in front of the next.                        *)
(***************************************************************************)
At(text, k) ==
  /\ Texts(text, numbers) /\ source = text[Len(numbers)]
  /\ k \in 0 .. Len(numbers) /\ out = SubSeq(numbers, 1, k)
  /\ IF done THEN k = Len(numbers) ELSE Streams(stream, source, Comma, FALSE, Place(text, k))

Counting == how = "numbers" => numbers \in Lists /\ \E text : \E k : At(text, k)

LEMMA CountingInit == TextInit => Counting
  <1> SUFFICES ASSUME TextInit, how = "numbers" PROVE Counting
    BY DEF Counting
  <1>1. /\ numbers \in Lists /\ source = Printed(numbers)
        /\ stream = comma_node_stream(source, FALSE) /\ out = <<>> /\ ~done
    BY DEF TextInit
  <1>2. PICK text : Texts(text, numbers) /\ Printed(numbers) = text[Len(numbers)]
    BY <1>1, TextsOf
  <1> DEFINE z == 0
  <1>3. z \in 0 .. Len(numbers) /\ Place(text, z) = z /\ SubSeq(numbers, 1, z) = <<>>
    <2>1. numbers \in Seq(Int) /\ Len(numbers) \in Nat
      BY <1>1, ListsFact
    <2> QED  BY <2>1 DEF Place
  <1>4. Streams(stream, source, Comma, FALSE, z)
    BY <1>1, Zenon DEF Streams, comma_node_stream, node_stream, Comma
  <1> HIDE DEF z
  <1>5. At(text, z)
    BY <1>1, <1>2, <1>3, <1>4, Zenon DEF At
  <1> QED  BY <1>1, <1>5, Zenon DEF Counting

\* What one call finds in a stream without empty items.
Found(r, s, c, p) ==
  \/ p > Len(s) /\ ~r.ok
  \/ p <= Len(s) /\ ~r.ok /\ \A q \in p .. Len(s) - 1 : s[q + 1] = c
  \/ \E b \in p .. Len(s), e \in p .. Len(s) :
       /\ Takes(r, s, c, FALSE, b, e)
       /\ b < e /\ \A q \in p .. b - 1 : s[q + 1] = c

LEMMA ExtractItem ==
  ASSUME NEW S, NEW s, s \in Seq(S), Len(s) < npos, NEW c, NEW p, p \in 0 .. Len(s) + 1,
         NEW st, Streams(st, s, c, FALSE, p)
  PROVE  Found(items_extract(st), s, c, p)
  <1> DEFINE ae == FALSE
             r == items_extract(st)
  <1>1. ae \in BOOLEAN /\ ~ae /\ Streams(st, s, c, ae, p)
    OBVIOUS
  <1> HIDE DEF ae
  <1>2. \/ p > Len(s) /\ ~r.ok /\ r.stream = st
        \/ p <= Len(s) /\ ~ae /\ ~r.ok /\ Streams(r.stream, s, c, ae, Len(s) + 1)
           /\ \A q \in p .. Len(s) - 1 : s[q + 1] = c
        \/ \E b \in p .. Len(s), e \in p .. Len(s) :
             /\ Takes(r, s, c, ae, b, e)
             /\ ae => b = p
             /\ ~ae => b < e /\ \A q \in p .. b - 1 : s[q + 1] = c
    BY <1>1, ExtractAt
  <1> HIDE DEF r
  <1> SUFFICES Found(r, s, c, p)
    BY DEF r
  <1>3. CASE p > Len(s) /\ ~r.ok /\ r.stream = st
    BY <1>3, Zenon DEF Found
  <1>4. CASE p <= Len(s) /\ ~ae /\ ~r.ok /\ Streams(r.stream, s, c, ae, Len(s) + 1)
             /\ \A q \in p .. Len(s) - 1 : s[q + 1] = c
    BY <1>4, Zenon DEF Found
  <1>5. CASE \E b \in p .. Len(s), e \in p .. Len(s) :
             /\ Takes(r, s, c, ae, b, e)
             /\ ae => b = p
             /\ ~ae => b < e /\ \A q \in p .. b - 1 : s[q + 1] = c
    BY <1>1, <1>5, Zenon DEF ae, Found
  <1> QED  BY <1>2, <1>3, <1>4, <1>5, Zenon

\* One call in front of a number takes it, and at the end nothing.
LEMMA NumberTaken ==
  ASSUME NEW ns \in Lists, NEW text, Texts(text, ns), NEW k \in 0 .. Len(ns),
         NEW s, s = text[Len(ns)], NEW st, Streams(st, s, Comma, FALSE, Place(text, k)),
         NEW r, r = items_extract(st)
  PROVE  /\ k = Len(ns) => ~r.ok
         /\ k < Len(ns) => /\ r.ok /\ r.token = convto_string(ns[k + 1])
                           /\ Streams(r.stream, s, Comma, FALSE, Place(text, k + 1))
  <1> DEFINE N == Len(ns)
             L == Len(s)
             p == Place(text, k)
  <1>1. N \in Nat /\ k \in Nat /\ k <= N
    BY ListsFact
  <1>2. s \in Seq(Marks) /\ L \in Nat /\ L < npos
    <2>1. PICK other : Texts(other, ns) /\ Printed(ns) = other[N]
      BY TextsOf
    <2>2. N \in 0 .. N
      BY <1>1
    <2>3. s \in Seq(Marks)
      BY <2>2 DEF Texts
    <2> DEFINE E == {m \in Nat : text[m] = other[m]}
    <2>4. 0 .. N \subseteq E
      <3>1. 0 \in E
        BY <2>1 DEF Texts
      <3>2. ASSUME NEW m \in 1 .. N, m - 1 \in E PROVE m \in E
        <4>1. text[m - 1] = other[m - 1]
          BY <3>2
        <4>2. text[m] = TextOf(text, ns, m) /\ other[m] = TextOf(other, ns, m)
          BY <2>1 DEF Texts
        <4>3. TextOf(text, ns, m) = TextOf(other, ns, m)
          BY <4>1, Zenon DEF TextOf
        <4>4. m \in Nat /\ text[m] = other[m]
          BY <4>2, <4>3
        <4> QED  BY <4>4
      <3> HIDE DEF E, N
      <3> QED  BY <1>1, <3>1, <3>2, BoundedInduction
    <2>5. s = Printed(ns)
      <3>1. N \in E
        <4> HIDE DEF E, N
        <4> QED  BY <2>2, <2>4
      <3> QED  BY <2>1, <3>1
    <2>6. Len(Printed(ns)) < npos
      BY TextAssumption
    <2> HIDE DEF Marks
    <2> QED  BY <2>3, <2>5, <2>6
  <1>3. p \in 0 .. L + 1 /\ (k = N => p = IF N = 0 THEN 0 ELSE L + 1)
    <2>1. CASE k = N
      <3>1. N = 0 => p = 0
        BY <2>1 DEF Place
      <3>2. N # 0 => p = L + 1
        BY <2>1 DEF Place
      <3> HIDE DEF L, p, N
      <3> QED  BY <1>2, <2>1, <3>1, <3>2
    <2>2. CASE k # N
      <3>1. k \in 0 .. N - 1
        BY <1>1, <2>2
      <3> DEFINE c == convto_string(ns[k + 1])
                 e == Place(text, k + 1) - 1
      <3>2. p \in Nat /\ e \in Nat /\ e <= L /\ e = p + Len(c) /\ Len(c) \in Nat \ {0}
        BY <3>1, NumberAt
      <3> HIDE DEF L, p, N, c, e
      <3> QED  BY <1>2, <2>2, <3>2
    <2> QED  BY <2>1, <2>2
  <1>4. \/ p > L /\ ~r.ok
        \/ p <= L /\ ~r.ok /\ \A q \in p .. L - 1 : s[q + 1] = Comma
        \/ \E b \in p .. L, e \in p .. L :
             /\ Takes(r, s, Comma, FALSE, b, e)
             /\ b < e /\ \A q \in p .. b - 1 : s[q + 1] = Comma
    <2> DEFINE c == Comma
    <2>1. s \in Seq(Marks) /\ Len(s) < npos /\ p \in 0 .. Len(s) + 1 /\ Streams(st, s, c, FALSE, p)
      BY <1>2, <1>3
    <2> HIDE DEF c, p, Marks, L
    <2>2. s \in Seq(Marks)
      BY <2>1
    <2>3. Len(s) < npos /\ p \in 0 .. Len(s) + 1
      BY <2>1
    <2>4. Found(r, s, c, p)
      <3> DEFINE M == Marks
      <3>1. s \in Seq(M) /\ Streams(st, s, c, FALSE, p)
        BY <2>1
      <3> HIDE DEF M
      <3>2. Found(items_extract(st), s, c, p)
        BY <2>3, <3>1, ExtractItem, Zenon
      <3> QED  BY <3>2
    <2> QED  BY <2>4, Zenon DEF Found, c, L
  <1>5. ASSUME k = N PROVE ~r.ok
    <2>1. CASE N = 0
      <3>1. p = 0 /\ L = 0
        <4>1. s = <<>>
          BY <2>1 DEF Texts
        <4>2. p = 0
          BY <1>3, <1>5, <2>1
        <4> QED  BY <4>1, <4>2
      <3> HIDE DEF p, L
      <3> QED  BY <1>4, <3>1
    <2>2. CASE N # 0
      <3>1. p = L + 1
        BY <1>3, <1>5, <2>2
      <3> HIDE DEF p, L
      <3>2. ~(p <= L)
        BY <1>2, <3>1
      <3>3. p .. L = {}
        BY <1>2, <3>1
      <3> QED  BY <1>4, <3>2, <3>3, Zenon
    <2> QED  BY <2>1, <2>2
  <1>6. ASSUME k < N
        PROVE  /\ r.ok /\ r.token = convto_string(ns[k + 1])
               /\ Streams(r.stream, s, Comma, FALSE, Place(text, k + 1))
    <2> DEFINE c == convto_string(ns[k + 1])
               e0 == Place(text, k + 1) - 1
    <2>1. k \in 0 .. N - 1
      BY <1>1, <1>6
    <2>2. /\ p \in Nat /\ e0 \in Nat /\ e0 <= L /\ e0 = p + Len(c) /\ Len(c) \in Nat \ {0}
          /\ \A j \in 1 .. Len(c) : s[p + j] = c[j] /\ c[j] # Comma
          /\ (e0 = L \/ s[e0 + 1] = Comma)
      <3> DEFINE u == text[Len(ns)]
      <3>1. /\ p \in Nat /\ e0 \in Nat /\ e0 <= Len(u) /\ e0 = p + Len(c) /\ Len(c) \in Nat \ {0}
            /\ \A j \in 1 .. Len(c) : u[p + j] = c[j] /\ c[j] # Comma
            /\ (e0 = Len(u) \/ u[e0 + 1] = Comma)
        BY <2>1, NumberAt
      <3> HIDE DEF u, p, e0, c
      <3>2. s = u
        BY DEF u
      <3> QED  BY <3>1, <3>2, Zenon
    <2> DEFINE w == Len(c)
    <2> HIDE DEF c, w
    <2>3. /\ e0 = p + w /\ w \in Nat \ {0}
          /\ \A j \in 1 .. w : s[p + j] = c[j] /\ s[p + j] # Comma
      BY <2>2 DEF w
    <2> HIDE DEF e0, p, L
    <2>4. p < e0 /\ p < L /\ s[p + 1] # Comma
      <3>1. p < e0 /\ p < L
        BY <1>2, <2>2, <2>3
      <3>2. 1 \in 1 .. w
        BY <2>3
      <3> QED  BY <2>3, <3>1, <3>2
    <2>5. ~(\A q \in p .. L - 1 : s[q + 1] = Comma)
      <3>1. p \in p .. L - 1
        BY <1>2, <2>2, <2>4
      <3> QED  BY <2>4, <3>1
    <2>6. PICK b \in p .. L, e \in p .. L :
             /\ Takes(r, s, Comma, FALSE, b, e)
             /\ b < e /\ \A q \in p .. b - 1 : s[q + 1] = Comma
      <3>1. ~(p > L)
        BY <1>2, <2>2, <2>4
      <3> QED  BY <1>4, <2>5, <3>1, Zenon
    <2>7. b = p
      <3> SUFFICES ASSUME b > p PROVE FALSE
        BY <1>2, <2>2, <2>6
      <3>1. p \in p .. b - 1
        BY <1>2, <2>2, <2>6
      <3> QED  BY <2>4, <2>6, <3>1
    <2>8. /\ e \in b .. L /\ (e = L \/ s[e + 1] = Comma) /\ \A q \in b .. e - 1 : s[q + 1] # Comma
          /\ r.ok /\ r.token = SubSeq(s, b + 1, e) /\ Streams(r.stream, s, Comma, FALSE, e + 1)
      BY <2>6 DEF Takes, L
    <2>9. e = e0
      <3>1. ~(e < e0)
        <4> SUFFICES ASSUME e < e0 PROVE FALSE
          OBVIOUS
        <4>1. s[e + 1] = Comma
          BY <1>2, <2>2, <2>8
        <4>2. (e - p) + 1 \in 1 .. w /\ p + ((e - p) + 1) = e + 1
          BY <1>2, <2>2, <2>3, <2>7, <2>8
        <4>3. s[p + ((e - p) + 1)] # Comma
          BY <2>3, <4>2
        <4> QED  BY <4>1, <4>2, <4>3
      <3>2. ~(e0 < e)
        <4> SUFFICES ASSUME e0 < e PROVE FALSE
          OBVIOUS
        <4>1. s[e0 + 1] = Comma
          BY <1>2, <2>2, <2>8
        <4>2. e0 \in b .. e - 1
          BY <1>2, <2>2, <2>4, <2>7, <2>8
        <4> QED  BY <2>8, <4>1, <4>2
      <3>3. e \in Int /\ e0 \in Int
        BY <1>2, <2>2, <2>8
      <3> QED  BY <3>1, <3>2, <3>3
    <2>10. SubSeq(s, p + 1, e0) = c
      <3>1. c \in Seq(Marks)
        <4>1. ns[k + 1] \in Int
          <5>1. k + 1 \in 1 .. N
            BY <1>1, <1>6
          <5> QED  BY <5>1, ListsFact
        <4>2. c \in Seq(Figures \cup {Dash})
          BY <4>1, NumeralText DEF c
        <4> HIDE DEF Figures, Dash, Comma
        <4> QED  BY <4>2 DEF Marks
      <3> HIDE DEF Marks, Comma
      <3>2. SubSeq(s, p + 1, e0) \in Seq(Marks) /\ Len(SubSeq(s, p + 1, e0)) = w
            /\ \A j \in 1 .. w : SubSeq(s, p + 1, e0)[j] = s[p + j]
        BY <1>2, <2>2, <2>3, SubFact DEF L
      <3>3. Len(c) = w
        BY DEF w
      <3> DEFINE u == SubSeq(s, p + 1, e0)
      <3> HIDE DEF u
      <3>4. u \in Seq(Marks) /\ Len(u) = Len(c) /\ \A j \in 1 .. Len(u) : u[j] = c[j]
        BY <2>3, <3>2, <3>3 DEF u
      <3>5. u = c
        BY <3>1, <3>4
      <3> QED  BY <3>5 DEF u
    <2>11. Place(text, k + 1) = e0 + 1
      <3>1. Place(text, k + 1) - 1 \in Nat
        BY <2>2 DEF e0
      <3>2. Place(text, k + 1) \in Int
        <4>1. k + 1 # 0 /\ k + 1 \in 0 .. N
          BY <1>1, <1>6
        <4>2. text[k + 1] \in Seq(Marks)
          BY <4>1 DEF Texts
        <4> HIDE DEF Marks
        <4> QED  BY <4>1, <4>2 DEF Place
      <3> QED  BY <3>1, <3>2 DEF e0
    <2>12. r.ok /\ r.token = c /\ Streams(r.stream, s, Comma, FALSE, Place(text, k + 1))
      BY <2>7, <2>8, <2>9, <2>10, <2>11, Zenon
    <2> QED  BY <2>12, Zenon DEF c
  <1>7. k = N => ~(k < N)
    BY <1>1
  <1> QED  BY <1>5, <1>6, <1>7, Zenon

LEMMA Prefixed ==
  ASSUME NEW S, NEW s \in Seq(S), NEW k \in 0 .. Len(s) - 1
  PROVE  Append(SubSeq(s, 1, k), s[k + 1]) = SubSeq(s, 1, k + 1)
  <1> DEFINE z == 0
             x == SubSeq(s, 1, k)
             y == SubSeq(s, 1, k + 1)
             a == Append(x, s[k + 1])
  <1>1. k \in Nat /\ k + 1 \in 1 .. Len(s) /\ s[k + 1] \in S /\ Len(s) \in Nat
    OBVIOUS
  <1>2. x \in Seq(S) /\ Len(x) = k /\ \A j \in 1 .. k : x[j] = s[j]
    <2>1. k \in z .. Len(s) /\ z \in 0 .. Len(s) /\ z + 1 = 1 /\ k - z = k
      BY <1>1
    <2>2. \A j \in 1 .. k : z + j = j
      BY <1>1
    <2> HIDE DEF z
    <2> QED  BY <2>1, <2>2, SubFact
  <1>3. y \in Seq(S) /\ Len(y) = k + 1 /\ \A j \in 1 .. k + 1 : y[j] = s[j]
    <2> DEFINE m == k + 1
    <2>1. m \in z .. Len(s) /\ z \in 0 .. Len(s) /\ z + 1 = 1 /\ m - z = m
      BY <1>1
    <2>2. \A j \in 1 .. m : z + j = j
      BY <1>1
    <2> HIDE DEF z, m
    <2>3. SubSeq(s, 1, m) \in Seq(S) /\ Len(SubSeq(s, 1, m)) = m
          /\ \A j \in 1 .. m : SubSeq(s, 1, m)[j] = s[j]
      BY <2>1, <2>2, SubFact
    <2> QED  BY <2>3 DEF m
  <1> HIDE DEF x, y
  <1>4. a \in Seq(S) /\ Len(a) = k + 1 /\ \A j \in 1 .. k + 1 : a[j] = IF j = k + 1 THEN s[k + 1] ELSE x[j]
    BY <1>1, <1>2
  <1>5. \A j \in 1 .. k + 1 : a[j] = y[j]
    <2>1. \A j \in 1 .. k + 1 : j # k + 1 => j \in 1 .. k
      BY <1>1
    <2> QED  BY <1>2, <1>3, <1>4, <2>1
  <1> HIDE DEF a
  <1>6. a = y
    BY <1>3, <1>4, <1>5
  <1> QED  BY <1>6 DEF a, x, y

LEMMA CountingNext == Counting /\ [TextNext]_textVars => Counting'
  <1> SUFFICES ASSUME Counting, [TextNext]_textVars, how' = "numbers" PROVE Counting'
    BY DEF Counting
  <1>1. how' = how /\ numbers' = numbers /\ source' = source
    BY DEF TextNext, NextItem, NextWord, NextNumber, Take, textVars
  <1>2. how = "numbers"
    BY <1>1
  <1>3. numbers \in Lists
    BY <1>2 DEF Counting
  <1>4. PICK text, k : At(text, k)
    BY <1>2, Zenon DEF Counting
  <1>5. /\ Texts(text, numbers) /\ source = text[Len(numbers)]
        /\ k \in 0 .. Len(numbers) /\ out = SubSeq(numbers, 1, k)
        /\ IF done THEN k = Len(numbers) ELSE Streams(stream, source, Comma, FALSE, Place(text, k))
    BY <1>4, Zenon DEF At
  <1>6. CASE UNCHANGED textVars
    <2>1. done' = done /\ stream' = stream /\ out' = out
      BY <1>6 DEF textVars
    <2>2. At(text, k)'
      BY <1>1, <1>5, <2>1, Zenon DEF At
    <2> QED  BY <1>1, <1>3, <2>2, Zenon DEF Counting
  <1>7. CASE TextNext
    <2> DEFINE r == items_extract(stream)
               g == GetNumericToken(Int8, stream)
               v == convto_num(Int8, r.token)
    <2>1. Take(g)
      BY <1>2, <1>7 DEF TextNext, NextItem, NextWord, NextNumber
    <2>2. g = [ok |-> r.ok, token |-> IF r.ok THEN v ELSE 0, stream |-> r.stream]
      BY Zenon DEF GetNumericToken
    <2>3. /\ k = Len(numbers) => ~r.ok
          /\ k < Len(numbers) => /\ r.ok /\ r.token = convto_string(numbers[k + 1])
                                 /\ Streams(r.stream, source, Comma, FALSE, Place(text, k + 1))
      <3>1. ~done
        BY <2>1 DEF Take
      <3>2. Streams(stream, source, Comma, FALSE, Place(text, k))
        BY <1>5, <3>1, Zenon
      <3>3. k \in 0 .. Len(numbers) /\ source = text[Len(numbers)] /\ Texts(text, numbers)
        BY <1>5
      <3> QED  BY <1>3, <3>2, <3>3, NumberTaken, Zenon
    <2> HIDE DEF g, r, v
    <2>4. g.ok = r.ok /\ g.stream = r.stream /\ g.token = IF r.ok THEN v ELSE 0
      BY <2>2
    <2>5. stream' = g.stream /\ done' = ~g.ok /\ out' = IF g.ok THEN Append(out, g.token) ELSE out
      BY <2>1 DEF Take
    <2>6. Len(numbers) \in Nat /\ numbers \in Seq(Int)
      BY <1>3, ListsFact
    <2>7. CASE k = Len(numbers)
      <3>1. done' = TRUE /\ out' = out
        BY <2>3, <2>4, <2>5, <2>7
      <3>2. At(text, k)'
        <4>1. k = Len(numbers')
          BY <1>1, <2>7
        <4> QED  BY <1>1, <1>5, <3>1, <4>1, Zenon DEF At
      <3> QED  BY <1>1, <1>3, <3>2, Zenon DEF Counting
    <2>8. CASE k # Len(numbers)
      <3> DEFINE m == k + 1
      <3>1. k < Len(numbers) /\ k \in 0 .. Len(numbers) - 1 /\ m \in 0 .. Len(numbers) /\ m \in 1 .. Len(numbers)
        BY <1>5, <2>6, <2>8
      <3>2. r.ok /\ r.token = convto_string(numbers[m]) /\ Streams(r.stream, source, Comma, FALSE, Place(text, m))
        BY <2>3, <3>1, Zenon
      <3>3. v = numbers[m]
        <4>1. numbers[m] \in Ints
          BY <1>3, <3>1, ListsFact
        <4> QED  BY <3>2, <4>1, ReadBack, Zenon DEF v
      <3>4. done' = FALSE /\ out' = Append(out, numbers[m]) /\ stream' = r.stream
        BY <2>4, <2>5, <3>2, <3>3
      <3>5. out' = SubSeq(numbers, 1, m)
        BY <1>5, <2>6, <3>1, <3>4, Prefixed
      <3> HIDE DEF m
      <3>6. At(text, m)'
        <4>1. ~done'
          BY <3>4
        <4> QED  BY <1>1, <1>5, <3>1, <3>2, <3>4, <3>5, <4>1, Zenon DEF At
      <3> QED  BY <1>1, <1>3, <3>6, Zenon DEF Counting
    <2> QED  BY <2>7, <2>8
  <1> QED  BY <1>6, <1>7

-----------------------------------------------------------------------------
(***************************************************************************)
(* Bytes of three bits: what to_bin writes, to_string reads.               *)
(***************************************************************************)
Bin   == {"0", "1"}
Octal == 0 .. 7

LEMMA BinFact ==
  /\ "0" # "1" /\ ValueOf("0") = 0 /\ ValueOf("1") = 1
  /\ \A c \in Bin : IsBit(c) /\ ~IsBlank(c)
  /\ ~IsBit("x") /\ ~IsBlank("x")
  <1>1. ValueOf("0") = 0 /\ ValueOf("1") = 1
    <2>1. Numeral[0 + 1] = "0" /\ Numeral[1 + 1] = "1" /\ 0 \in 0 .. 9 /\ 1 \in 0 .. 9
      BY DEF Numeral
    <2> QED  BY <2>1, NumeralFact
  <1>2. \A c \in Bin : IsBit(c) /\ ~IsBlank(c)
    BY Zenon DEF Bin, IsBit, IsBlank, CR, LF
  <1>3. ~IsBit("x") /\ ~IsBlank("x")
    BY Zenon DEF IsBit, IsBlank, CR, LF
  <1> QED  BY <1>1, <1>2, <1>3

LEMMA BitsFact ==
  ASSUME NEW b \in Octal
  PROVE  /\ BitsOf(3, b) \in Seq(Bin) /\ Len(BitsOf(3, b)) = 3
         /\ ByteOf(BitsOf(3, b)) = b
  <1> DEFINE bits == BitsOf(3, b)
             Bit(i) == IF (b \div 2 ^ (3 - i)) % 2 = 1 THEN "1" ELSE "0"
             v1 == (b \div 4) % 2
             v2 == (b \div 2) % 2
             v3 == b % 2
  <1>1. b \in Nat /\ b <= 7 /\ v1 \in 0 .. 1 /\ v2 \in 0 .. 1 /\ v3 \in 0 .. 1
    BY DEF Octal
  <1>2. 4 * v1 + 2 * v2 + v3 = b
    BY <1>1
  <1>3. bits = [i \in 1 .. 3 |-> Bit(i)]
    BY DEF BitsOf
  <1>4. \A i \in 1 .. 3 : Bit(i) \in Bin
    <2>1. \A n \in {0, 1} : (IF n = 1 THEN "1" ELSE "0") \in Bin
      BY DEF Bin
    <2> QED  BY DEF Bin
  <1>5. bits \in Seq(Bin) /\ Len(bits) = 3 /\ \A i \in 1 .. 3 : bits[i] = Bit(i)
    <2> HIDE DEF Bit
    <2>1. bits \in [1 .. 3 -> Bin] /\ \A i \in 1 .. 3 : bits[i] = Bit(i)
      <3> HIDE DEF bits
      <3> QED  BY <1>3, <1>4
    <2> DEFINE m == 3
    <2>2. m \in Nat
      OBVIOUS
    <2>3. bits \in [1 .. m -> Bin]
      BY <2>1
    <2> HIDE DEF bits, Bin, m
    <2>4. bits \in Seq(Bin) /\ Len(bits) = m
      BY <2>2, <2>3
    <2> QED  BY <2>1, <2>4 DEF m
  <1>6. 2 ^ (3 - 1) = 4 /\ 2 ^ (3 - 2) = 2 /\ 2 ^ (3 - 3) = 1
    OBVIOUS
  <1>7. ValueOf(Bit(1)) = v1 /\ ValueOf(Bit(2)) = v2 /\ ValueOf(Bit(3)) = v3
    <2>1. ValueOf(Bit(1)) = IF v1 = 1 THEN 1 ELSE 0
      BY <1>6, BinFact
    <2>2. ValueOf(Bit(2)) = IF v2 = 1 THEN 1 ELSE 0
      BY <1>6, BinFact
    <2>3. ValueOf(Bit(3)) = IF v3 = 1 THEN 1 ELSE 0
      <3>1. b \div 2 ^ (3 - 3) = b
        BY <1>1, <1>6
      <3> QED  BY <3>1, BinFact
    <2> HIDE DEF v1, v2, v3
    <2> QED  BY <1>1, <2>1, <2>2, <2>3
  <1> HIDE DEF Bit, v1, v2, v3, bits
  <1>8. ValueOf(bits[1]) = v1 /\ ValueOf(bits[2]) = v2 /\ ValueOf(bits[3]) = v3
    BY <1>5, <1>7
  <1>9. \A i \in 1 .. Len(bits) : ValueOf(bits[i]) \in Nat
    <2>1. \A i \in 1 .. Len(bits) : i = 1 \/ i = 2 \/ i = 3
      BY <1>5
    <2> QED  BY <1>1, <1>8, <2>1
  <1>10. PICK f : Sums(f, 2, bits) /\ NumberOf(2, bits) = f[Len(bits)]
    <2> DEFINE base == 2
    <2>1. base \in Nat /\ Len(bits) \in Nat
      BY <1>5
    <2> HIDE DEF base
    <2>2. \E f : Sums(f, base, bits) /\ NumberOf(base, bits) = f[Len(bits)]
      BY <1>9, <2>1, NumberOfFact
    <2> QED  BY <2>2 DEF base
  <1>11. f[0] = 0 /\ f[1] = 2 * f[0] + v1 /\ f[2] = 2 * f[1] + v2 /\ f[3] = 2 * f[2] + v3
    <2>1. f[0] = 0 /\ \A n \in 1 .. 3 : f[n] = 2 * f[n - 1] + ValueOf(bits[n])
      BY <1>5, <1>10 DEF Sums
    <2>2. 1 - 1 = 0 /\ 2 - 1 = 1 /\ 3 - 1 = 2 /\ 1 \in 1 .. 3 /\ 2 \in 1 .. 3 /\ 3 \in 1 .. 3
      OBVIOUS
    <2> QED  BY <1>8, <2>1, <2>2
  <1>12. f[3] = 4 * v1 + 2 * v2 + v3
    BY <1>1, <1>11
  <1>13. ByteOf(bits) = b
    BY <1>2, <1>5, <1>10, <1>12 DEF ByteOf
  <1> QED  BY <1>5, <1>13 DEF bits

\* The first n bytes, three bits each.
BytesAre(t, data, n) ==
  /\ t \in Seq(Bin) /\ Len(t) = 3 * n
  /\ \A k \in 0 .. n - 1 : \A i \in 1 .. 3 : t[3 * k + i] = BitsOf(3, data[k + 1])[i]

LEMMA BytesNext ==
  ASSUME NEW data \in Seq(Octal), NEW n \in 1 .. Len(data), NEW t, BytesAre(t, data, n - 1)
  PROVE  BytesAre(t \o BitsOf(3, data[n]), data, n)
  <1> DEFINE c == BitsOf(3, data[n])
             u == t \o c
             m == n - 1
  <1>1. n \in Nat /\ m \in Nat /\ n = m + 1 /\ data[n] \in Octal
    <2> HIDE DEF Octal
    <2> QED  OBVIOUS
  <1>2. c \in Seq(Bin) /\ Len(c) = 3
    BY <1>1, BitsFact
  <1>3. /\ t \in Seq(Bin) /\ Len(t) = 3 * m
        /\ \A k \in 0 .. m - 1 : \A i \in 1 .. 3 : t[3 * k + i] = BitsOf(3, data[k + 1])[i]
    BY DEF BytesAre
  <1> HIDE DEF c, m, Bin
  <1>4. /\ u \in Seq(Bin) /\ Len(u) = Len(t) + Len(c)
        /\ \A j \in 1 .. Len(t) + Len(c) : u[j] = IF j <= Len(t) THEN t[j] ELSE c[j - Len(t)]
    BY <1>2, <1>3, ConcatProperties
  <1> HIDE DEF u
  <1>5. Len(u) = 3 * n
    BY <1>1, <1>2, <1>3, <1>4
  <1>6. ASSUME NEW k \in 0 .. n - 1, NEW i \in 1 .. 3 PROVE u[3 * k + i] = BitsOf(3, data[k + 1])[i]
    <2>1. 3 * k + i \in 1 .. Len(t) + Len(c)
      BY <1>1, <1>2, <1>3
    <2>2. CASE k = m
      <3>1. ~(3 * k + i <= Len(t)) /\ (3 * k + i) - Len(t) = i
        BY <1>1, <1>3, <2>2
      <3>2. u[3 * k + i] = c[i]
        BY <1>4, <2>1, <3>1
      <3> QED  BY <1>1, <2>2, <3>2 DEF c
    <2>3. CASE k # m
      <3>1. k \in 0 .. m - 1 /\ 3 * k + i <= Len(t)
        BY <1>1, <1>3, <2>3
      <3>2. u[3 * k + i] = t[3 * k + i]
        BY <1>4, <2>1, <3>1
      <3> QED  BY <1>3, <3>1, <3>2
    <2> QED  BY <2>2, <2>3
  <1>7. BytesAre(u, data, n)
    BY <1>4, <1>5, <1>6 DEF BytesAre
  <1> QED  BY <1>7 DEF u, c

LEMMA ToBinFact ==
  ASSUME NEW data \in Seq(Octal)
  PROVE  BytesAre(to_bin(3, data), data, Len(data))
  <1> DEFINE N == Len(data)
             S == Seq(Bin)
             Join(t, n) == t \o BitsOf(3, data[n])
             Body(f, n) == IF n = 0 THEN <<>> ELSE Join(f[n - 1], n)
             result == CHOOSE f : f = [n \in 0 .. N |-> Body(f, n)]
             none == <<>>
  <1>1. to_bin(3, data) = result[N]
    BY Zenon DEF to_bin
  <1>2. N \in Nat /\ \A n \in 1 .. N : \A t \in S : Join(t, n) \in S
    <2>1. \A n \in 1 .. N : data[n] \in Octal
      <3> HIDE DEF Octal
      <3> QED  OBVIOUS
    <2>2. \A n \in 1 .. N : BitsOf(3, data[n]) \in S
      BY <2>1, BitsFact
    <2> HIDE DEF Bin
    <2> QED  BY <2>2
  <1>3. none \in S
    OBVIOUS
  <1> HIDE DEF Join, S, none
  <1>4. \E f : f = [n \in 0 .. N |-> Body(f, n)]
    <2> DEFINE step == [x \in (1 .. N) \X S |-> Join(x[2], x[1])]
    <2>1. step \in [(1 .. N) \X S -> S]
      BY <1>2
    <2> HIDE DEF step, N
    <2>2. PICK f \in [0 .. N -> S] : Computes(f, N, none, step)
      BY <1>2, <1>3, <2>1, Recursion
    <2>3. f[0] = none /\ \A n \in 1 .. N : f[n] = step[<<n, f[n - 1]>>]
      BY <2>2 DEF Computes
    <2>4. ASSUME NEW n \in 1 .. N PROVE f[n] = Join(f[n - 1], n)
      <3>1. n - 1 \in 0 .. N /\ f[n - 1] \in S
        BY <1>2, <2>2
      <3>2. step[<<n, f[n - 1]>>] = Join(f[n - 1], n)
        BY <3>1 DEF step
      <3> QED  BY <2>3, <3>2
    <2>5. ASSUME NEW n \in 0 .. N PROVE f[n] = Body(f, n)
      BY <1>2, <2>3, <2>4 DEF none
    <2>6. f = [n \in 0 .. N |-> Body(f, n)]
      BY <2>2, <2>5
    <2> QED  BY <2>6 DEF N
  <1>5. result = [n \in 0 .. N |-> Body(result, n)]
    BY <1>4
  <1> HIDE DEF result
  <1>6. result[0] = none /\ \A n \in 1 .. N : result[n] = Join(result[n - 1], n)
    BY <1>2, <1>5 DEF none
  <1> DEFINE D == {n \in Nat : BytesAre(result[n], data, n)}
  <1>7. 0 .. N \subseteq D
    <2>1. 0 \in D
      <3>1. BytesAre(none, data, 0)
        BY DEF BytesAre, none
      <3> QED  BY <1>6, <3>1
    <2>2. ASSUME NEW n \in 1 .. N, n - 1 \in D PROVE n \in D
      <3>1. BytesAre(result[n - 1], data, n - 1)
        BY <2>2
      <3>2. BytesAre(result[n - 1] \o BitsOf(3, data[n]), data, n)
        BY <3>1, BytesNext
      <3>3. result[n] = result[n - 1] \o BitsOf(3, data[n])
        BY <1>6 DEF Join
      <3>4. n \in Nat /\ BytesAre(result[n], data, n)
        BY <3>2, <3>3
      <3> QED  BY <3>4
    <2> HIDE DEF D, N
    <2> QED  BY <1>2, <2>1, <2>2, BoundedInduction
  <1>8. N \in D
    <2>1. N \in 0 .. N
      BY <1>2
    <2> HIDE DEF D, N
    <2> QED  BY <1>7, <2>1
  <1> QED  BY <1>1, <1>8

\* What is left behind the blanks at p, the bits it begins with, and what is behind those.
TextAt(w, p) == Behind(SubSeq(w, p, Len(w)), IsBlank)
FirstBits(t) == Span(SubSeq(t, 1, Min({3, Len(t)})), IsBit)
NextAt(w, p) == Len(w) + 1 - (Len(TextAt(w, p)) - Len(FirstBits(TextAt(w, p))))

LEMMA FirstBitsFact ==
  ASSUME NEW S, NEW t \in Seq(S)
  PROVE  /\ FirstBits(t) \in Seq(S) /\ Len(FirstBits(t)) \in 0 .. Len(t)
         /\ (Len(t) >= 3 /\ \A i \in 1 .. 3 : IsBit(t[i])) => FirstBits(t) = SubSeq(t, 1, 3)
         /\ (t = <<>> \/ ~IsBit(t[1])) => FirstBits(t) = <<>>
  <1> DEFINE m == Min({3, Len(t)})
             u == SubSeq(t, 1, m)
  <1>1. m \in Nat /\ m <= Len(t) /\ m <= 3 /\ (Len(t) >= 3 => m = 3) /\ (Len(t) >= 1 => m >= 1) /\ Len(t) \in Nat
    <2> DEFINE P == {3, Len(t)}
    <2>1. 3 \in P /\ Len(t) \in P /\ P \subseteq Nat /\ Len(t) \in Nat
      OBVIOUS
    <2>2. \A x \in P : x = 3 \/ x = Len(t)
      OBVIOUS
    <2>3. \E x \in P : \A y \in P : x <= y
      <3>1. CASE Len(t) <= 3
        BY <2>1, <2>2, <3>1
      <3>2. CASE ~(Len(t) <= 3)
        BY <2>1, <2>2, <3>2
      <3> QED  BY <3>1, <3>2
    <2> HIDE DEF P
    <2>4. Min(P) \in P /\ \A y \in P : Min(P) <= y
      BY <2>3 DEF Min
    <2> DEFINE x == Min(P)
    <2> HIDE DEF x
    <2>5. x \in Nat /\ x <= Len(t) /\ x <= 3 /\ (x = 3 \/ x = Len(t))
      BY <2>1, <2>2, <2>4 DEF x
    <2>6. m = x
      BY DEF P, x
    <2> HIDE DEF m
    <2> QED  BY <2>1, <2>5, <2>6
  <1> HIDE DEF m
  <1>2. u \in Seq(S) /\ Len(u) = m /\ \A i \in 1 .. m : u[i] = t[i]
    <2> DEFINE z == 0
    <2>1. z \in 0 .. Len(t) /\ m \in z .. Len(t) /\ z + 1 = 1 /\ m - z = m /\ \A i \in 1 .. m : z + i = i
      BY <1>1
    <2> HIDE DEF z
    <2> QED  BY <2>1, SubFact
  <1>3. FirstBits(t) = Span(u, IsBit)
    BY Zenon DEF FirstBits, m
  <1> DEFINE f == Span(u, IsBit)
  <1> HIDE DEF u
  <1>4. /\ f \in Seq(S) /\ Len(f) \in 0 .. Len(u)
        /\ (\A i \in 1 .. Len(u) : IsBit(u[i])) => f = u
        /\ (u = <<>> \/ ~IsBit(u[1])) => f = <<>>
    BY <1>2, BitRun
  <1> HIDE DEF f
  <1>5. FirstBits(t) \in Seq(S) /\ Len(FirstBits(t)) \in 0 .. Len(t)
    <2>1. Len(f) \in 0 .. Len(t)
      BY <1>1, <1>2, <1>4
    <2> QED  BY <1>3, <1>4, <2>1 DEF f
  <1>6. ASSUME Len(t) >= 3, \A i \in 1 .. 3 : IsBit(t[i]) PROVE FirstBits(t) = SubSeq(t, 1, 3)
    <2>1. m = 3
      BY <1>1, <1>6
    <2>2. \A i \in 1 .. Len(u) : IsBit(u[i])
      BY <1>2, <1>6, <2>1
    <2>3. f = u
      BY <1>4, <2>2
    <2> QED  BY <1>3, <2>1, <2>3 DEF f, u
  <1>7. ASSUME t = <<>> \/ ~IsBit(t[1]) PROVE FirstBits(t) = <<>>
    <2>1. CASE m = 0
      <3>1. u = <<>>
        BY <1>2, <2>1
      <3> QED  BY <1>3, <1>4, <3>1 DEF f
    <2>2. CASE m # 0
      <3>1. 1 \in 1 .. m
        BY <1>1, <2>2
      <3>2. t # <<>>
        BY <1>1, <2>2
      <3>3. u[1] = t[1]
        BY <1>2, <3>1
      <3>4. ~IsBit(u[1])
        BY <1>7, <3>2, <3>3
      <3> QED  BY <1>3, <1>4, <3>4 DEF f
    <2> QED  BY <2>1, <2>2
  <1> QED  BY <1>5, <1>6, <1>7

LEMMA NextFact ==
  ASSUME NEW S, NEW w \in Seq(S), NEW p \in 1 .. Len(w) + 1
  PROVE  FirstBits(TextAt(w, p)) # <<>> => NextAt(w, p) \in p + 1 .. Len(w) + 1
  <1> DEFINE r == SubSeq(w, p, Len(w))
             t == TextAt(w, p)
             f == FirstBits(t)
             L == Len(w)
  <1>1. L \in Nat /\ p \in Nat /\ p >= 1 /\ p <= L + 1
    OBVIOUS
  <1>2. r \in Seq(S) /\ Len(r) = (L + 1) - p
    <2> DEFINE a == p - 1
    <2>1. a \in 0 .. Len(w) /\ Len(w) \in a .. Len(w) /\ a + 1 = p /\ Len(w) - a = (L + 1) - p
      BY <1>1
    <2> HIDE DEF a, L
    <2> QED  BY <2>1, SubFact
  <1> HIDE DEF r
  <1>3. t = Behind(r, IsBlank)
    BY Zenon DEF TextAt, r
  <1>4. t \in Seq(S) /\ Len(t) \in 0 .. Len(r)
    BY <1>2, <1>3, BlanksFact
  <1> HIDE DEF t
  <1>5. f \in Seq(S) /\ Len(f) \in 0 .. Len(t)
    BY <1>4, FirstBitsFact
  <1>6. NextAt(w, p) = L + 1 - (Len(t) - Len(f))
    BY Zenon DEF NextAt, t
  <1> HIDE DEF f, L
  <1>7. ASSUME f # <<>> PROVE NextAt(w, p) \in p + 1 .. L + 1
    <2>1. Len(f) # 0
      BY <1>5, <1>7
    <2>2. Len(t) \in Nat /\ Len(f) \in Nat /\ Len(f) >= 1 /\ Len(f) <= Len(t) /\ Len(t) <= (L + 1) - p
      BY <1>1, <1>2, <1>4, <1>5, <2>1
    <2> DEFINE x == Len(t)
               y == Len(f)
    <2> HIDE DEF x, y
    <2>3. L + 1 - (x - y) \in p + 1 .. L + 1
      BY <1>1, <2>2 DEF x, y
    <2> QED  BY <1>6, <2>3 DEF x, y
  <1> QED  BY <1>7 DEF f, t, L

\* The loop of to_string: a byte at each of its places.
Reads(from, w) ==
  \A p \in 1 .. Len(w) + 1 :
    from[p] = IF FirstBits(TextAt(w, p)) = <<>> THEN <<>>
              ELSE <<ByteOf(FirstBits(TextAt(w, p)))>> \o from[NextAt(w, p)]

LEMMA ToStringFact ==
  ASSUME NEW S, NEW w \in Seq(S)
  PROVE  \E from : Reads(from, w) /\ to_string(3, w) = from[1]
  <1> DEFINE L == Len(w)
             M == L + 1
             B(p) == FirstBits(TextAt(w, p))
             Body(f, p) == IF B(p) = <<>> THEN <<>> ELSE <<ByteOf(B(p))>> \o f[NextAt(w, p)]
             from == CHOOSE f : f = [p \in 1 .. M |-> Body(f, p)]
             item == [p \in 1 .. M |-> ByteOf(B(p))]
             next == [p \in 1 .. M |-> NextAt(w, p)]
             ends == {p \in 1 .. M : B(p) = <<>>}
             T == {ByteOf(B(p)) : p \in 1 .. M}
             one == 1
  <1>1. to_string(3, w) = from[1]
    BY Zenon DEF to_string, FirstBits, TextAt, NextAt
  <1>2. one \in Int /\ M \in Int /\ one <= M
    OBVIOUS
  <1>3. Forward(one, M, T, item, next, ends)
    <2>1. \A p \in 1 .. M : B(p) # <<>> => NextAt(w, p) \in p + 1 .. M
      BY NextFact
    <2> HIDE DEF B, M
    <2> QED  BY <2>1 DEF Forward
  <1>4. PICK f \in [one .. M -> Seq(T)] : Walks(f, one, M, item, next, ends)
    <2> HIDE DEF item, next, ends, T, M, one
    <2> QED  BY <1>2, <1>3, Cursor
  <1> HIDE DEF B, M
  <1>5. f = [p \in 1 .. M |-> Body(f, p)]
    BY <1>4 DEF Walks
  <1>6. from = [p \in 1 .. M |-> Body(from, p)]
    BY <1>5
  <1> HIDE DEF from
  <1>7. \A p \in 1 .. M : from[p] = Body(from, p)
    BY <1>6
  <1>8. Reads(from, w)
    BY <1>7, Zenon DEF Reads, B, M
  <1> QED  BY <1>1, <1>8

LEMMA DropCons ==
  ASSUME NEW S, NEW s \in Seq(S), NEW k \in 0 .. Len(s) - 1
  PROVE  Drop(s, k) = <<s[k + 1]>> \o Drop(s, k + 1)
  <1> DEFINE j == k + 1
             x == s[j]
             l == Drop(s, j)
             d == Drop(s, k)
             m == <<x>> \o l
  <1>1. /\ k \in 0 .. Len(s) /\ j \in 0 .. Len(s) /\ j \in 1 .. Len(s) /\ k \in Nat /\ Len(s) \in Nat
        /\ Len(s) - k = (Len(s) - j) + 1
    OBVIOUS
  <1>2. d \in Seq(S) /\ Len(d) = Len(s) - k /\ \A i \in 1 .. Len(s) - k : d[i] = s[k + i]
    BY <1>1, DropFact
  <1>3. x \in S
    BY <1>1
  <1> HIDE DEF j
  <1>4. l \in Seq(S) /\ Len(l) = Len(s) - j /\ \A i \in 1 .. Len(s) - j : l[i] = s[j + i]
    BY <1>1, DropFact
  <1> HIDE DEF l, d, x
  <1>5. m \in Seq(S) /\ Len(m) = Len(l) + 1 /\ m[1] = x /\ \A i \in 1 .. Len(l) : m[i + 1] = l[i]
    BY <1>3, <1>4, ConsFact
  <1> HIDE DEF m
  <1>6. ASSUME NEW i \in 1 .. Len(d) PROVE d[i] = m[i]
    <2>1. i \in 1 .. Len(s) - k
      BY <1>2
    <2>2. d[i] = s[k + i]
      BY <1>2, <2>1
    <2>3. CASE i = 1
      BY <1>5, <2>2, <2>3 DEF x, j
    <2>4. CASE i # 1
      <3>1. i - 1 \in 1 .. Len(s) - j /\ (i - 1) + 1 = i /\ j + (i - 1) = k + i
        BY <1>1, <2>1, <2>4 DEF j
      <3>2. m[(i - 1) + 1] = l[i - 1]
        BY <1>4, <1>5, <3>1
      <3>3. l[i - 1] = s[j + (i - 1)]
        BY <1>4, <3>1
      <3> QED  BY <2>2, <3>1, <3>2, <3>3
    <2> QED  BY <2>3, <2>4
  <1>7. Len(d) = Len(m)
    BY <1>1, <1>2, <1>4, <1>5
  <1>8. d = m
    BY <1>2, <1>5, <1>6, <1>7, SeqEqual
  <1> QED  BY <1>8 DEF d, m, x, l, j

\* At a character that is no blank, or at the end, nothing is skipped.
LEMMA TextStands ==
  ASSUME NEW S, NEW w \in Seq(S), NEW p \in 1 .. Len(w) + 1, p = Len(w) + 1 \/ ~IsBlank(w[p])
  PROVE  /\ TextAt(w, p) \in Seq(S) /\ Len(TextAt(w, p)) = (Len(w) + 1) - p
         /\ \A i \in 1 .. (Len(w) + 1) - p : TextAt(w, p)[i] = w[p + i - 1]
  <1> DEFINE r == SubSeq(w, p, Len(w))
             a == p - 1
             n == (Len(w) + 1) - p
  <1>1. /\ a \in 0 .. Len(w) /\ Len(w) \in a .. Len(w) /\ a + 1 = p /\ Len(w) - a = n
        /\ n \in Nat /\ \A i \in Int : p + i - 1 = a + i
    OBVIOUS
  <1> HIDE DEF a, n
  <1>2. r \in Seq(S) /\ Len(r) = n /\ \A i \in 1 .. n : r[i] = w[a + i]
    BY <1>1, SubFact
  <1> HIDE DEF r
  <1>3. r = <<>> \/ ~IsBlank(r[1])
    <2>1. CASE n = 0
      BY <1>2, <2>1
    <2>2. CASE n # 0
      <3>1. 1 \in 1 .. n
        BY <1>1, <2>2
      <3>2. r[1] = w[p]
        BY <1>1, <1>2, <3>1
      <3>3. p # Len(w) + 1
        BY <2>2 DEF n
      <3> QED  BY <3>2, <3>3
    <2> QED  BY <2>1, <2>2
  <1>4. TextAt(w, p) = r
    BY <1>2, <1>3, BlanksFact DEF TextAt, r
  <1>5. \A i \in 1 .. n : r[i] = w[p + i - 1]
    BY <1>1, <1>2
  <1> QED  BY <1>2, <1>4, <1>5 DEF n

LEMMA RoundTrip ==
  ASSUME NEW data \in Seq(Octal), NEW behind \in Seq(Bin \cup {"x"}),
         behind = <<>> \/ behind[1] = "x"
  PROVE  to_string(3, to_bin(3, data) \o behind) = data
  <1> DEFINE S == Bin \cup {"x"}
             t == to_bin(3, data)
             w == t \o behind
             N == Len(data)
             L == Len(w)
             B == Len(behind)
  <1>1. BytesAre(t, data, N)
    BY ToBinFact
  <1>2. /\ t \in Seq(Bin) /\ Len(t) = 3 * N
        /\ \A k \in 0 .. N - 1 : \A i \in 1 .. 3 : t[3 * k + i] = BitsOf(3, data[k + 1])[i]
    BY <1>1 DEF BytesAre
  <1>3. t \in Seq(S) /\ behind \in Seq(S)
    <2> HIDE DEF Bin, t
    <2> QED  BY <1>2
  <1> HIDE DEF t, S
  <1>4. N \in Nat /\ B \in Nat
    BY <1>3
  <1>5. /\ w \in Seq(S) /\ L = 3 * N + B
        /\ \A j \in 1 .. 3 * N + B : w[j] = IF j <= 3 * N THEN t[j] ELSE behind[j - 3 * N]
    <2>1. /\ w \in Seq(S) /\ Len(w) = Len(t) + Len(behind)
          /\ \A j \in 1 .. Len(t) + Len(behind) : w[j] = IF j <= Len(t) THEN t[j] ELSE behind[j - Len(t)]
      BY <1>3, ConcatProperties
    <2> HIDE DEF w
    <2> QED  BY <1>2, <2>1
  <1> HIDE DEF w, N, L, B
  <1>6. PICK from : Reads(from, w) /\ to_string(3, w) = from[1]
    BY <1>5, ToStringFact
  <1>7. \A p \in 1 .. L + 1 :
          from[p] = IF FirstBits(TextAt(w, p)) = <<>> THEN <<>>
                    ELSE <<ByteOf(FirstBits(TextAt(w, p)))>> \o from[NextAt(w, p)]
    BY <1>6, Zenon DEF Reads, L
  <1> DEFINE D == {k \in Nat : from[3 * k + 1] = Drop(data, k)}
  <1>8. N \in D
    <2> DEFINE p == 3 * N + 1
               u == TextAt(w, p)
    <2>1. p \in 1 .. L + 1 /\ p \in 1 .. Len(w) + 1 /\ (L + 1) - p = B
      BY <1>4, <1>5 DEF L
    <2>2. B # 0 => 1 \in 1 .. B /\ p \in 1 .. 3 * N + B /\ ~(p <= 3 * N) /\ p - 3 * N = 1
      BY <1>4
    <2>3. B # 0 => w[p] = "x"
      <3>1. B # 0 => behind # <<>>
        BY DEF B
      <3> HIDE DEF p
      <3> QED  BY <1>5, <2>2, <3>1
    <2>4. B = 0 => p = Len(w) + 1
      BY <1>4, <1>5 DEF L
    <2>5. ~IsBlank("x") /\ ~IsBit("x")
      BY BinFact
    <2> HIDE DEF p
    <2>6. p = Len(w) + 1 \/ ~IsBlank(w[p])
      BY <2>3, <2>4, <2>5
    <2>7. u \in Seq(S) /\ Len(u) = B /\ \A i \in 1 .. B : u[i] = w[p + i - 1]
      BY <1>5, <2>1, <2>6, TextStands DEF L
    <2>8. u = <<>> \/ ~IsBit(u[1])
      <3>1. CASE B = 0
        BY <2>7, <3>1
      <3>2. CASE B # 0
        <4>1. p + 1 - 1 = p
          BY <2>1
        <4> QED  BY <2>2, <2>3, <2>5, <2>7, <3>2, <4>1
      <3> QED  BY <3>1, <3>2
    <2> HIDE DEF u
    <2>9. FirstBits(u) = <<>>
      BY <2>7, <2>8, FirstBitsFact
    <2>10. from[p] = <<>>
      BY <1>7, <2>1, <2>9, Zenon DEF u
    <2>11. Drop(data, N) = <<>>
      <3>1. N \in 0 .. Len(data) /\ Len(data) - N = 0
        BY <1>4 DEF N
      <3>2. Drop(data, N) \in Seq(Octal) /\ Len(Drop(data, N)) = 0
        BY <3>1, DropFact
      <3> HIDE DEF Octal
      <3> QED  BY <3>2
    <2> QED  BY <1>4, <2>10, <2>11 DEF p
  <1>9. ASSUME NEW k \in 0 .. N - 1, k + 1 \in D PROVE k \in D
    <2> DEFINE p == 3 * k + 1
               u == TextAt(w, p)
               c == BitsOf(3, data[k + 1])
               q == 3 * (k + 1) + 1
    <2>1. /\ k \in Nat /\ p \in 1 .. L + 1 /\ p \in 1 .. Len(w) + 1 /\ (L + 1) - p >= 3 /\ (L + 1) - p \in Nat
          /\ q = p + 3 /\ L \in Nat
      BY <1>4, <1>5 DEF L
    <2>2. data[k + 1] \in Octal
      <3>1. k + 1 \in 1 .. Len(data)
        BY <1>4 DEF N
      <3> HIDE DEF Octal
      <3> QED  BY <3>1
    <2>3. c \in Seq(Bin) /\ Len(c) = 3 /\ ByteOf(c) = data[k + 1]
      BY <2>2, BitsFact
    <2>4. \A i \in 1 .. 3 : w[p + i - 1] = c[i] /\ IsBit(c[i]) /\ ~IsBlank(c[i])
      <3> SUFFICES ASSUME NEW i \in 1 .. 3 PROVE w[p + i - 1] = c[i] /\ IsBit(c[i]) /\ ~IsBlank(c[i])
        OBVIOUS
      <3>1. 3 * k + i \in 1 .. 3 * N + B /\ 3 * k + i <= 3 * N /\ p + i - 1 = 3 * k + i
        BY <1>4
      <3>2. w[3 * k + i] = t[3 * k + i]
        BY <1>5, <3>1
      <3>3. t[3 * k + i] = c[i]
        BY <1>2
      <3>4. c[i] \in Bin
        <4> HIDE DEF c, Bin
        <4>1. i \in 1 .. Len(c)
          BY <2>3
        <4> QED  BY <2>3, <4>1, ElementOfSeq
      <3>5. IsBit(c[i]) /\ ~IsBlank(c[i])
        BY <3>4, BinFact
      <3> HIDE DEF c
      <3> QED  BY <3>1, <3>2, <3>3, <3>5
    <2> HIDE DEF c, p, q
    <2>5. ~IsBlank(w[p])
      <3>1. 1 \in 1 .. 3 /\ p + 1 - 1 = p
        BY <2>1
      <3> QED  BY <2>4, <3>1
    <2>6. /\ u \in Seq(S) /\ Len(u) = (L + 1) - p
          /\ \A i \in 1 .. (L + 1) - p : u[i] = w[p + i - 1]
      BY <1>5, <2>1, <2>5, TextStands DEF L
    <2> HIDE DEF u
    <2>7. Len(u) >= 3 /\ \A i \in 1 .. 3 : u[i] = c[i] /\ IsBit(u[i])
      BY <2>1, <2>4, <2>6
    <2>8. FirstBits(u) = SubSeq(u, 1, 3)
      BY <2>6, <2>7, FirstBitsFact
    <2>9. SubSeq(u, 1, 3) = c
      <3> DEFINE z == 0
                 e == SubSeq(u, 1, 3)
      <3>1. z \in 0 .. Len(u) /\ 3 \in z .. Len(u) /\ z + 1 = 1 /\ 3 - z = 3 /\ \A i \in 1 .. 3 : z + i = i
        BY <2>1, <2>6, <2>7
      <3> HIDE DEF z
      <3>2. e \in Seq(S) /\ Len(e) = 3 /\ \A i \in 1 .. 3 : e[i] = u[i]
        BY <2>6, <3>1, SubFact
      <3> HIDE DEF e
      <3>3. c \in Seq(S)
        <4> HIDE DEF Bin
        <4> QED  BY <2>3 DEF S
      <3>4. Len(e) = Len(c) /\ \A i \in 1 .. Len(e) : e[i] = c[i]
        BY <2>3, <2>7, <3>2
      <3>5. e = c
        BY <3>2, <3>3, <3>4, SeqEqual
      <3> QED  BY <3>5 DEF e
    <2>10. FirstBits(u) = c /\ c # <<>>
      <3>1. c # <<>>
        <4> SUFFICES ASSUME c = <<>> PROVE FALSE
          OBVIOUS
        <4>1. Len(c) = 0
          OBVIOUS
        <4> QED  BY <2>3, <4>1
      <3> QED  BY <2>8, <2>9, <3>1
    <2>11. NextAt(w, p) = q
      <3>1. NextAt(w, p) = L + 1 - (Len(u) - Len(c))
        BY <2>10, Zenon DEF NextAt, u, L
      <3> QED  BY <2>1, <2>3, <2>6, <3>1
    <2>12. from[p] = <<data[k + 1]>> \o from[q]
      <3>1. from[p] = IF FirstBits(u) = <<>> THEN <<>> ELSE <<ByteOf(FirstBits(u))>> \o from[NextAt(w, p)]
        BY <1>7, <2>1, Zenon DEF u
      <3> QED  BY <2>3, <2>10, <2>11, <3>1, Zenon
    <2>13. from[q] = Drop(data, k + 1)
      BY <1>9 DEF q
    <2>14. Drop(data, k) = <<data[k + 1]>> \o Drop(data, k + 1)
      BY DropCons DEF N
    <2>15. from[p] = Drop(data, k)
      BY <2>12, <2>13, <2>14, Zenon
    <2> QED  BY <2>1, <2>15 DEF p
  <1>10. 0 \in D
    <2> DEFINE E == {j \in Nat : j <= N => N - j \in D}
    <2>1. 0 \in E
      <3>1. N - 0 = N
        BY <1>4
      <3> HIDE DEF D
      <3> QED  BY <1>8, <3>1
    <2>2. ASSUME NEW j \in 1 .. N, j - 1 \in E PROVE j \in E
      <3>1. N - j \in 0 .. N - 1 /\ (N - j) + 1 = N - (j - 1) /\ j - 1 <= N /\ j \in Nat
        BY <1>4
      <3> HIDE DEF D
      <3>2. (N - j) + 1 \in D
        BY <2>2, <3>1
      <3>3. N - j \in D
        BY <1>9, <3>1, <3>2
      <3> QED  BY <3>1, <3>3
    <2>3. N \in E
      <3>1. 0 .. N \subseteq E
        <4> HIDE DEF E
        <4> QED  BY <1>4, <2>1, <2>2, BoundedInduction
      <3> HIDE DEF E
      <3> QED  BY <1>4, <3>1
    <2>4. N <= N /\ N - N = 0
      BY <1>4
    <2> HIDE DEF D
    <2> QED  BY <2>3, <2>4
  <1>11. from[1] = data
    <2>1. 3 * 0 + 1 = 1 /\ Drop(data, 0) = data
      <3>1. Drop(data, 0) = SubSeq(data, 1, Len(data))
        BY DEF Drop
      <3> HIDE DEF Octal
      <3> QED  BY <3>1, SubSeqFull
    <2> QED  BY <1>10, <2>1
  <1> QED  BY <1>6, <1>11 DEF w, t

LEMMA AsBytesType ==
  ASSUME NEW S, NEW s \in Seq(S)
  PROVE  AsBytes(s) \in Seq(Octal)
  <1> DEFINE v(i) == (IF IsDigit(s[i]) THEN ValueOf(s[i]) ELSE Len(s)) % 2 ^ 3
  <1>1. Len(s) \in Nat /\ DOMAIN s = 1 .. Len(s)
    OBVIOUS
  <1>2. ASSUME NEW i \in 1 .. Len(s) PROVE v(i) \in Octal
    <2> DEFINE a == IF IsDigit(s[i]) THEN ValueOf(s[i]) ELSE Len(s)
    <2>1. IsDigit(s[i]) => ValueOf(s[i]) \in Nat
      <3> SUFFICES ASSUME IsDigit(s[i]) PROVE ValueOf(s[i]) \in Nat
        OBVIOUS
      <3>1. PICK j \in 1 .. 10 : Numeral[j] = s[i]
        BY DEF IsDigit
      <3>2. j - 1 \in 0 .. 9 /\ (j - 1) + 1 = j
        OBVIOUS
      <3>3. ValueOf(Numeral[(j - 1) + 1]) = j - 1
        BY <3>2, NumeralFact
      <3> QED  BY <3>1, <3>2, <3>3
    <2>2. a \in Nat
      BY <1>1, <2>1
    <2> HIDE DEF a
    <2>3. 2 ^ 3 = 8 /\ a % 8 \in 0 .. 7
      BY <2>2
    <2> QED  BY <2>3 DEF a, Octal
  <1>3. AsBytes(s) = [i \in 1 .. Len(s) |-> v(i)]
    BY <1>1, Zenon DEF AsBytes
  <1> HIDE DEF v, Octal
  <1> QED  BY <1>1, <1>2, <1>3

LEMMA ReturnsKeep == Sources /\ Counting => PrintedReturns
  <1> SUFFICES ASSUME Sources, Counting PROVE PrintedReturns
    OBVIOUS
  <1>1. ASSUME how = "numbers", done PROVE out = numbers
    <2>1. numbers \in Lists
      BY <1>1 DEF Counting
    <2>2. PICK text, k : At(text, k)
      BY <1>1, Zenon DEF Counting
    <2>3. out = SubSeq(numbers, 1, k) /\ k = Len(numbers)
      BY <1>1, <2>2, Zenon DEF At
    <2>4. numbers \in Seq(Int)
      BY <2>1, ListsFact
    <2> QED  BY <2>3, <2>4, SubSeqFull
  <1>2. ASSUME how = "string",
               NEW behind \in {<<>>, <<"x">> \o to_bin(3, AsBytes(source))}
        PROVE  to_string(3, to_bin(3, AsBytes(source)) \o behind) = AsBytes(source)
    <2> DEFINE data == AsBytes(source)
               t == to_bin(3, data)
               F == Bin \cup {"x"}
    <2>1. data \in Seq(Octal)
      <3>1. source \in Seq(Symbols)
        BY <1>2 DEF Sources
      <3> QED  BY <3>1, AsBytesType
    <2> HIDE DEF data
    <2>2. t \in Seq(Bin)
      BY <2>1, ToBinFact DEF BytesAre
    <2> HIDE DEF t
    <2>3. behind \in Seq(F) /\ (behind = <<>> \/ behind[1] = "x")
      <3> DEFINE x == "x"
                 e == <<x>> \o t
      <3>1. x \in F /\ t \in Seq(F)
        <4> HIDE DEF Bin
        <4> QED  BY <2>2
      <3> HIDE DEF x, F
      <3>2. e \in Seq(F) /\ e[1] = x
        BY <3>1, Pushed
      <3>3. behind = <<>> \/ behind = e
        BY <1>2, Zenon DEF e, t, data, x
      <3>4. CASE behind = <<>>
        BY <3>4
      <3>5. CASE behind = e
        <4> HIDE DEF e
        <4> QED  BY <3>2, <3>5 DEF x
      <3> QED  BY <3>3, <3>4, <3>5
    <2>4. to_string(3, to_bin(3, data) \o behind) = data
      BY <2>1, <2>3, RoundTrip
    <2> QED  BY <2>4 DEF data
  <1> QED  BY <1>1, <1>2, Zenon DEF PrintedReturns

(***************************************************************************)
(* What convto_string prints, GetNumericToken reads, for every width of    *)
(* the type, and what to_bin writes, to_string reads.                      *)
(***************************************************************************)
THEOREM PrintedComesBack == TextSpec => []PrintedReturns
  <1>1. TextSpec => []Sources
    BY SourcesInit, SourcesNext, PTL DEF TextSpec
  <1>2. TextSpec => []Counting
    BY CountingInit, CountingNext, PTL DEF TextSpec
  <1> QED  BY <1>1, <1>2, ReturnsKeep, PTL

-----------------------------------------------------------------------------
(***************************************************************************)
(* The number that a string begins with.                                   *)
(***************************************************************************)
Half  == 2 ^ (Bits - 1)
Whole == 2 ^ Bits
Far   == 2 ^ (2 * Bits - 1)
Wide  == 2 ^ (2 * Bits)

LEMMA PowersFact ==
  /\ Half \in Nat \ {0} /\ Whole \in Nat \ {0} /\ Far \in Nat \ {0} /\ Wide \in Nat \ {0}
  /\ Half <= Far /\ Whole <= Wide
  <1> DEFINE P == [n \in 0 .. 2 * Bits |-> 2 ^ n]
             N == 2 * Bits
  <1>1. Bits \in Nat /\ Bits >= 1 /\ N \in Nat /\ \A n \in 0 .. N : 2 ^ n \in Nat /\ 2 ^ (n + 1) = 2 * 2 ^ n
    BY BitsAssumption
  <1>2. P[0] = 1
    <2>1. 2 ^ 0 = 1 /\ 0 \in 0 .. N
      BY <1>1
    <2> QED  BY <2>1
  <1>3. \A n \in 1 .. N : P[n] = 2 * P[n - 1]
    <2> SUFFICES ASSUME NEW n \in 1 .. N PROVE P[n] = 2 * P[n - 1]
      OBVIOUS
    <2> DEFINE m == n - 1
    <2>1. m \in 0 .. N /\ n \in 0 .. N /\ m + 1 = n
      BY <1>1
    <2> HIDE DEF m
    <2>2. 2 ^ (m + 1) = 2 * 2 ^ m
      BY <1>1, <2>1
    <2>3. 2 ^ n = 2 * 2 ^ m
      BY <2>1, <2>2
    <2>4. P[n] = 2 ^ n /\ P[m] = 2 ^ m
      BY <2>1
    <2> QED  BY <2>3, <2>4 DEF m
  <1> HIDE DEF P, N
  <1>4. 0 .. N \subseteq {n \in Nat : P[n] \in Nat \ {0}}
    <2> DEFINE D == {n \in Nat : P[n] \in Nat \ {0}}
    <2>1. 0 \in D
      BY <1>2
    <2>2. ASSUME NEW n \in 1 .. N, n - 1 \in D PROVE n \in D
      <3> DEFINE x == P[n - 1]
      <3>1. x \in Nat \ {0} /\ P[n] = 2 * x /\ n \in Nat
        BY <1>3, <2>2
      <3> HIDE DEF x
      <3>2. P[n] \in Nat \ {0}
        BY <3>1
      <3> QED  BY <3>1, <3>2
    <2> HIDE DEF D
    <2>3. 0 .. N \subseteq D
      BY <1>1, <2>1, <2>2, BoundedInduction
    <2> QED  BY <2>3 DEF D
  <1>5. ASSUME NEW a \in 0 .. N PROVE \A b \in a .. N : P[a] <= P[b]
    <2> DEFINE D == {d \in Nat : a + d <= N => P[a] <= P[a + d]}
    <2>1. 0 \in D
      <3>1. a + 0 = a /\ P[a] \in Nat
        BY <1>4
      <3>2. P[a] <= P[a + 0]
        BY <3>1
      <3> QED  BY <3>2
    <2>2. ASSUME NEW d \in 1 .. N - a, d - 1 \in D PROVE d \in D
      <3> DEFINE x == P[a + (d - 1)]
                 e == a + d
      <3>1. e \in 1 .. N /\ e - 1 = a + (d - 1) /\ a + (d - 1) <= N /\ a + (d - 1) \in 0 .. N /\ d \in Nat
        BY <1>1
      <3>2. P[e] = 2 * P[e - 1]
        <4> HIDE DEF e
        <4> QED  BY <1>3, <3>1
      <3>3. P[e] = 2 * x /\ P[a] <= x /\ x \in Nat /\ P[a] \in Nat
        BY <1>4, <2>2, <3>1, <3>2
      <3> HIDE DEF x
      <3>4. P[a] <= P[e]
        BY <3>3
      <3> QED  BY <3>1, <3>4
    <2>3. N - a \in Nat
      BY <1>1
    <2>4. 0 .. N - a \subseteq D
      <3> HIDE DEF D
      <3> QED  BY <2>1, <2>2, <2>3, BoundedInduction
    <2>5. ASSUME NEW b \in a .. N PROVE P[a] <= P[b]
      <3>1. b - a \in 0 .. N - a /\ a + (b - a) = b /\ a + (b - a) <= N
        BY <1>1
      <3>2. b - a \in D
        <4> HIDE DEF D
        <4> QED  BY <2>4, <3>1
      <3>3. P[a] <= P[a + (b - a)]
        BY <3>1, <3>2
      <3> QED  BY <3>1, <3>3
    <2> QED  BY <2>5
  <1>6. /\ Bits - 1 \in 0 .. N /\ Bits \in 0 .. N /\ 2 * Bits - 1 \in 0 .. N /\ 2 * Bits \in 0 .. N
        /\ 2 * Bits - 1 \in (Bits - 1) .. N /\ 2 * Bits \in Bits .. N
    BY <1>1 DEF N
  <1>7. \A n \in 0 .. N : P[n] = 2 ^ n
    BY DEF P, N
  <1> DEFINE b1 == Bits - 1
             b2 == 2 * Bits - 1
             b3 == 2 * Bits
  <1>8. /\ b1 \in 0 .. N /\ Bits \in 0 .. N /\ b2 \in 0 .. N /\ b3 \in 0 .. N /\ b2 \in b1 .. N /\ b3 \in Bits .. N
    BY <1>6
  <1>9. Half = 2 ^ b1 /\ Whole = 2 ^ Bits /\ Far = 2 ^ b2 /\ Wide = 2 ^ b3
    BY Zenon DEF Half, Whole, Far, Wide
  <1> HIDE DEF b1, b2, b3
  <1>10. Half = P[b1] /\ Whole = P[Bits] /\ Far = P[b2] /\ Wide = P[b3]
    BY <1>7, <1>8, <1>9
  <1>11. P[b1] <= P[b2] /\ P[Bits] <= P[b3]
    BY <1>5, <1>8
  <1>12. P[b1] \in Nat \ {0} /\ P[Bits] \in Nat \ {0} /\ P[b2] \in Nat \ {0} /\ P[b3] \in Nat \ {0}
    BY <1>4, <1>8
  <1> QED  BY <1>10, <1>11, <1>12

-----------------------------------------------------------------------------
(***************************************************************************)
(* A number has one row of digits that does not begin with a zero.         *)
(***************************************************************************)
Canonical(d) == d \in Seq(Figures) /\ Len(d) >= 1 /\ ValueOf(d[1]) # 0

LEMMA FigureIs ==
  ASSUME NEW c \in Figures, NEW e \in Figures, ValueOf(c) = ValueOf(e)
  PROVE  c = e
  <1>1. ASSUME NEW x \in Figures PROVE Numeral[ValueOf(x) + 1] = x
    <2>1. PICK i \in 1 .. 10 : x = Numeral[i]
      BY DEF Figures
    <2>2. i - 1 \in 0 .. 9 /\ (i - 1) + 1 = i
      OBVIOUS
    <2>3. ValueOf(Numeral[(i - 1) + 1]) = i - 1
      BY <2>2, NumeralFact
    <2>4. ValueOf(x) = i - 1
      BY <2>1, <2>2, <2>3
    <2> QED  BY <2>1, <2>2, <2>4
  <1>2. Numeral[ValueOf(c) + 1] = c /\ Numeral[ValueOf(e) + 1] = e
    BY <1>1
  <1> QED  BY <1>2

\* The value of each beginning of a row of digits.
Values(f, d) ==
  /\ f[0] = 0 /\ \A i \in 0 .. Len(d) : f[i] \in Nat
  /\ \A i \in 1 .. Len(d) : f[i] = 10 * f[i - 1] + ValueOf(d[i])
  /\ NumberOf(10, d) = f[Len(d)]

LEMMA ValuesFact ==
  ASSUME NEW d \in Seq(Figures)
  PROVE  (\E f : Values(f, d)) /\ \A i \in 1 .. Len(d) : d[i] \in Figures /\ ValueOf(d[i]) \in 0 .. 9
  <1>1. \A i \in 1 .. Len(d) : d[i] \in Figures
    <2> HIDE DEF Figures
    <2> QED  OBVIOUS
  <1>2. \A i \in 1 .. Len(d) : ValueOf(d[i]) \in 0 .. 9
    BY <1>1, FiguresFact
  <1> DEFINE base == 10
  <1>3. base \in Nat /\ Len(d) \in Nat /\ \A i \in 1 .. Len(d) : ValueOf(d[i]) \in Nat
    BY <1>2
  <1> HIDE DEF base
  <1>4. PICK f \in [0 .. Len(d) -> Nat] : Sums(f, base, d) /\ NumberOf(base, d) = f[Len(d)]
    BY <1>3, NumberOfFact
  <1>5. Values(f, d)
    BY <1>4 DEF Values, Sums, base
  <1> QED  BY <1>1, <1>2, <1>5

LEMMA CanonicalGrows ==
  ASSUME NEW d, Canonical(d), NEW f, Values(f, d)
  PROVE  \A i \in 1 .. Len(d) : f[i] >= 1
  <1> DEFINE N == Len(d)
             D == {i \in Nat : i >= 1 => f[i] >= 1}
  <1>1. N \in Nat /\ N >= 1 /\ ValueOf(d[1]) # 0 /\ d \in Seq(Figures)
    BY DEF Canonical
  <1>2. \A i \in 1 .. N : ValueOf(d[i]) \in 0 .. 9
    BY <1>1, ValuesFact
  <1>3. /\ f[0] = 0 /\ \A i \in 0 .. N : f[i] \in Nat
        /\ \A i \in 1 .. N : f[i] = 10 * f[i - 1] + ValueOf(d[i])
    BY DEF Values
  <1> HIDE DEF N
  <1>4. 0 .. N \subseteq D
    <2>1. 0 \in D
      OBVIOUS
    <2>2. ASSUME NEW i \in 1 .. N, i - 1 \in D PROVE i \in D
      <3>1. CASE i = 1
        <4>1. f[1] = 10 * f[0] + ValueOf(d[1]) /\ ValueOf(d[1]) \in 0 .. 9
          <5>1. 1 \in 1 .. N /\ 1 - 1 = 0
            BY <1>1
          <5> QED  BY <1>2, <1>3, <5>1
        <4>2. f[1] >= 1
          BY <1>1, <1>3, <4>1
        <4> QED  BY <3>1, <4>2
      <3>2. CASE i # 1
        <4> DEFINE x == f[i - 1]
                   v == ValueOf(d[i])
        <4>1. x >= 1 /\ x \in Nat /\ v \in 0 .. 9 /\ f[i] = 10 * x + v
          <5>1. i - 1 >= 1 /\ i - 1 \in 0 .. N
            BY <1>1, <3>2
          <5> QED  BY <1>2, <1>3, <2>2, <5>1
        <4> HIDE DEF x, v
        <4>2. f[i] >= 1
          BY <4>1
        <4> QED  BY <4>2
      <3> QED  BY <3>1, <3>2
    <2> HIDE DEF D
    <2> QED  BY <1>1, <2>1, <2>2, BoundedInduction
  <1>5. \A i \in 1 .. N : i \in D
    <2>1. \A i \in 1 .. N : i \in 0 .. N
      OBVIOUS
    <2> HIDE DEF D
    <2> QED  BY <1>4, <2>1
  <1> QED  BY <1>5 DEF N

\* Two rows with the same value agree from the back.
LEMMA ValuesMeet ==
  ASSUME NEW x \in Seq(Figures), NEW y \in Seq(Figures), NEW f, NEW g, Values(f, x), Values(g, y),
         f[Len(x)] = g[Len(y)]
  PROVE  \A j \in Nat : j <= Len(x) /\ j <= Len(y) => f[Len(x) - j] = g[Len(y) - j]
  <1> DEFINE a == Len(x)
             b == Len(y)
             D == {j \in Nat : j <= a /\ j <= b => f[a - j] = g[b - j]}
  <1>1. a \in Nat /\ b \in Nat
    OBVIOUS
  <1>2. /\ \A i \in 0 .. a : f[i] \in Nat
        /\ \A i \in 1 .. a : f[i] = 10 * f[i - 1] + ValueOf(x[i]) /\ ValueOf(x[i]) \in 0 .. 9
    BY ValuesFact DEF Values
  <1>3. /\ \A i \in 0 .. b : g[i] \in Nat
        /\ \A i \in 1 .. b : g[i] = 10 * g[i - 1] + ValueOf(y[i]) /\ ValueOf(y[i]) \in 0 .. 9
    BY ValuesFact DEF Values
  <1>4. f[a] = g[b]
    OBVIOUS
  <1> HIDE DEF a, b
  <1>5. 0 \in D
    <2>1. a - 0 = a /\ b - 0 = b
      BY <1>1
    <2> QED  BY <1>4, <2>1
  <1>6. ASSUME NEW j \in Nat, j \in D PROVE j + 1 \in D
    <2> SUFFICES ASSUME j + 1 <= a, j + 1 <= b PROVE f[a - (j + 1)] = g[b - (j + 1)]
      OBVIOUS
    <2> DEFINE p == a - j
               q == b - j
               v == ValueOf(x[p])
               w == ValueOf(y[q])
    <2>1. /\ p \in 1 .. a /\ q \in 1 .. b /\ p - 1 = a - (j + 1) /\ q - 1 = b - (j + 1)
          /\ p - 1 \in 0 .. a /\ q - 1 \in 0 .. b
      BY <1>1
    <2>2. f[p] = g[q]
      BY <1>1, <1>6
    <2> HIDE DEF p, q
    <2> DEFINE m == f[p - 1]
               n == g[q - 1]
    <2>3. m \in Nat /\ n \in Nat /\ v \in 0 .. 9 /\ w \in 0 .. 9 /\ 10 * m + v = 10 * n + w
      BY <1>2, <1>3, <2>1, <2>2
    <2> HIDE DEF m, n, v, w
    <2>4. m = n
      BY <2>3
    <2> QED  BY <2>1, <2>4 DEF m, n
  <1>7. Nat \subseteq D
    <2> HIDE DEF D
    <2> QED  BY <1>5, <1>6, SetInduction
  <1> QED  BY <1>7 DEF a, b

LEMMA NotShorter ==
  ASSUME NEW x, Canonical(x), NEW y, Canonical(y), NumberOf(10, x) = NumberOf(10, y)
  PROVE  ~(Len(x) < Len(y))
  <1> SUFFICES ASSUME Len(x) < Len(y) PROVE FALSE
    OBVIOUS
  <1>1. x \in Seq(Figures) /\ y \in Seq(Figures)
    BY DEF Canonical
  <1>2. PICK f : Values(f, x)
    BY <1>1, ValuesFact
  <1>3. PICK g : Values(g, y)
    BY <1>1, ValuesFact
  <1>4. f[Len(x)] = g[Len(y)]
    BY <1>2, <1>3 DEF Values
  <1>5. Len(x) \in Nat /\ Len(y) \in Nat
    BY <1>1
  <1>6. f[Len(x) - Len(x)] = g[Len(y) - Len(x)]
    <2>1. Len(x) <= Len(x) /\ Len(x) <= Len(y)
      BY <1>5
    <2> QED  BY <1>1, <1>2, <1>3, <1>4, <1>5, <2>1, ValuesMeet
  <1>7. g[Len(y) - Len(x)] >= 1
    <2>1. Len(y) - Len(x) \in 1 .. Len(y)
      BY <1>5
    <2> QED  BY <1>3, <2>1, CanonicalGrows
  <1>8. f[Len(x) - Len(x)] = 0
    <2>1. Len(x) - Len(x) = 0
      BY <1>5
    <2> QED  BY <1>2, <2>1 DEF Values
  <1> QED  BY <1>6, <1>7, <1>8

LEMMA SameDigits ==
  ASSUME NEW x, Canonical(x), NEW y, Canonical(y), NumberOf(10, x) = NumberOf(10, y)
  PROVE  x = y
  <1>1. x \in Seq(Figures) /\ y \in Seq(Figures)
    BY DEF Canonical
  <1>2. PICK f : Values(f, x)
    BY <1>1, ValuesFact
  <1>3. PICK g : Values(g, y)
    BY <1>1, ValuesFact
  <1> DEFINE N == Len(x)
  <1>4. f[Len(x)] = g[Len(y)]
    BY <1>2, <1>3 DEF Values
  <1>5. N \in Nat /\ Len(y) = N
    <2>1. Len(x) \in Nat /\ Len(y) \in Nat
      BY <1>1
    <2>2. ~(Len(x) < Len(y)) /\ ~(Len(y) < Len(x))
      BY NotShorter
    <2> QED  BY <2>1, <2>2
  <1>6. \A j \in Nat : j <= N => f[N - j] = g[N - j]
    <2>1. \A j \in Nat : j <= Len(x) /\ j <= Len(y) => f[Len(x) - j] = g[Len(y) - j]
      BY <1>1, <1>2, <1>3, <1>4, ValuesMeet
    <2> QED  BY <1>5, <2>1
  <1>7. /\ \A i \in 0 .. N : f[i] \in Nat
        /\ \A i \in 1 .. N : f[i] = 10 * f[i - 1] + ValueOf(x[i]) /\ ValueOf(x[i]) \in 0 .. 9 /\ x[i] \in Figures
    BY <1>1, <1>2, ValuesFact DEF Values
  <1>8. /\ \A i \in 0 .. N : g[i] \in Nat
        /\ \A i \in 1 .. N : g[i] = 10 * g[i - 1] + ValueOf(y[i]) /\ ValueOf(y[i]) \in 0 .. 9 /\ y[i] \in Figures
    BY <1>1, <1>3, <1>5, ValuesFact DEF Values
  <1> HIDE DEF N
  <1>9. ASSUME NEW i \in 0 .. N PROVE f[i] = g[i]
    <2>1. N - i \in Nat /\ N - i <= N /\ N - (N - i) = i
      BY <1>5
    <2> QED  BY <1>6, <2>1
  <1>10. ASSUME NEW i \in 1 .. N PROVE x[i] = y[i]
    <2>1. i \in 0 .. N /\ i - 1 \in 0 .. N
      BY <1>5
    <2> DEFINE m == f[i - 1]
               v == ValueOf(x[i])
               w == ValueOf(y[i])
    <2>2. f[i] = 10 * m + v /\ g[i] = 10 * g[i - 1] + w /\ v \in 0 .. 9 /\ w \in 0 .. 9 /\ m \in Nat
      BY <1>7, <1>8, <2>1
    <2>3. f[i] = g[i] /\ m = g[i - 1]
      BY <1>9, <2>1
    <2> HIDE DEF m
    <2>4. v = w
      BY <2>2, <2>3
    <2> QED  BY <1>7, <1>8, <2>4, FigureIs
  <1> HIDE DEF Figures
  <1> QED  BY <1>1, <1>5, <1>10, SeqEqual DEF N

\* conv_numeric prints such a row, with a minus or without.
LEMMA PrintedRow ==
  ASSUME NEW n \in Int
  PROVE  \E d : /\ d \in Seq(Figures) /\ Len(d) >= 1 /\ NumberOf(10, d) = Absolute(n)
                /\ (n # 0 => Canonical(d))
                /\ n < 0 => conv_numeric(n) = <<Dash>> \o d
                /\ ~(n < 0) => conv_numeric(n) = d
  <1>1. PICK d : Decimal(d, Absolute(n)) /\ conv_numeric(n) = IF n < 0 THEN <<"-">> \o d ELSE d
    BY PrintedFact
  <1>2. d \in Seq(Figures) /\ Len(d) >= 1 /\ NumberOf(10, d) = Absolute(n) /\ (Absolute(n) # 0 => ValueOf(d[1]) # 0)
    BY <1>1 DEF Decimal
  <1>3. n # 0 => Absolute(n) # 0
    BY QuotientFact
  <1>4. n # 0 => Canonical(d)
    BY <1>2, <1>3 DEF Canonical
  <1>5. n < 0 => conv_numeric(n) = <<Dash>> \o d
    BY <1>1, Zenon DEF Dash
  <1>6. ~(n < 0) => conv_numeric(n) = d
    BY <1>1, Zenon
  <1> QED  BY <1>2, <1>4, <1>5, <1>6, Zenon

LEMMA DashIsNoFigure ==
  ASSUME NEW d \in Seq(Figures), Len(d) >= 1
  PROVE  d[1] # Dash
  <1>1. 1 \in 1 .. Len(d)
    OBVIOUS
  <1>2. d[1] \in Figures
    <2> HIDE DEF Figures
    <2> QED  BY <1>1
  <1>3. IsDigit(d[1])
    BY <1>2, FiguresFact
  <1>4. IsSign(Dash)
    BY MinusFact, Zenon DEF Dash
  <1> QED  BY <1>3, <1>4, Kinds

\* A minus in front of two rows: they are equal if what is printed is.
LEMMA Dashed ==
  ASSUME NEW x \in Seq(Figures), NEW y \in Seq(Figures)
  PROVE  /\ Len(<<Dash>> \o x) = Len(x) + 1 /\ (<<Dash>> \o x)[1] = Dash
         /\ <<Dash>> \o x = <<Dash>> \o y => x = y
  <1> DEFINE F == Figures \cup {Dash}
             a == <<Dash>> \o x
             b == <<Dash>> \o y
  <1>1. Dash \in F /\ x \in Seq(F) /\ y \in Seq(F)
    <2> HIDE DEF Figures
    <2> QED  OBVIOUS
  <1> HIDE DEF F
  <1>2. Len(a) = Len(x) + 1 /\ a[1] = Dash /\ \A i \in 1 .. Len(x) : a[i + 1] = x[i]
    BY <1>1, Pushed
  <1>3. Len(b) = Len(y) + 1 /\ b[1] = Dash /\ \A i \in 1 .. Len(y) : b[i + 1] = y[i]
    BY <1>1, Pushed
  <1> HIDE DEF a, b
  <1>4. ASSUME a = b PROVE x = y
    <2>1. Len(x) \in Nat /\ Len(y) \in Nat
      OBVIOUS
    <2>2. Len(x) = Len(y)
      BY <1>2, <1>3, <1>4, <2>1
    <2>3. \A i \in 1 .. Len(x) : x[i] = y[i]
      BY <1>2, <1>3, <1>4, <2>2
    <2> QED  BY <1>1, <2>2, <2>3, SeqEqual
  <1> QED  BY <1>2, <1>4 DEF a, b

LEMMA PrintedIs ==
  ASSUME NEW d, Canonical(d)
  PROVE  /\ NumberOf(10, d) \in Nat /\ NumberOf(10, d) >= 1
         /\ \A n \in Int : conv_numeric(n) = d <=> n = NumberOf(10, d)
         /\ \A n \in Int : conv_numeric(n) = <<Dash>> \o d <=> n = -NumberOf(10, d)
  <1> DEFINE v == NumberOf(10, d)
  <1>1. d \in Seq(Figures) /\ Len(d) >= 1 /\ Len(d) \in Nat
    <2>1. d \in Seq(Figures) /\ Len(d) >= 1
      BY DEF Canonical
    <2> QED  BY <2>1
  <1>2. v \in Nat /\ v >= 1
    <2>1. PICK f : Values(f, d)
      BY <1>1, ValuesFact
    <2>2. Len(d) \in 1 .. Len(d) /\ Len(d) \in 0 .. Len(d)
      BY <1>1
    <2>3. f[Len(d)] >= 1
      BY <2>1, <2>2, CanonicalGrows
    <2> QED  BY <2>1, <2>2, <2>3 DEF Values
  <1> HIDE DEF v
  <1>3. ASSUME NEW n \in Int
        PROVE  (conv_numeric(n) = d <=> n = v) /\ (conv_numeric(n) = <<Dash>> \o d <=> n = -v)
    <2>1. PICK e : /\ e \in Seq(Figures) /\ Len(e) >= 1 /\ NumberOf(10, e) = Absolute(n)
                   /\ (n # 0 => Canonical(e))
                   /\ n < 0 => conv_numeric(n) = <<Dash>> \o e
                   /\ ~(n < 0) => conv_numeric(n) = e
      BY PrintedRow
    <2>2. n # 0 /\ Absolute(n) = v => e = d
      <3> SUFFICES ASSUME n # 0, Absolute(n) = v PROVE e = d
        OBVIOUS
      <3>1. Canonical(e) /\ NumberOf(10, e) = NumberOf(10, d)
        BY <2>1 DEF v
      <3> QED  BY <3>1, SameDigits
    <2>3. e = d => Absolute(n) = v
      BY <2>1 DEF v
    <2>4. e[1] # Dash /\ d[1] # Dash
      BY <1>1, <2>1, DashIsNoFigure
    <2> DEFINE x == <<Dash>> \o e
               y == <<Dash>> \o d
    <2>5. x[1] = Dash /\ y[1] = Dash /\ (x = y => e = d)
      BY <1>1, <2>1, Dashed
    <2>6. e = d => x = y
      BY Zenon
    <2> HIDE DEF x, y
    <2>7. Absolute(n) = IF n < 0 THEN -n ELSE n
      BY DEF Absolute
    <2> DEFINE c == conv_numeric(n)
    <2>8. n < 0 => c = x
      BY <2>1, Zenon DEF x
    <2>9. ~(n < 0) => c = e
      BY <2>1, Zenon
    <2> HIDE DEF c
    <2>10. CASE n < 0
      <3>1. c = x /\ Absolute(n) = -n /\ n # v /\ n # 0
        BY <1>2, <2>7, <2>8, <2>10
      <3>2. c # d
        BY <2>4, <2>5, <3>1
      <3>3. c = y <=> e = d
        BY <2>5, <2>6, <3>1
      <3>4. e = d <=> -n = v
        BY <2>2, <2>3, <3>1
      <3>5. -n = v <=> n = -v
        BY <1>2
      <3> QED  BY <3>1, <3>2, <3>3, <3>4, <3>5 DEF c, y
    <2>11. CASE ~(n < 0)
      <3>1. c = e /\ Absolute(n) = n /\ n # -v
        BY <1>2, <2>7, <2>9, <2>11
      <3>2. c # y
        BY <2>4, <2>5, <3>1
      <3>3. e = d <=> n = v
        <4>1. n = v => n # 0
          BY <1>2
        <4> QED  BY <2>2, <2>3, <3>1, <4>1
      <3> QED  BY <3>1, <3>2, <3>3 DEF c, y
    <2> QED  BY <2>10, <2>11
  <1> QED  BY <1>2, <1>3 DEF v

\* And nothing is printed as no digit at all.
LEMMA PrintedIsMore ==
  ASSUME NEW n \in Int
  PROVE  conv_numeric(n) # <<>> /\ conv_numeric(n) # <<Dash>> \o <<>>
  <1>1. PICK d : /\ d \in Seq(Figures) /\ Len(d) >= 1 /\ NumberOf(10, d) = Absolute(n)
                 /\ (n # 0 => Canonical(d))
                 /\ n < 0 => conv_numeric(n) = <<Dash>> \o d
                 /\ ~(n < 0) => conv_numeric(n) = d
    BY PrintedRow
  <1> DEFINE none == <<>>
             x == <<Dash>> \o d
             y == <<Dash>> \o none
             c == conv_numeric(n)
  <1>2. none \in Seq(Figures) /\ Len(none) = 0 /\ Len(d) \in Nat
    BY <1>1
  <1> HIDE DEF none
  <1>3. Len(x) = Len(d) + 1 /\ x[1] = Dash
    BY <1>1, Dashed
  <1>4. Len(y) = Len(none) + 1 /\ y[1] = Dash
    BY <1>2, Dashed
  <1>5. d[1] # Dash
    BY <1>1, DashIsNoFigure
  <1> HIDE DEF x, y
  <1>6. c = x \/ c = d
    BY <1>1, Zenon DEF x
  <1> HIDE DEF c
  <1>7. c # none
    <2>1. Len(x) >= 1 /\ Len(d) >= 1
      BY <1>1, <1>2, <1>3
    <2> QED  BY <1>2, <1>6, <2>1
  <1>8. c # y
    <2>1. Len(x) # Len(y)
      BY <1>1, <1>2, <1>3, <1>4
    <2>2. x # y
      BY <2>1
    <2>3. d # y
      BY <1>4, <1>5
    <2> QED  BY <1>6, <2>2, <2>3
  <1> QED  BY <1>7, <1>8 DEF c, y, none

-----------------------------------------------------------------------------
(***************************************************************************)
(* The digits in front of a string, and those of them behind the zeros.    *)
(***************************************************************************)
LEMMA Longest ==
  ASSUME NEW n \in Nat, NEW W
  PROVE  LET m == Max({k \in 0 .. n : \A i \in 1 .. k : i \in W})
         IN  m \in 0 .. n /\ (\A i \in 1 .. m : i \in W) /\ (m = n \/ m + 1 \notin W)
  <1> DEFINE T == {k \in 0 .. n : \A i \in 1 .. k : i \in W}
             m == Max(T)
  <1>1. T \subseteq 0 .. n /\ 0 \in T
    OBVIOUS
  <1>2. \E x \in T : \A y \in T : x >= y
    <2> HIDE DEF T
    <2> QED  BY <1>1, Greatest
  <1>3. m \in T /\ \A y \in T : m >= y
    <2> HIDE DEF T
    <2> QED  BY <1>2 DEF Max
  <1> HIDE DEF m
  <1>4. m \in 0 .. n /\ \A i \in 1 .. m : i \in W
    BY <1>3
  <1>5. ASSUME m # n, m + 1 \in W PROVE FALSE
    <2>1. m + 1 \in 0 .. n /\ \A i \in 1 .. m + 1 : i \in 1 .. m \/ i = m + 1
      BY <1>4, <1>5
    <2>2. m + 1 \in T
      BY <1>4, <1>5, <2>1
    <2>3. m >= m + 1
      BY <1>3, <2>2
    <2> QED  BY <1>4, <2>3
  <1> QED  BY <1>4, <1>5 DEF m

LEMMA DigitRun ==
  ASSUME NEW S, NEW s \in Seq(S)
  PROVE  \E e \in 0 .. Len(s) : /\ Span(s, IsDigit) = SubSeq(s, 1, e) /\ \A i \in 1 .. e : IsDigit(s[i])
                                /\ e = Len(s) \/ ~IsDigit(s[e + 1])
  <1> DEFINE n == Len(s)
             W == {i \in 1 .. n : IsDigit(s[i])}
             T == {k \in 0 .. n : \A i \in 1 .. k : i \in W}
             m == Max(T)
  <1>1. n \in Nat
    OBVIOUS
  <1>2. T = {k \in 0 .. n : \A i \in 1 .. k : IsDigit(s[i])}
    BY <1>1
  <1>3. m \in 0 .. n /\ (\A i \in 1 .. m : i \in W) /\ (m = n \/ m + 1 \notin W)
    <2> HIDE DEF W, n
    <2> QED  BY <1>1, Longest
  <1>4. Span(s, IsDigit) = SubSeq(s, 1, m)
    BY <1>2, Zenon DEF Span
  <1> HIDE DEF m
  <1>5. (\A i \in 1 .. m : IsDigit(s[i])) /\ (m = n \/ ~IsDigit(s[m + 1]))
    BY <1>1, <1>3
  <1> QED  BY <1>3, <1>4, <1>5

LEMMA ZeroRun ==
  ASSUME NEW S, NEW s \in Seq(S)
  PROVE  \E e \in 0 .. Len(s) : /\ Behind(s, IsZero) = SubSeq(s, e + 1, Len(s)) /\ \A i \in 1 .. e : IsZero(s[i])
                                /\ e = Len(s) \/ ~IsZero(s[e + 1])
  <1> DEFINE n == Len(s)
             W == {i \in 1 .. n : IsZero(s[i])}
             T == {k \in 0 .. n : \A i \in 1 .. k : i \in W}
             m == Max(T)
  <1>1. n \in Nat
    OBVIOUS
  <1>2. T = {k \in 0 .. n : \A i \in 1 .. k : IsZero(s[i])}
    BY <1>1
  <1>3. m \in 0 .. n /\ (\A i \in 1 .. m : i \in W) /\ (m = n \/ m + 1 \notin W)
    <2> HIDE DEF W, n
    <2> QED  BY <1>1, Longest
  <1>4. Behind(s, IsZero) = SubSeq(s, Len(SubSeq(s, 1, m)) + 1, n)
    BY <1>2, Zenon DEF Behind, Span
  <1> HIDE DEF m
  <1>5. (\A i \in 1 .. m : IsZero(s[i])) /\ (m = n \/ ~IsZero(s[m + 1]))
    BY <1>1, <1>3
  <1>6. Len(SubSeq(s, 1, m)) = m
    BY <1>1, <1>3
  <1> QED  BY <1>3, <1>4, <1>5, <1>6

\* Zeros in front do not count.
LEMMA ZerosDoNotCount ==
  ASSUME NEW x \in Seq(Figures), NEW m \in 0 .. Len(x), \A i \in 1 .. m : ValueOf(x[i]) = 0
  PROVE  NumberOf(10, x) = NumberOf(10, SubSeq(x, m + 1, Len(x)))
  <1> DEFINE n == Len(x)
             y == SubSeq(x, m + 1, Len(x))
             k == n - m
  <1>1. n \in Nat /\ m \in Nat /\ k \in Nat /\ m + k = n
    OBVIOUS
  <1>2. y \in Seq(Figures) /\ Len(y) = k /\ \A i \in 1 .. k : y[i] = x[m + i]
    <2>1. Len(x) \in m .. Len(x)
      OBVIOUS
    <2> HIDE DEF Figures
    <2> QED  BY <2>1, SubFact
  <1> HIDE DEF y, n, k
  <1>3. PICK f : Values(f, x)
    BY ValuesFact
  <1>4. PICK g : Values(g, y)
    BY <1>2, ValuesFact
  <1>5. f[0] = 0 /\ (\A i \in 1 .. n : f[i] = 10 * f[i - 1] + ValueOf(x[i])) /\ NumberOf(10, x) = f[n]
    BY <1>3 DEF Values, n
  <1>6. g[0] = 0 /\ (\A i \in 1 .. k : g[i] = 10 * g[i - 1] + ValueOf(y[i])) /\ NumberOf(10, y) = g[k]
    BY <1>2, <1>4 DEF Values
  <1>7. f[m] = 0
    <2> DEFINE D == {i \in Nat : f[i] = 0}
    <2>1. 0 \in D
      BY <1>5
    <2>2. ASSUME NEW i \in 1 .. m, i - 1 \in D PROVE i \in D
      <3>1. i \in 1 .. n /\ i \in Nat /\ ValueOf(x[i]) = 0
        BY <1>1
      <3>2. f[i] = 0
        BY <1>5, <2>2, <3>1
      <3> QED  BY <3>1, <3>2
    <2>3. m \in D
      <3>1. 0 .. m \subseteq D
        <4> HIDE DEF D
        <4> QED  BY <1>1, <2>1, <2>2, BoundedInduction
      <3>2. m \in 0 .. m
        BY <1>1
      <3> HIDE DEF D
      <3> QED  BY <3>1, <3>2
    <2> QED  BY <2>3
  <1>8. f[m + k] = g[k]
    <2> DEFINE D == {i \in Nat : f[m + i] = g[i]}
    <2>1. 0 \in D
      <3>1. m + 0 = m
        BY <1>1
      <3> QED  BY <1>6, <1>7, <3>1
    <2>2. ASSUME NEW i \in 1 .. k, i - 1 \in D PROVE i \in D
      <3>1. i \in Nat /\ m + i \in 1 .. n /\ (m + i) - 1 = m + (i - 1)
        BY <1>1
      <3>2. f[m + i] = 10 * f[m + (i - 1)] + ValueOf(x[m + i])
        BY <1>5, <3>1
      <3>3. g[i] = 10 * g[i - 1] + ValueOf(y[i])
        BY <1>6
      <3>4. f[m + (i - 1)] = g[i - 1] /\ y[i] = x[m + i]
        BY <1>2, <2>2
      <3>5. f[m + i] = g[i]
        BY <3>2, <3>3, <3>4
      <3> QED  BY <3>1, <3>5
    <2>3. k \in D
      <3>1. 0 .. k \subseteq D
        <4> HIDE DEF D
        <4> QED  BY <1>1, <2>1, <2>2, BoundedInduction
      <3>2. k \in 0 .. k
        BY <1>1
      <3> HIDE DEF D
      <3> QED  BY <3>1, <3>2
    <2> QED  BY <2>3
  <1> QED  BY <1>1, <1>5, <1>6, <1>8 DEF y, n

LEMMA ZeroFact ==
  ASSUME NEW c
  PROVE  /\ IsZero(c) => IsDigit(c) /\ ValueOf(c) = 0
         /\ IsDigit(c) => c \in Figures
         /\ IsDigit(c) /\ ~IsZero(c) => ValueOf(c) # 0
  <1>1. IsZero(c) => IsDigit(c) /\ ValueOf(c) = 0
    <2>1. Numeral[0 + 1] = "0" /\ 0 \in 0 .. 9
      BY DEF Numeral
    <2> QED  BY <2>1, NumeralFact DEF IsZero
  <1>2. ASSUME IsDigit(c) PROVE c \in Figures /\ (~IsZero(c) => ValueOf(c) # 0)
    <2>1. PICK i \in 1 .. 10 : Numeral[i] = c
      BY <1>2 DEF IsDigit
    <2>2. c \in Figures
      BY <2>1 DEF Figures
    <2>3. i - 1 \in 0 .. 9 /\ (i - 1) + 1 = i
      OBVIOUS
    <2>4. ValueOf(c) = i - 1
      BY <2>1, <2>3, NumeralFact
    <2>5. ValueOf(c) = 0 => c = "0"
      <3>1. Numeral[1] = "0"
        BY DEF Numeral
      <3>2. ValueOf(c) = 0 => i = 1
        BY <2>4
      <3> QED  BY <2>1, <3>1, <3>2
    <2> QED  BY <2>2, <2>5 DEF IsZero
  <1> QED  BY <1>1, <1>2

\* The digits r begins with, all of them and those that count.
Digits(r) == Span(r, IsDigit)
Significant(r) == Span(Behind(r, IsZero), IsDigit)

LEMMA DigitsCount ==
  ASSUME NEW S, NEW r \in Seq(S)
  PROVE  /\ NumberOf(10, Digits(r)) = NumberOf(10, Significant(r))
         /\ Significant(r) = <<>> \/ Canonical(Significant(r))
         /\ Digits(r) = <<>> => Significant(r) = <<>>
         /\ NumberOf(10, Significant(r)) \in Nat
         /\ Significant(r) = <<>> => NumberOf(10, Significant(r)) = 0
  <1> DEFINE L == Len(r)
  <1>1. PICK e \in 0 .. Len(r) : /\ Span(r, IsDigit) = SubSeq(r, 1, e) /\ \A i \in 1 .. e : IsDigit(r[i])
                                 /\ e = Len(r) \/ ~IsDigit(r[e + 1])
    BY DigitRun
  <1>2. PICK m \in 0 .. Len(r) : /\ Behind(r, IsZero) = SubSeq(r, m + 1, Len(r)) /\ \A i \in 1 .. m : IsZero(r[i])
                                 /\ m = Len(r) \/ ~IsZero(r[m + 1])
    BY ZeroRun
  <1> DEFINE z == SubSeq(r, m + 1, Len(r))
             x == SubSeq(r, 1, e)
             k == L - m
  <1>3. L \in Nat /\ e \in Nat /\ m \in Nat /\ e <= L /\ m <= L /\ k \in Nat
    OBVIOUS
  <1>4. z \in Seq(S) /\ Len(z) = k /\ \A i \in 1 .. k : z[i] = r[m + i]
    <2>1. Len(r) \in m .. Len(r)
      BY <1>3
    <2> QED  BY <2>1, SubFact
  <1>5. x \in Seq(S) /\ Len(x) = e /\ \A i \in 1 .. e : x[i] = r[i]
    <2> DEFINE o == 0
    <2>1. o \in 0 .. Len(r) /\ e \in o .. Len(r) /\ o + 1 = 1 /\ e - o = e /\ \A i \in 1 .. e : o + i = i
      BY <1>3
    <2> HIDE DEF o
    <2> QED  BY <2>1, SubFact
  <1>6. m <= e
    <2> SUFFICES ASSUME ~(m <= e) PROVE FALSE
      OBVIOUS
    <2>1. e + 1 \in 1 .. m /\ e # Len(r)
      BY <1>3
    <2>2. IsZero(r[e + 1]) /\ ~IsDigit(r[e + 1])
      BY <1>1, <1>2, <2>1
    <2> QED  BY <2>2, ZeroFact
  <1> HIDE DEF x, z
  <1>7. PICK j \in 0 .. Len(z) : /\ Span(z, IsDigit) = SubSeq(z, 1, j) /\ \A i \in 1 .. j : IsDigit(z[i])
                                 /\ j = Len(z) \/ ~IsDigit(z[j + 1])
    BY <1>4, DigitRun
  <1>8. j \in 0 .. k /\ j \in Nat /\ (j = k \/ ~IsDigit(z[j + 1])) /\ k = Len(z)
    BY <1>4, <1>7
  <1>9. j = e - m
    <2>1. ~(j < e - m)
      <3> SUFFICES ASSUME j < e - m PROVE FALSE
        OBVIOUS
      <3>1. j + 1 \in 1 .. k /\ j # k /\ m + (j + 1) \in 1 .. e
        BY <1>3, <1>6, <1>8
      <3>2. z[j + 1] = r[m + (j + 1)]
        BY <1>4, <3>1
      <3> QED  BY <1>1, <1>8, <3>1, <3>2
    <2>2. ~(e - m < j)
      <3> SUFFICES ASSUME e - m < j PROVE FALSE
        OBVIOUS
      <3>1. (e - m) + 1 \in 1 .. j /\ (e - m) + 1 \in 1 .. k /\ m + ((e - m) + 1) = e + 1 /\ e # Len(r)
        BY <1>3, <1>6, <1>8
      <3>2. z[(e - m) + 1] = r[m + ((e - m) + 1)]
        BY <1>4, <3>1
      <3> QED  BY <1>1, <1>7, <3>1, <3>2
    <2> QED  BY <1>3, <1>8, <2>1, <2>2
  <1> DEFINE d == SubSeq(z, 1, j)
  <1>10. d \in Seq(S) /\ Len(d) = j /\ \A i \in 1 .. j : d[i] = z[i]
    <2> DEFINE o == 0
    <2>1. o \in 0 .. Len(z) /\ j \in o .. Len(z) /\ o + 1 = 1 /\ j - o = j /\ \A i \in 1 .. j : o + i = i
      BY <1>8
    <2> HIDE DEF o
    <2> QED  BY <1>4, <2>1, SubFact
  <1> HIDE DEF d
  <1>11. x \in Seq(Figures)
    <2>1. \A i \in 1 .. Len(x) : x[i] \in Figures
      BY <1>1, <1>5, ZeroFact
    <2> HIDE DEF Figures
    <2> QED  BY <1>5, <2>1
  <1>12. d \in Seq(Figures)
    <2>1. \A i \in 1 .. Len(d) : d[i] \in Figures
      <3>1. \A i \in 1 .. j : IsDigit(z[i])
        BY <1>7
      <3> QED  BY <1>10, <3>1, ZeroFact
    <2> HIDE DEF Figures
    <2> QED  BY <1>10, <2>1
  <1>13. NumberOf(10, x) = NumberOf(10, SubSeq(x, m + 1, Len(x)))
    <2>1. m \in 0 .. Len(x)
      BY <1>3, <1>5, <1>6
    <2>2. \A i \in 1 .. m : ValueOf(x[i]) = 0
      <3>1. \A i \in 1 .. m : i \in 1 .. e
        BY <1>3, <1>6
      <3> QED  BY <1>2, <1>5, <3>1, ZeroFact
    <2> QED  BY <1>11, <2>1, <2>2, ZerosDoNotCount
  <1>14. SubSeq(x, m + 1, Len(x)) = d
    <2> DEFINE y == SubSeq(x, m + 1, Len(x))
    <2>1. y \in Seq(S) /\ Len(y) = e - m /\ \A i \in 1 .. e - m : y[i] = x[m + i]
      <3>1. m \in 0 .. Len(x) /\ Len(x) \in m .. Len(x) /\ Len(x) - m = e - m
        BY <1>3, <1>5, <1>6
      <3> QED  BY <1>5, <3>1, SubFact
    <2> HIDE DEF y
    <2>2. ASSUME NEW i \in 1 .. e - m PROVE y[i] = d[i]
      <3>1. i \in 1 .. j /\ i \in 1 .. k /\ m + i \in 1 .. e
        BY <1>3, <1>6, <1>8, <1>9
      <3> QED  BY <1>4, <1>5, <1>10, <2>1, <3>1
    <2>3. Len(y) = Len(d) /\ \A i \in 1 .. Len(y) : y[i] = d[i]
      BY <1>9, <1>10, <2>1, <2>2
    <2>4. y = d
      BY <1>10, <2>1, <2>3, SeqEqual
    <2> QED  BY <2>4 DEF y
  <1>15. Digits(r) = x /\ Significant(r) = d
    BY <1>1, <1>2, <1>7 DEF Digits, Significant, x, z, d
  <1>16. d = <<>> \/ Canonical(d)
    <2> SUFFICES ASSUME d # <<>> PROVE Canonical(d)
      OBVIOUS
    <2>1. j >= 1
      BY <1>8, <1>10
    <2>2. 1 \in 1 .. j /\ 1 \in 1 .. k /\ m # Len(r)
      BY <1>3, <1>8, <2>1
    <2>3. d[1] = r[m + 1] /\ d[1] = z[1]
      BY <1>4, <1>10, <2>2
    <2>4. IsDigit(d[1]) /\ ~IsZero(d[1])
      BY <1>2, <1>7, <2>2, <2>3
    <2> QED  BY <1>10, <1>12, <2>1, <2>4, ZeroFact DEF Canonical
  <1>17. x = <<>> => d = <<>>
    <2> SUFFICES ASSUME x = <<>> PROVE d = <<>>
      OBVIOUS
    <2>1. e = 0
      BY <1>5
    <2>2. Len(d) = 0
      BY <1>3, <1>6, <1>9, <1>10, <2>1
    <2> QED  BY <1>10, <2>2, EmptySeq
  <1>18. NumberOf(10, d) \in Nat /\ (d = <<>> => NumberOf(10, d) = 0)
    <2>1. PICK f : Values(f, d)
      BY <1>12, ValuesFact
    <2>2. Len(d) \in 0 .. Len(d)
      BY <1>10
    <2>3. NumberOf(10, d) = f[Len(d)] /\ f[Len(d)] \in Nat /\ f[0] = 0
      BY <2>1, <2>2 DEF Values
    <2>4. d = <<>> => Len(d) = 0
      OBVIOUS
    <2> QED  BY <2>3, <2>4
  <1> QED  BY <1>13, <1>14, <1>15, <1>16, <1>17, <1>18

-----------------------------------------------------------------------------
\* Whether a number begins with a minus, and what is behind its sign.
Minus(t) == t # <<>> /\ Head(t) = Dash
Unsigned(t) == IF t # <<>> /\ IsSign(Head(t)) THEN Tail(t) ELSE t

LEMMA ShownFact ==
  ASSUME NEW S, NEW s \in Seq(S), NEW T, NEW t, t = Behind(s, IsBlank)
  PROVE  /\ t \in Seq(S) /\ Unsigned(t) \in Seq(S)
         /\ NumbersOf(T, s) =
              {n \in Lowest(T) .. Highest(T) :
                 conv_numeric(n) = (IF Minus(t) THEN <<Dash>> ELSE <<>>) \o Significant(Unsigned(t))}
  <1> DEFINE signs == IF t # <<>> /\ IsSign(Head(t)) THEN <<Head(t)>> ELSE <<>>
             rest  == SubSeq(t, Len(signs) + 1, Len(t))
             lead  == IF signs = <<"-">> THEN signs ELSE <<>>
  <1>1. t \in Seq(S)
    BY BlanksFact
  <1>2. Unsigned(t) \in Seq(S) /\ rest = Unsigned(t)
    <2>1. CASE t # <<>> /\ IsSign(Head(t))
      <3>1. Len(signs) = 1 /\ Unsigned(t) = Tail(t)
        BY <2>1 DEF Unsigned
      <3>2. Tail(t) \in Seq(S) /\ Tail(t) = SubSeq(t, 2, Len(t))
        BY <1>1, <2>1, HeadTailProperties, TailIsSubSeq
      <3> HIDE DEF signs
      <3> QED  BY <3>1, <3>2
    <2>2. CASE ~(t # <<>> /\ IsSign(Head(t)))
      <3>1. Len(signs) = 0 /\ Unsigned(t) = t
        BY <2>2 DEF Unsigned
      <3>2. SubSeq(t, 1, Len(t)) = t
        BY <1>1, SubSeqFull
      <3> HIDE DEF signs
      <3> QED  BY <1>1, <3>1, <3>2
    <2> QED  BY <2>1, <2>2
  <1>3. lead = IF Minus(t) THEN <<Dash>> ELSE <<>>
    <2>1. CASE Minus(t)
      <3>1. t # <<>> /\ IsSign(Head(t)) /\ Head(t) = "-"
        BY <2>1, MinusFact, Zenon DEF Minus, Dash
      <3> QED  BY <2>1, <3>1 DEF Dash
    <2>2. CASE ~Minus(t)
      <3>1. signs = <<>> \/ (signs = <<Head(t)>> /\ Head(t) # "-")
        BY <2>2, Zenon DEF Minus, Dash
      <3> HIDE DEF signs
      <3>2. signs # <<"-">>
        BY <3>1
      <3> QED  BY <2>2, <3>2
    <2> QED  BY <2>1, <2>2
  <1>4. NumbersOf(T, s) = {n \in Lowest(T) .. Highest(T) :
                             conv_numeric(n) = lead \o Span(Behind(rest, IsZero), IsDigit)}
    BY Zenon DEF NumbersOf
  <1>5. Span(Behind(rest, IsZero), IsDigit) = Significant(Unsigned(t))
    BY <1>2, Zenon DEF Significant
  <1> HIDE DEF lead, rest
  <1> QED  BY <1>1, <1>2, <1>3, <1>4, <1>5, Zenon

LEMMA ReadingFact ==
  ASSUME NEW s, NEW T, NEW t, t = Behind(s, IsBlank), NEW x, x = Digits(Unsigned(t)),
         NEW v, v = NumberOf(10, x), NEW w, w = IF Minus(t) THEN -v ELSE v
  PROVE  convto_num(T, s) =
           IF x # <<>> /\ (IF T.signed THEN w >= Lowest(T) /\ w <= Highest(T) ELSE v <= Highest(T))
           THEN IF T.signed THEN w ELSE w % 2 ^ T.bits ELSE 0
  BY Zenon DEF convto_num, Extract, Minus, Unsigned, Digits, Dash

\* w is the number that s begins with, and it alone is printed as the digits that count.
Tells(s, w) ==
  LET t == Behind(s, IsBlank)
      d == Significant(Unsigned(t))
  IN  /\ w \in Int /\ (Minus(t) \/ w >= 0) /\ (d = <<>> => w = 0)
      /\ \A n \in Int : conv_numeric(n) = (IF Minus(t) THEN <<Dash>> ELSE <<>>) \o d <=> d # <<>> /\ n = w

LEMMA TellsFact ==
  ASSUME NEW S, NEW s \in Seq(S), NEW t, t = Behind(s, IsBlank),
         NEW v, v = NumberOf(10, Digits(Unsigned(t))), NEW w, w = IF Minus(t) THEN -v ELSE v
  PROVE  /\ Tells(s, w) /\ v \in Nat
         /\ Digits(Unsigned(t)) = <<>> => Significant(Unsigned(t)) = <<>>
  <1> DEFINE r == Unsigned(t)
             d == Significant(r)
             none == <<>>
  <1>1. r \in Seq(S)
    BY ShownFact
  <1>2. /\ v = NumberOf(10, d) /\ (d = none \/ Canonical(d)) /\ v \in Nat /\ (d = none => v = 0)
        /\ Digits(r) = none => d = none
    <2> HIDE DEF r
    <2> QED  BY <1>1, DigitsCount DEF r
  <1> DEFINE m == Minus(t)
             shown == (IF m THEN <<Dash>> ELSE none) \o d
  <1> HIDE DEF r, d, m
  <1>3. /\ w \in Int /\ (m \/ w >= 0) /\ (d = none => w = 0)
        /\ (m => w = -v) /\ (~m => w = v)
    <2>1. (m => w = -v) /\ (~m => w = v)
      BY Zenon DEF m
    <2> HIDE DEF none
    <2> QED  BY <1>2, <2>1
  <1>4. ASSUME NEW n \in Int PROVE conv_numeric(n) = shown <=> d # none /\ n = w
    <2> DEFINE c == conv_numeric(n)
    <2>1. d \in Seq(Figures)
      <3>1. none \in Seq(Figures)
        OBVIOUS
      <3> HIDE DEF none
      <3> QED  BY <1>2, <3>1 DEF Canonical
    <2>2. none \o d = d
      <3> HIDE DEF Figures
      <3> QED  BY <2>1
    <2>3. (m => shown = <<Dash>> \o d) /\ (~m => shown = d)
      <3>1. (m => shown = <<Dash>> \o d) /\ (~m => shown = none \o d)
        BY Zenon
      <3> HIDE DEF shown, none
      <3> QED  BY <2>2, <3>1, Zenon
    <2> HIDE DEF shown
    <2>4. CASE d = none
      <3>1. c # none /\ c # <<Dash>> \o none
        BY PrintedIsMore
      <3> HIDE DEF c, none
      <3> QED  BY <2>3, <2>4, <3>1, Zenon DEF c
    <2>5. CASE d # none
      <3>1. Canonical(d)
        BY <1>2, <2>5
      <3>2. (c = d <=> n = v) /\ (c = <<Dash>> \o d <=> n = -v)
        BY <1>2, <3>1, PrintedIs
      <3> HIDE DEF c, none
      <3> QED  BY <1>3, <2>3, <2>5, <3>2, Zenon DEF c
    <2> QED  BY <2>4, <2>5
  <1> QED  BY <1>2, <1>3, <1>4, Zenon DEF Tells, r, d, m

LEMMA NumbersAt ==
  ASSUME NEW S, NEW s \in Seq(S), NEW T, NEW w, Tells(s, w),
         NEW lo \in Int, NEW hi \in Int, lo = Lowest(T), hi = Highest(T)
  PROVE  LET one == NumbersOf(T, s)
         IN  (IF one = {} THEN 0 ELSE CHOOSE n \in one : TRUE) = IF w >= lo /\ w <= hi THEN w ELSE 0
  <1> DEFINE t == Behind(s, IsBlank)
             d == Significant(Unsigned(t))
             shown == (IF Minus(t) THEN <<Dash>> ELSE <<>>) \o d
             none == d = <<>>
             one == NumbersOf(T, s)
  <1>1. one = {n \in lo .. hi : conv_numeric(n) = shown}
    <2>1. t = Behind(s, IsBlank)
      OBVIOUS
    <2> HIDE DEF t
    <2>2. NumbersOf(T, s) =
            {n \in Lowest(T) .. Highest(T) :
               conv_numeric(n) = (IF Minus(t) THEN <<Dash>> ELSE <<>>) \o Significant(Unsigned(t))}
      BY <2>1, ShownFact
    <2> QED  BY <2>2, Zenon
  <1>2. w \in Int /\ (none => w = 0) /\ \A n \in Int : conv_numeric(n) = shown <=> ~none /\ n = w
    BY Zenon DEF Tells
  <1> HIDE DEF shown, none, one, t, d
  <1>3. one = {n \in lo .. hi : ~none /\ n = w}
    <2>1. \A n \in lo .. hi : n \in Int
      OBVIOUS
    <2> QED  BY <1>1, <1>2, <2>1
  <1>4. CASE ~none /\ w >= lo /\ w <= hi
    <2>1. one = {w}
      BY <1>2, <1>3, <1>4
    <2>2. one # {} /\ (CHOOSE n \in one : TRUE) = w
      BY <2>1
    <2> QED  BY <1>4, <2>2 DEF one
  <1>5. CASE ~(~none /\ w >= lo /\ w <= hi)
    <2>1. one = {}
      BY <1>2, <1>3, <1>5
    <2>2. (IF w >= lo /\ w <= hi THEN w ELSE 0) = 0
      BY <1>2, <1>5
    <2> QED  BY <2>1, <2>2 DEF one
  <1> QED  BY <1>4, <1>5

\* A type with a sign holds the numbers from lo to hi.
Within(T, lo, hi) == T.signed = TRUE /\ lo \in Int /\ hi \in Int /\ lo = Lowest(T) /\ hi = Highest(T)

LEMMA SignedReads ==
  ASSUME NEW S, NEW s \in Seq(S), NEW T, NEW lo, NEW hi, Within(T, lo, hi), NEW w, NEW t, t = Behind(s, IsBlank), NEW v, v = NumberOf(10, Digits(Unsigned(t))),
         w = IF Minus(t) THEN -v ELSE v
  PROVE  convto_num(T, s) = IF w >= lo /\ w <= hi THEN w ELSE 0
  <1>0. T.signed = TRUE /\ lo \in Int /\ hi \in Int /\ lo = Lowest(T) /\ hi = Highest(T)
    BY DEF Within
  <1> DEFINE x == Digits(Unsigned(t))
             none == x = <<>>
  <1>1. Tells(s, w) /\ (x = <<>> => Significant(Unsigned(t)) = <<>>)
    BY TellsFact
  <1>2. w \in Int /\ (none => w = 0)
    BY <1>1, Zenon DEF Tells
  <1>3. convto_num(T, s) = IF ~none /\ w >= lo /\ w <= hi THEN w ELSE 0
    <2>1. convto_num(T, s) =
            IF x # <<>> /\ (IF T.signed THEN w >= Lowest(T) /\ w <= Highest(T) ELSE v <= Highest(T))
            THEN IF T.signed THEN w ELSE w % 2 ^ T.bits ELSE 0
      <3>1. x = Digits(Unsigned(t)) /\ v = NumberOf(10, x)
        BY Zenon
      <3> HIDE DEF x
      <3> QED  BY <3>1, ReadingFact
    <2> HIDE DEF x
    <2>2. (IF T.signed THEN w >= Lowest(T) /\ w <= Highest(T) ELSE v <= Highest(T)) <=> w >= lo /\ w <= hi
      BY <1>0, Zenon
    <2>3. (IF T.signed THEN w ELSE w % 2 ^ T.bits) = w
      BY <1>0, Zenon
    <2> QED  BY <2>1, <2>2, <2>3, Zenon
  <1> HIDE DEF none
  <1> QED  BY <1>2, <1>3, <1>0

LEMMA UnsignedReads ==
  ASSUME NEW S, NEW s \in Seq(S), NEW T, T.signed = FALSE,
         NEW R \in Nat \ {0}, R = 2 ^ T.bits, Highest(T) = R - 1,
         NEW t, t = Behind(s, IsBlank), ~Minus(t), NEW v, v = NumberOf(10, Digits(Unsigned(t)))
  PROVE  v \in Nat /\ convto_num(T, s) = IF v <= R - 1 THEN v ELSE 0
  <1> DEFINE x == Digits(Unsigned(t))
             none == x = <<>>
             w == IF Minus(t) THEN -v ELSE v
  <1>1. w = v /\ w = IF Minus(t) THEN -v ELSE v
    BY Zenon
  <1> HIDE DEF w
  <1>2. Tells(s, w) /\ v \in Nat /\ (x = <<>> => Significant(Unsigned(t)) = <<>>)
    BY <1>1, TellsFact
  <1>3. none => v = 0
    BY <1>1, <1>2, Zenon DEF Tells
  <1>4. convto_num(T, s) = IF ~none /\ v <= R - 1 THEN v % R ELSE 0
    <2>1. convto_num(T, s) =
            IF x # <<>> /\ (IF T.signed THEN w >= Lowest(T) /\ w <= Highest(T) ELSE v <= Highest(T))
            THEN IF T.signed THEN w ELSE w % 2 ^ T.bits ELSE 0
      BY <1>1, ReadingFact, Zenon
    <2> HIDE DEF x
    <2>2. (IF T.signed THEN w >= Lowest(T) /\ w <= Highest(T) ELSE v <= Highest(T)) <=> v <= R - 1
      BY Zenon
    <2>3. (IF T.signed THEN w ELSE w % 2 ^ T.bits) = v % R
      BY <1>1, Zenon
    <2> QED  BY <2>1, <2>2, <2>3, Zenon
  <1>5. v <= R - 1 => v % R = v
    <2> SUFFICES ASSUME v <= R - 1 PROVE v % R = v
      OBVIOUS
    <2> DEFINE z == 0
    <2>1. z \in Nat /\ v \in 0 .. R - 1 /\ v = R * z + v
      BY <1>2
    <2> HIDE DEF z
    <2> QED  BY <2>1, DivModUnique, Zenon
  <1> HIDE DEF none
  <1> QED  BY <1>2, <1>3, <1>4, <1>5

\* The types and those of twice the width.
LEMMA WidthsFact ==
  /\ Int8.signed = TRUE /\ Lowest(Int8) = -Half /\ Highest(Int8) = Half - 1
  /\ Wider(Int8).signed = TRUE /\ Lowest(Wider(Int8)) = -Far /\ Highest(Wider(Int8)) = Far - 1
  /\ UInt8.signed = FALSE /\ Whole = 2 ^ UInt8.bits /\ Lowest(UInt8) = 0 /\ Highest(UInt8) = Whole - 1
  /\ Wider(UInt8).signed = FALSE /\ Wide = 2 ^ Wider(UInt8).bits /\ Highest(Wider(UInt8)) = Wide - 1
  <1>1. Int8.signed = TRUE /\ Int8.bits = Bits /\ UInt8.signed = FALSE /\ UInt8.bits = Bits
    BY DEF Int8, UInt8
  <1>2. /\ Wider(Int8).signed = TRUE /\ Wider(Int8).bits = 2 * Bits
        /\ Wider(UInt8).signed = FALSE /\ Wider(UInt8).bits = 2 * Bits
    BY DEF Int8, UInt8, Wider
  <1>3. Lowest(Int8) = -Half /\ Highest(Int8) = Half - 1
    BY <1>1, Zenon DEF Lowest, Highest, Half
  <1>4. Lowest(Wider(Int8)) = -Far /\ Highest(Wider(Int8)) = Far - 1
    BY <1>2, Zenon DEF Lowest, Highest, Far
  <1>5. Lowest(UInt8) = 0 /\ Highest(UInt8) = Whole - 1 /\ Whole = 2 ^ UInt8.bits
    BY <1>1, Zenon DEF Lowest, Highest, Whole
  <1>6. Highest(Wider(UInt8)) = Wide - 1 /\ Wide = 2 ^ Wider(UInt8).bits
    BY <1>2, Zenon DEF Highest, Wide
  <1> QED  BY <1>1, <1>2, <1>3, <1>4, <1>5, <1>6

LEMMA ReadsKeep == Sources => ReadsWhatFits
  <1> SUFFICES ASSUME Sources, how = "string" PROVE ReadsWhatFits
    BY Zenon DEF ReadsWhatFits
  <1> DEFINE s == source
             t == Behind(s, IsBlank)
             v == NumberOf(10, Digits(Unsigned(t)))
             w == IF Minus(t) THEN -v ELSE v
             A == convto_num(Int8, s)
             B == convto_num(Wider(Int8), s)
             C == convto_num(UInt8, s)
             D == convto_num(Wider(UInt8), s)
  <1>1. s \in Seq(Symbols)
    BY DEF Sources
  <1>2. Tells(s, w) /\ v \in Nat
    BY <1>1, TellsFact
  <1>3. w \in Int
    BY <1>2, Zenon DEF Tells
  <1>4. /\ Half \in Nat \ {0} /\ Whole \in Nat \ {0} /\ Far \in Nat \ {0} /\ Wide \in Nat \ {0}
        /\ Half <= Far /\ Whole <= Wide
    BY PowersFact
  <1>5. t = Behind(s, IsBlank) /\ v = NumberOf(10, Digits(Unsigned(t))) /\ w = IF Minus(t) THEN -v ELSE v
    BY Zenon
  <1> DEFINE Yields(T, lo, hi) == convto_num(T, s) = IF w >= lo /\ w <= hi THEN w ELSE 0
             Names(T, lo, hi) ==
               (IF NumbersOf(T, s) = {} THEN 0 ELSE CHOOSE n \in NumbersOf(T, s) : TRUE)
                 = IF w >= lo /\ w <= hi THEN w ELSE 0
  <1>6. Within(Int8, -Half, Half - 1) /\ Within(Wider(Int8), -Far, Far - 1)
    <2>1. -Half \in Int /\ Half - 1 \in Int /\ -Far \in Int /\ Far - 1 \in Int
      BY <1>4
    <2> QED  BY <2>1, WidthsFact, Zenon DEF Within
  <1> HIDE DEF s, t, v, w
  <1>7. ASSUME NEW T, NEW lo, NEW hi, Within(T, lo, hi) PROVE Yields(T, lo, hi) /\ Names(T, lo, hi)
    <2>1. lo \in Int /\ hi \in Int /\ lo = Lowest(T) /\ hi = Highest(T)
      BY <1>7 DEF Within
    <2>2. Yields(T, lo, hi)
      BY <1>1, <1>5, <1>7, SignedReads
    <2>3. Names(T, lo, hi)
      <3>1. Tells(s, w) /\ w \in Int
        BY <1>2, <1>3
      <3> QED  BY <1>1, <2>1, <3>1, NumbersAt
    <2> QED  BY <2>2, <2>3
  <1> HIDE DEF Yields, Names
  <1>8. Yields(Int8, -Half, Half - 1) /\ Yields(Wider(Int8), -Far, Far - 1) /\ Names(Int8, -Half, Half - 1)
    BY <1>6, <1>7, Zenon
  <1>9. convto_num_char(Int8, s) = A
    <2>1. convto_num_char(Int8, s) = IF B >= -Half /\ B <= Half - 1 THEN B ELSE 0
      BY WidthsFact, Zenon DEF convto_num_char
    <2>2. /\ A = IF w >= -Half /\ w <= Half - 1 THEN w ELSE 0
          /\ B = IF w >= -Far /\ w <= Far - 1 THEN w ELSE 0
      BY <1>8, Zenon DEF Yields
    <2> HIDE DEF A, B
    <2> QED  BY <1>3, <1>4, <2>1, <2>2
  <1>10. ASSUME \A i \in DOMAIN source : source[i] # "-"
         PROVE  convto_num_char(UInt8, s) = C
    <2> DEFINE S == Symbols \ {Dash}
    <2>1. s \in Seq(S)
      <3>1. \A i \in 1 .. Len(s) : s[i] # Dash
        <4>1. DOMAIN s = 1 .. Len(s)
          BY <1>1
        <4> QED  BY <1>10, <4>1, Zenon DEF s, Dash
      <3>2. \A i \in 1 .. Len(s) : s[i] \in S
        BY <1>1, <3>1
      <3> HIDE DEF S
      <3> QED  BY <1>1, <3>2
    <2>2. ~Minus(t)
      <3> SUFFICES ASSUME Minus(t) PROVE FALSE
        OBVIOUS
      <3>1. t \in Seq(S)
        <4> HIDE DEF S
        <4> QED  BY <1>5, <2>1, BlanksFact
      <3>2. t # <<>> /\ Head(t) = Dash
        BY Zenon DEF Minus
      <3> HIDE DEF t
      <3>3. Head(t) \in S
        <4> HIDE DEF S
        <4> QED  BY <3>1, <3>2, HeadTailProperties
      <3> QED  BY <3>2, <3>3
    <2>3. C = IF v <= Whole - 1 THEN v ELSE 0
      BY <1>1, <1>4, <1>5, <2>2, WidthsFact, UnsignedReads, Zenon
    <2>4. D = IF v <= Wide - 1 THEN v ELSE 0
      BY <1>1, <1>4, <1>5, <2>2, WidthsFact, UnsignedReads, Zenon
    <2>5. convto_num_char(UInt8, s) = IF D >= 0 /\ D <= Whole - 1 THEN D ELSE 0
      BY WidthsFact, Zenon DEF convto_num_char
    <2> HIDE DEF C, D
    <2> QED  BY <1>2, <1>4, <2>3, <2>4, <2>5
  <1>11. A = IF NumbersOf(Int8, s) = {} THEN 0 ELSE CHOOSE n \in NumbersOf(Int8, s) : TRUE
    BY <1>8, Zenon DEF Yields, Names
  <1> QED  BY <1>9, <1>10, <1>11, Zenon DEF ReadsWhatFits, s

(***************************************************************************)
(* convto_num gives the one number of the type whose digits a string       *)
(* begins with, 0 when there is none or none that fits, and the detours of *)
(* the specialisations for char change nothing, for every string and every *)
(* width.                                                                  *)
(***************************************************************************)
THEOREM ReadsTheNumber == TextSpec => []ReadsWhatFits
  <1>1. TextSpec => []Sources
    BY SourcesInit, SourcesNext, PTL DEF TextSpec
  <1> QED  BY <1>1, ReadsKeep, PTL

=============================================================================
