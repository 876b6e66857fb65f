------------------------------ MODULE Induction -----------------------------
(***************************************************************************)
(* What the other proofs use of the natural numbers: induction, with sets  *)
(* and functions in the place of predicates and operators, and division.   *)
(***************************************************************************)
EXTENDS Sequences, Integers, WellFoundedInduction, TLAPS

\* A set of numbers that is not empty has a least element.
LEMMA LeastNumber ==
  ASSUME NEW T, T \subseteq Nat, T # {}
  PROVE  \E x \in T : \A y \in T : x <= y
  <1> DEFINE R == {ss \in Nat \X Nat : ss[1] < ss[2]}
  <1>1. IsWellFoundedOn(R, Nat)
    BY NatLessThanWellFounded DEF OpToRel
  <1> HIDE DEF R
  <1>2. PICK x \in T : \A y \in T : ~(<<y, x>> \in R)
    BY <1>1, WFMin
  <1> USE DEF R
  <1>3. ASSUME NEW y \in T PROVE x <= y
    <2>1. x \in Nat /\ y \in Nat
      OBVIOUS
    <2>2. ~(y < x)
      BY <1>2, <2>1
    <2> QED  BY <2>1, <2>2
  <1> QED  BY <1>3

\* One with an upper bound has a greatest one.
LEMMA Greatest ==
  ASSUME NEW N \in Nat, NEW T, T \subseteq 0 .. N, T # {}
  PROVE  \E x \in T : \A y \in T : x >= y
  <1> DEFINE R == {m \in Nat : \A y \in T : m >= y}
  <1>1. R \subseteq Nat /\ N \in R
    OBVIOUS
  <1>2. PICK x \in R : \A y \in R : x <= y
    <2> HIDE DEF R
    <2> QED  BY <1>1, LeastNumber
  <1>3. x \in Nat /\ \A y \in T : x >= y
    BY <1>2
  <1>4. x \in T
    <2> SUFFICES ASSUME x \notin T PROVE FALSE
      OBVIOUS
    <2>1. \A y \in T : x > y /\ y \in Nat
      BY <1>3
    <2>2. x - 1 \in Nat /\ \A y \in T : x - 1 >= y
      <3>1. PICK z \in T : TRUE
        OBVIOUS
      <3> QED  BY <1>3, <2>1, <3>1
    <2>3. x - 1 \in R
      BY <2>2
    <2> HIDE DEF R
    <2>4. x <= x - 1
      BY <1>2, <2>3
    <2> QED  BY <1>3, <2>4
  <1> QED  BY <1>3, <1>4

\* A set of numbers that has 0, and with a number the next one, has them all.
LEMMA SetInduction ==
  ASSUME NEW S, 0 \in S, \A n \in Nat : n \in S => n + 1 \in S
  PROVE  Nat \subseteq S
  <1> SUFFICES ASSUME NEW m \in Nat \ S PROVE FALSE
    OBVIOUS
  <1>1. PICK x \in Nat \ S : \A y \in Nat \ S : x <= y
    BY LeastNumber
  <1>2. x # 0 /\ x - 1 \in Nat /\ (x - 1) + 1 = x /\ ~(x <= x - 1)
    BY <1>1
  <1>3. x - 1 \in S
    BY <1>1, <1>2
  <1> QED  BY <1>1, <1>2, <1>3

\* The same up to a number.
LEMMA BoundedInduction ==
  ASSUME NEW N \in Nat, NEW S, 0 \in S, \A n \in 1 .. N : n - 1 \in S => n \in S
  PROVE  0 .. N \subseteq S
  <1> DEFINE D == {n \in Nat : n <= N => n \in S}
  <1>1. 0 \in D
    OBVIOUS
  <1>2. ASSUME NEW n \in Nat, n \in D PROVE n + 1 \in D
    <2>1. n + 1 <= N => n + 1 \in 1 .. N /\ (n + 1) - 1 = n
      OBVIOUS
    <2> QED  BY <1>2, <2>1
  <1>3. Nat \subseteq D
    <2> HIDE DEF D
    <2> QED  BY <1>1, <1>2, SetInduction
  <1> QED  BY <1>3

\* And down from a number.
LEMMA DownwardInduction ==
  ASSUME NEW N \in Nat, NEW S, \A p \in 0 .. N : (\A q \in p + 1 .. N : q \in S) => p \in S
  PROVE  0 .. N \subseteq S
  <1> DEFINE D == {m \in Nat : \A p \in 0 .. N : p > N - m => p \in S}
  <1>1. 0 \in D
    <2>1. \A p \in 0 .. N : ~(p > N - 0)
      OBVIOUS
    <2> QED  BY <2>1
  <1>2. ASSUME NEW m \in Nat, m \in D PROVE m + 1 \in D
    <2>1. ASSUME NEW p \in 0 .. N, p > N - (m + 1) PROVE p \in S
      <3>1. \A q \in p + 1 .. N : q \in 0 .. N /\ q > N - m
        BY <2>1
      <3>2. \A q \in p + 1 .. N : q \in S
        BY <1>2, <3>1
      <3> QED  BY <3>2
    <2> QED  BY <2>1
  <1>3. Nat \subseteq D
    <2> HIDE DEF D
    <2> QED  BY <1>1, <1>2, SetInduction
  <1>4. N + 1 \in D /\ \A p \in 0 .. N : p > N - (N + 1)
    <2> HIDE DEF D
    <2> QED  BY <1>3
  <1> QED  BY <1>4

(***************************************************************************)
(* What starts with init and goes on with step, N times: a recursive       *)
(* function over 0 .. N has a value for each number.                       *)
(***************************************************************************)
Computes(f, N, init, step) ==
  f[0] = init /\ \A n \in 1 .. N : f[n] = step[<<n, f[n - 1]>>]

LEMMA Recursion ==
  ASSUME NEW S, NEW init \in S, NEW N \in Nat, NEW step \in [(1 .. N) \X S -> S]
  PROVE  \E f \in [0 .. N -> S] : Computes(f, N, init, step)
  <1> DEFINE D == {m \in Nat : m <= N => \E f \in [0 .. m -> S] : Computes(f, m, init, step)}
  <1>1. 0 \in D
    <2> DEFINE f == [n \in 0 .. 0 |-> init]
    <2>1. f \in [0 .. 0 -> S] /\ Computes(f, 0, init, step)
      BY DEF Computes
    <2> QED  BY <2>1
  <1>2. ASSUME NEW m \in Nat, m \in D PROVE m + 1 \in D
    <2> SUFFICES ASSUME m + 1 <= N
                 PROVE  \E f \in [0 .. m + 1 -> S] : Computes(f, m + 1, init, step)
      OBVIOUS
    <2>1. PICK f \in [0 .. m -> S] : Computes(f, m, init, step)
      BY <1>2
    <2> DEFINE g == [n \in 0 .. m + 1 |-> IF n = m + 1 THEN step[<<m + 1, f[m]>>] ELSE f[n]]
    <2>2. f[m] \in S /\ m + 1 \in 1 .. N
      BY <2>1
    <2>3. step[<<m + 1, f[m]>>] \in S
      BY <2>2
    <2>4. g \in [0 .. m + 1 -> S]
      BY <2>1, <2>3
    <2>5. ASSUME NEW n \in 1 .. m + 1
          PROVE  g[n] = step[<<n, g[n - 1]>>]
      <3>1. n - 1 \in 0 .. m /\ n - 1 # m + 1 /\ n - 1 \in 0 .. m + 1 /\ n \in 0 .. m + 1
        OBVIOUS
      <3>2. g[n - 1] = f[n - 1]
        BY <3>1
      <3>3. CASE n = m + 1
        BY <3>1, <3>2, <3>3
      <3>4. CASE n # m + 1
        <4>1. n \in 1 .. m /\ g[n] = f[n]
          BY <3>1, <3>4
        <4> QED  BY <2>1, <3>2, <4>1 DEF Computes
      <3> QED  BY <3>3, <3>4
    <2>6. g[0] = init
      BY <2>1 DEF Computes
    <2>7. Computes(g, m + 1, init, step)
      <3> HIDE DEF g
      <3> QED  BY <2>5, <2>6 DEF Computes
    <2> HIDE DEF g
    <2> QED  BY <2>4, <2>7
  <1>3. Nat \subseteq D
    <2> HIDE DEF D
    <2> QED  BY <1>1, <1>2, SetInduction
  <1>4. N <= N /\ N \in D
    BY <1>3
  <1> QED  BY <1>4

(***************************************************************************)
(* A cursor that takes one item at a time and goes forward, until it ends: *)
(* g[p] are the items from the position p on.                              *)
(***************************************************************************)
Forward(a, b, T, item, next, ends) ==
  \A p \in a .. b : p \notin ends => item[p] \in T /\ next[p] \in p + 1 .. b

Walks(g, a, b, item, next, ends) ==
  \A p \in a .. b : g[p] = IF p \in ends THEN <<>> ELSE <<item[p]>> \o g[next[p]]

LEMMA Cursor ==
  ASSUME NEW a \in Int, NEW b \in Int, a <= b, NEW T, NEW item, NEW next, NEW ends,
         Forward(a, b, T, item, next, ends)
  PROVE  \E f \in [a .. b -> Seq(T)] : Walks(f, a, b, item, next, ends)
  <1> DEFINE At(f, p) == IF p \in ends THEN <<>> ELSE <<item[p]>> \o f[next[p]]
             Good(f, m) == \A p \in a .. b : p > b - m => f[p] = At(f, p)
             D == {m \in Nat : \E f \in [a .. b -> Seq(T)] : Good(f, m)}
  <1>0. \A p \in a .. b : p \notin ends => item[p] \in T /\ next[p] \in p + 1 .. b
    BY DEF Forward
  <1>1. 0 \in D
    <2> DEFINE f == [p \in a .. b |-> <<>>]
    <2>1. f \in [a .. b -> Seq(T)]
      OBVIOUS
    <2>2. Good(f, 0)
      <3>1. \A p \in a .. b : ~(p > b - 0)
        OBVIOUS
      <3> QED  BY <3>1
    <2> QED  BY <2>1, <2>2
  <1>2. ASSUME NEW m \in Nat, m \in D PROVE m + 1 \in D
    <2>1. PICK f \in [a .. b -> Seq(T)] : Good(f, m)
      BY <1>2
    <2> DEFINE q == b - m
    <2>2. q \in Int /\ q <= b /\ \A p \in a .. b : p > b - (m + 1) <=> p >= q
      OBVIOUS
    <2>3. CASE q < a
      <3>1. \A p \in a .. b : p > b - m
        BY <2>3
      <3>2. Good(f, m + 1)
        BY <2>1, <3>1
      <3> HIDE DEF Good
      <3> QED  BY <3>2
    <2>4. CASE q >= a
      <3> DEFINE g == [f EXCEPT ![q] = At(f, q)]
      <3>1. q \in a .. b
        BY <2>2, <2>4
      <3>2. At(f, q) \in Seq(T)
        <4>1. CASE q \in ends
          BY <4>1
        <4>2. CASE q \notin ends
          <5>1. item[q] \in T /\ next[q] \in a .. b
            BY <1>0, <3>1, <4>2
          <5>2. <<item[q]>> \in Seq(T) /\ f[next[q]] \in Seq(T)
            BY <5>1
          <5> QED  BY <4>2, <5>2
        <4> QED  BY <4>1, <4>2
      <3> HIDE DEF At
      <3>3. g \in [a .. b -> Seq(T)] /\ \A p \in a .. b : g[p] = IF p = q THEN At(f, q) ELSE f[p]
        BY <3>1, <3>2
      <3> HIDE DEF g
      <3>4. ASSUME NEW p \in a .. b, p >= q PROVE At(g, p) = At(f, p)
        <4>1. p \notin ends => next[p] \in a .. b /\ next[p] # q
          BY <1>0, <2>2, <3>4
        <4>2. p \notin ends => g[next[p]] = f[next[p]]
          BY <3>3, <4>1
        <4> QED  BY <4>2 DEF At
      <3>5. ASSUME NEW p \in a .. b, p >= q PROVE g[p] = At(g, p)
        <4>1. CASE p = q
          BY <3>3, <3>4, <3>5, <4>1
        <4>2. CASE p # q
          <5>1. p > b - m
            BY <2>2, <3>5, <4>2
          <5>2. f[p] = At(f, p)
            BY <2>1, <5>1
          <5> QED  BY <3>3, <3>4, <3>5, <4>2, <5>2
        <4> QED  BY <4>1, <4>2
      <3>6. Good(g, m + 1)
        BY <2>2, <3>5
      <3> HIDE DEF Good
      <3> QED  BY <3>3, <3>6
    <2> HIDE DEF D, q
    <2> QED  BY <2>2, <2>3, <2>4
  <1>3. Nat \subseteq D
    <2> HIDE DEF D
    <2> QED  BY <1>1, <1>2, SetInduction
  <1>4. b - a + 1 \in D /\ \A p \in a .. b : p > b - (b - a + 1)
    <2> HIDE DEF D
    <2> QED  BY <1>3
  <1>5. PICK f \in [a .. b -> Seq(T)] : Good(f, b - a + 1)
    BY <1>4
  <1> QED  BY <1>4, <1>5 DEF Walks

\* Whatever goes on like such a cursor gives its items.
LEMMA CursorType ==
  ASSUME NEW a \in Int, NEW b \in Int, a <= b, NEW T, NEW item, NEW next, NEW ends,
         Forward(a, b, T, item, next, ends), NEW g, Walks(g, a, b, item, next, ends)
  PROVE  \A p \in a .. b : g[p] \in Seq(T)
  <1> DEFINE D == {m \in Nat : \A p \in a .. b : p > b - m => g[p] \in Seq(T)}
  <1>0. /\ \A p \in a .. b : p \notin ends => item[p] \in T /\ next[p] \in p + 1 .. b
        /\ \A p \in a .. b : g[p] = IF p \in ends THEN <<>> ELSE <<item[p]>> \o g[next[p]]
    BY DEF Forward, Walks
  <1>1. 0 \in D
    <2>1. \A p \in a .. b : ~(p > b - 0)
      OBVIOUS
    <2> QED  BY <2>1
  <1>2. ASSUME NEW m \in Nat, m \in D PROVE m + 1 \in D
    <2>1. \A p \in a .. b : p > b - m => g[p] \in Seq(T)
      BY <1>2
    <2>2. ASSUME NEW p \in a .. b, p > b - (m + 1) PROVE g[p] \in Seq(T)
      <3>1. CASE p \in ends
        <4>1. g[p] = <<>>
          BY <1>0, <3>1
        <4> QED  BY <4>1
      <3>2. CASE p \notin ends
        <4>1. item[p] \in T /\ next[p] \in p + 1 .. b
          BY <1>0, <3>2
        <4>2. next[p] \in a .. b /\ next[p] > b - m
          BY <2>2, <4>1
        <4>3. g[next[p]] \in Seq(T) /\ <<item[p]>> \in Seq(T)
          BY <2>1, <4>1, <4>2
        <4>4. g[p] = <<item[p]>> \o g[next[p]]
          BY <1>0, <3>2
        <4> QED  BY <4>3, <4>4
      <3> QED  BY <3>1, <3>2
    <2>3. m + 1 \in Nat
      OBVIOUS
    <2> QED  BY <2>2, <2>3
  <1>3. Nat \subseteq D
    <2> HIDE DEF D
    <2> QED  BY <1>1, <1>2, SetInduction
  <1>4. b - a + 1 \in D /\ \A p \in a .. b : p > b - (b - a + 1)
    <2> HIDE DEF D
    <2> QED  BY <1>3
  <1> QED  BY <1>4

\* What goes on from place to place until it may stop, and gives what is there.
Follows(g, a, b, last, next, ends) ==
  g = [p \in a .. b |-> IF p \in ends THEN last[p] ELSE g[next[p]]]

LEMMA Chase ==
  ASSUME NEW a \in Int, NEW b \in Int, a <= b, NEW last, NEW next, NEW ends,
         \A p \in a .. b : p \notin ends => next[p] \in p + 1 .. b
  PROVE  \E f : Follows(f, a, b, last, next, ends)
  <1> DEFINE V == {last[p] : p \in a .. b}
             At(f, p) == IF p \in ends THEN last[p] ELSE f[next[p]]
             Good(f, m) == \A p \in a .. b : p > b - m => f[p] = At(f, p)
             D == {m \in Nat : \E f \in [a .. b -> V] : Good(f, m)}
  <1>0. a \in a .. b /\ \A p \in a .. b : last[p] \in V
    OBVIOUS
  <1> HIDE DEF V
  <1>1. 0 \in D
    <2> DEFINE f == [p \in a .. b |-> last[a]]
    <2>1. f \in [a .. b -> V]
      BY <1>0
    <2>2. Good(f, 0)
      <3>1. \A p \in a .. b : ~(p > b - 0)
        OBVIOUS
      <3> QED  BY <3>1
    <2> QED  BY <2>1, <2>2
  <1>2. ASSUME NEW m \in Nat, m \in D PROVE m + 1 \in D
    <2>1. PICK f \in [a .. b -> V] : Good(f, m)
      BY <1>2
    <2> DEFINE q == b - m
    <2>2. q \in Int /\ q <= b /\ \A p \in a .. b : p > b - (m + 1) <=> p >= q
      OBVIOUS
    <2>3. CASE q < a
      <3>1. \A p \in a .. b : p > b - m
        BY <2>3
      <3>2. Good(f, m + 1)
        BY <2>1, <3>1
      <3> HIDE DEF Good
      <3> QED  BY <3>2
    <2>4. CASE q >= a
      <3> DEFINE g == [f EXCEPT ![q] = At(f, q)]
      <3>1. q \in a .. b
        BY <2>2, <2>4
      <3>2. At(f, q) \in V
        <4>1. q \notin ends => next[q] \in a .. b
          BY <3>1
        <4> QED  BY <1>0, <3>1, <4>1
      <3> HIDE DEF At
      <3>3. g \in [a .. b -> V] /\ \A p \in a .. b : g[p] = IF p = q THEN At(f, q) ELSE f[p]
        BY <3>1, <3>2
      <3> HIDE DEF g
      <3>4. ASSUME NEW p \in a .. b, p >= q PROVE At(g, p) = At(f, p)
        <4>1. p \notin ends => next[p] \in a .. b /\ next[p] # q
          BY <2>2, <3>4
        <4>2. p \notin ends => g[next[p]] = f[next[p]]
          BY <3>3, <4>1
        <4> QED  BY <4>2 DEF At
      <3>5. ASSUME NEW p \in a .. b, p >= q PROVE g[p] = At(g, p)
        <4>1. CASE p = q
          BY <3>3, <3>4, <3>5, <4>1
        <4>2. CASE p # q
          <5>1. p > b - m
            BY <2>2, <3>5, <4>2
          <5>2. f[p] = At(f, p)
            BY <2>1, <5>1
          <5> QED  BY <3>3, <3>4, <3>5, <4>2, <5>2
        <4> QED  BY <4>1, <4>2
      <3>6. Good(g, m + 1)
        BY <2>2, <3>5
      <3> HIDE DEF Good
      <3> QED  BY <3>3, <3>6
    <2> HIDE DEF D, q
    <2> QED  BY <2>2, <2>3, <2>4
  <1>3. Nat \subseteq D
    <2> HIDE DEF D
    <2> QED  BY <1>1, <1>2, SetInduction
  <1>4. b - a + 1 \in D /\ \A p \in a .. b : p > b - (b - a + 1)
    <2> HIDE DEF D
    <2> QED  BY <1>3
  <1>5. PICK f \in [a .. b -> V] : Good(f, b - a + 1)
    BY <1>4
  <1>6. f = [p \in a .. b |-> At(f, p)]
    BY <1>4, <1>5
  <1> QED  BY <1>6 DEF Follows

-----------------------------------------------------------------------------
(***************************************************************************)
(* Division with remainder.                                                *)
(***************************************************************************)
LEMMA DivMod ==
  ASSUME NEW a \in Nat, NEW R \in Nat \ {0}
  PROVE  /\ a = (R * (a \div R)) + (a % R)
         /\ a % R \in 0 .. R - 1 /\ a \div R \in Nat /\ R * (a \div R) \in Nat
  <1>1. a \div R \in Nat
    OBVIOUS
  <1>2. R * (a \div R) \in Nat
    <2> DEFINE q == a \div R
    <2>1. q \in Nat
      BY <1>1
    <2> HIDE DEF q
    <2>2. R * q \in Nat
      BY <2>1
    <2> QED  BY <2>2 DEF q
  <1>3. a = (R * (a \div R)) + (a % R) /\ a % R \in 0 .. R - 1
    OBVIOUS
  <1> QED  BY <1>1, <1>2, <1>3, Zenon

LEMMA Multiples ==
  ASSUME NEW R \in Nat \ {0}, NEW p \in Nat, NEW q \in Nat, p < q
  PROVE  R * p + R <= R * q
  <1>1. PICK d \in Nat : q = p + 1 + d
    <2>1. q - p - 1 \in Nat /\ q = p + 1 + (q - p - 1)
      OBVIOUS
    <2> QED  BY <2>1
  <1>2. R * q = R * p + R + R * d
    BY <1>1
  <1>3. R * d \in Nat /\ R * p \in Nat /\ R * q \in Nat
    OBVIOUS
  <1> QED  BY <1>2, <1>3

\* Quotient and remainder are the only ones.
LEMMA DivModUnique ==
  ASSUME NEW R \in Nat \ {0}, NEW q \in Nat, NEW r \in 0 .. R - 1, NEW a, a = R * q + r
  PROVE  a \div R = q /\ a % R = r
  <1> DEFINE p == a \div R
             s == a % R
  <1>1. a \in Nat /\ R * q \in Nat /\ a = R * q + r
    OBVIOUS
  <1>2. a = R * p + s /\ s \in 0 .. R - 1 /\ p \in Nat /\ R * p \in Nat
    BY <1>1, DivMod, Zenon
  <1>3. R * p \in Nat
    BY <1>2
  <1> HIDE DEF p, s
  <1>4. ~(p < q)
    <2>1. p < q => R * p + R <= R * q
      BY <1>2, Multiples
    <2> QED  BY <1>1, <1>2, <1>3, <2>1
  <1>5. ~(q < p)
    <2>1. q < p => R * q + R <= R * p
      BY <1>2, Multiples
    <2> QED  BY <1>1, <1>2, <1>3, <2>1
  <1>6. p = q
    BY <1>2, <1>4, <1>5
  <1>7. s = r
    BY <1>1, <1>2, <1>3, <1>6
  <1> QED  BY <1>6, <1>7 DEF p, s

\* The remainder of the next number.
LEMMA NextMod ==
  ASSUME NEW a \in Nat, NEW R \in Nat \ {0}
  PROVE  (a + 1) % R = IF (a % R) + 1 >= R THEN 0 ELSE (a % R) + 1
  <1> DEFINE q == a \div R
             r == a % R
  <1>1. a = R * q + r /\ r \in 0 .. R - 1 /\ q \in Nat /\ R * q \in Nat
    BY DivMod, Zenon
  <1> HIDE DEF q, r
  <1>2. CASE r + 1 < R
    <2>1. r + 1 \in 0 .. R - 1 /\ a + 1 = R * q + (r + 1)
      BY <1>1, <1>2
    <2>2. (a + 1) % R = r + 1
      <3> DEFINE b == a + 1
                 t == r + 1
      <3>1. b = R * q + t /\ t \in 0 .. R - 1
        BY <2>1
      <3> HIDE DEF b, t
      <3>2. b % R = t
        BY <1>1, <3>1, DivModUnique, Zenon
      <3> QED  BY <3>2 DEF b, t
    <2> QED  BY <1>1, <1>2, <2>2 DEF r
  <1>3. CASE r + 1 >= R
    <2>1. r + 1 = R
      BY <1>1, <1>3
    <2>2. R * (q + 1) = R * q + R /\ q + 1 \in Nat /\ 0 \in 0 .. R - 1
      BY <1>1
    <2>3. a + 1 = R * (q + 1) + 0
      BY <1>1, <2>1, <2>2
    <2>4. (a + 1) % R = 0
      <3> DEFINE b == a + 1
                 p == q + 1
      <3>1. b = R * p + 0 /\ p \in Nat /\ 0 \in 0 .. R - 1
        BY <2>2, <2>3
      <3> HIDE DEF b, p
      <3>2. b % R = 0
        BY <3>1, DivModUnique, Zenon
      <3> QED  BY <3>2 DEF b
    <2> QED  BY <1>3, <2>4 DEF r
  <1> QED  BY <1>1, <1>2, <1>3
=============================================================================
