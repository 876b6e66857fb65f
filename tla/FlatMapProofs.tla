---------------------------- MODULE FlatMapProofs ---------------------------
(***************************************************************************)
(* Theorems about FlatMap, for every set of integer keys and of values and *)
(* every size of the vector: it stays sorted, the binary searches find     *)
(* what is there, and the containers implement Multimap.                   *)
(***************************************************************************)
EXTENDS FlatMap, Induction, SequenceTheorems, FiniteSetTheorems

SortedSeq(u, s) ==
  /\ s \in Seq(Entry)
  /\ \A i, j \in 1 .. Len(s) : i < j => IF u THEN s[i].key < s[j].key ELSE s[i].key <= s[j].key

SortedInv == unique \in BOOLEAN /\ SortedSeq(unique, vect) /\ SortedSeq(unique, other)

LEMMA EntryFact ==
  ASSUME NEW s \in Seq(Entry), NEW i \in 1 .. Len(s)
  PROVE  s[i] \in Entry /\ s[i].key \in Int /\ s[i].key \in Key
  <1>1. s[i] \in Entry
    OBVIOUS
  <1> QED  BY <1>1, FlatMapAssumption DEF Entry

\* A sorted vector has no descents, whether its keys are unique or not.
LEMMA Ascending ==
  ASSUME NEW u \in BOOLEAN, NEW s, SortedSeq(u, s),
         NEW i \in 1 .. Len(s), NEW j \in 1 .. Len(s), i <= j
  PROVE  s[i].key <= s[j].key
  <1>1. s[i].key \in Int /\ s[j].key \in Int
    BY EntryFact DEF SortedSeq
  <1>2. CASE i = j
    BY <1>1, <1>2
  <1>3. CASE i # j
    <2>1. i < j
      BY <1>3
    <2> QED  BY <1>1, <2>1 DEF SortedSeq
  <1> QED  BY <1>2, <1>3

-----------------------------------------------------------------------------
(***************************************************************************)
(* The binary searches.                                                    *)
(***************************************************************************)
LEMMA FrontPart ==
  ASSUME NEW n \in Nat, NEW T \in SUBSET (1 .. n),
         \A j \in T, i \in 1 .. n : i <= j => i \in T
  PROVE  Cardinality(T) \in 0 .. n /\ T = 1 .. Cardinality(T)
  <1> DEFINE R == {m \in Nat : m >= 1 /\ m \notin T}
  <1>1. R \subseteq Nat /\ n + 1 \in R
    OBVIOUS
  <1>2. PICK x \in R : \A y \in R : x <= y
    <2> HIDE DEF R
    <2> QED  BY <1>1, LeastNumber
  <1>3. x \in Nat /\ x >= 1 /\ x \notin T /\ x <= n + 1
    BY <1>1, <1>2
  <1>4. T = 1 .. x - 1
    <2>1. ASSUME NEW i \in T PROVE i \in 1 .. x - 1
      <3>1. ~(x <= i)
        <4> SUFFICES ASSUME x <= i PROVE FALSE
          OBVIOUS
        <4>1. x \in 1 .. n
          BY <1>3
        <4> QED  BY <1>3, <4>1
      <3> QED  BY <1>3, <3>1
    <2>2. ASSUME NEW i \in 1 .. x - 1 PROVE i \in T
      <3>1. i \in Nat /\ i >= 1 /\ ~(x <= i)
        BY <1>3
      <3>2. i \notin R
        <4> HIDE DEF R
        <4> QED  BY <1>2, <3>1
      <3> QED  BY <3>1, <3>2
    <2> QED  BY <2>1, <2>2
  <1>5. Cardinality(1 .. x - 1) = x - 1
    <2>1. 1 \in Int /\ x - 1 \in Int /\ (IF 1 > x - 1 THEN 0 ELSE (x - 1) - 1 + 1) = x - 1
      BY <1>3
    <2> QED  BY <2>1, FS_Interval
  <1> QED  BY <1>3, <1>4, <1>5

LEMMA BoundsFact ==
  ASSUME NEW u \in BOOLEAN, NEW s, SortedSeq(u, s), NEW k \in Key
  PROVE  /\ lower_bound(s, k) \in 1 .. Len(s) + 1
         /\ upper_bound(s, k) \in 1 .. Len(s) + 1
         /\ lower_bound(s, k) <= upper_bound(s, k)
         /\ \A i \in 1 .. Len(s) : s[i].key < k <=> i < lower_bound(s, k)
         /\ \A i \in 1 .. Len(s) : s[i].key <= k <=> i < upper_bound(s, k)
  <1> DEFINE n == Len(s)
             L == {i \in DOMAIN s : s[i].key < k}
             U == {i \in DOMAIN s : s[i].key <= k}
  <1>1. s \in Seq(Entry) /\ n \in Nat /\ DOMAIN s = 1 .. n /\ k \in Int
    BY FlatMapAssumption DEF SortedSeq
  <1>2. \A i \in 1 .. n : s[i].key \in Int
    BY <1>1, EntryFact
  <1>3. \A i, j \in 1 .. n : i <= j => s[i].key <= s[j].key
    BY Ascending
  <1>4. Cardinality(L) \in 0 .. n /\ L = 1 .. Cardinality(L)
    <2>1. L \in SUBSET (1 .. n)
      BY <1>1
    <2>2. \A j \in L, i \in 1 .. n : i <= j => i \in L
      BY <1>1, <1>2, <1>3
    <2> HIDE DEF L, n
    <2> QED  BY <1>1, <2>1, <2>2, FrontPart
  <1>5. Cardinality(U) \in 0 .. n /\ U = 1 .. Cardinality(U)
    <2>1. U \in SUBSET (1 .. n)
      BY <1>1
    <2>2. \A j \in U, i \in 1 .. n : i <= j => i \in U
      BY <1>1, <1>2, <1>3
    <2> HIDE DEF U, n
    <2> QED  BY <1>1, <2>1, <2>2, FrontPart
  <1>6. lower_bound(s, k) = 1 + Cardinality(L) /\ upper_bound(s, k) = 1 + Cardinality(U)
    BY DEF lower_bound, upper_bound
  <1>7. \A i \in 1 .. n : (i \in L <=> s[i].key < k) /\ (i \in U <=> s[i].key <= k)
    BY <1>1
  <1>8. L \subseteq U
    BY <1>1, <1>2
  <1> HIDE DEF L, U
  <1>9. Cardinality(L) <= Cardinality(U)
    <2>1. IsFiniteSet(U)
      BY <1>5, FS_Interval
    <2> QED  BY <1>8, <2>1, FS_Subset
  <1>10. \A i \in 1 .. n : s[i].key < k <=> i < lower_bound(s, k)
    BY <1>1, <1>4, <1>6, <1>7
  <1>11. \A i \in 1 .. n : s[i].key <= k <=> i < upper_bound(s, k)
    BY <1>1, <1>5, <1>6, <1>7
  <1> QED  BY <1>1, <1>4, <1>5, <1>6, <1>9, <1>10, <1>11

LEMMA SearchesRight == SortedInv => LookupsAgree
  <1> SUFFICES ASSUME SortedInv, NEW k \in Key,
                      NEW at, at = {i \in DOMAIN vect : vect[i].key = k}
               PROVE  /\ count(k) = Cardinality(at)
                      /\ at = lower_bound(vect, k) .. upper_bound(vect, k) - 1
                      /\ IF at = {} THEN find(k) = Len(vect) + 1
                         ELSE find(k) \in at /\ \A i \in at : find(k) <= i
    BY DEF LookupsAgree
  <1> DEFINE n == Len(vect)
             lb == lower_bound(vect, k)
             ub == upper_bound(vect, k)
  <1>1. unique \in BOOLEAN /\ SortedSeq(unique, vect) /\ vect \in Seq(Entry) /\ n \in Nat
        /\ DOMAIN vect = 1 .. n /\ k \in Int
    BY FlatMapAssumption DEF SortedInv, SortedSeq
  <1>2. /\ lb \in 1 .. n + 1 /\ ub \in 1 .. n + 1 /\ lb <= ub
        /\ \A i \in 1 .. n : vect[i].key < k <=> i < lb
        /\ \A i \in 1 .. n : vect[i].key <= k <=> i < ub
    BY <1>1, BoundsFact
  <1>3. \A i \in 1 .. n : vect[i].key \in Int
    BY <1>1, EntryFact
  <1> HIDE DEF lb, ub
  <1>4. at = lb .. ub - 1
    <2>1. ASSUME NEW i \in 1 .. n PROVE vect[i].key = k <=> i \in lb .. ub - 1
      <3>1. vect[i].key = k <=> ~(vect[i].key < k) /\ vect[i].key <= k
        BY <1>1, <1>3
      <3> QED  BY <1>1, <1>2, <3>1
    <2>2. lb .. ub - 1 \subseteq 1 .. n
      BY <1>1, <1>2
    <2> QED  BY <1>1, <2>1, <2>2
  <1>5. count(k) = Cardinality(at)
    <2>1. lb \in Int /\ ub - 1 \in Int /\ (IF lb > ub - 1 THEN 0 ELSE (ub - 1) - lb + 1) = ub - lb
      BY <1>1, <1>2
    <2>2. Cardinality(lb .. ub - 1) = ub - lb
      BY <2>1, FS_Interval
    <2>3. count(k) = ub - lb
      BY DEF count, lb, ub
    <2> QED  BY <1>4, <2>2, <2>3
  <1>6. find(k) = IF lb <= n /\ ~(k < vect[lb].key) THEN lb ELSE n + 1
    BY DEF find, lb
  <1>7. CASE at = {}
    <2>1. ~(lb <= ub - 1)
      BY <1>1, <1>2, <1>4, <1>7
    <2>2. lb <= n => k < vect[lb].key
      <3> SUFFICES ASSUME lb <= n PROVE k < vect[lb].key
        OBVIOUS
      <3>1. lb \in 1 .. n /\ ~(lb < ub)
        BY <1>1, <1>2, <2>1
      <3>2. ~(vect[lb].key <= k) /\ vect[lb].key \in Int
        BY <1>2, <1>3, <3>1
      <3> QED  BY <1>1, <3>2
    <2>3. find(k) = n + 1
      BY <1>6, <2>2
    <2> QED  BY <1>4, <1>5, <1>7, <2>3 DEF lb, ub
  <1>8. CASE at # {}
    <2>1. lb <= ub - 1
      BY <1>1, <1>2, <1>4, <1>8
    <2>2. lb \in 1 .. n /\ lb < ub
      BY <1>1, <1>2, <2>1
    <2>3. vect[lb].key <= k /\ vect[lb].key \in Int
      BY <1>2, <1>3, <2>2
    <2>4. find(k) = lb
      BY <1>1, <1>6, <2>2, <2>3
    <2>5. lb \in at /\ \A i \in at : lb <= i
      BY <1>1, <1>2, <1>4, <2>1
    <2> QED  BY <1>4, <1>5, <1>8, <2>4, <2>5 DEF lb, ub
  <1> QED  BY <1>7, <1>8

-----------------------------------------------------------------------------
(***************************************************************************)
(* The inserts.                                                            *)
(***************************************************************************)
LEMMA InsertAtFact ==
  ASSUME NEW s \in Seq(Entry), NEW it \in 1 .. Len(s) + 1, NEW x \in Entry,
         NEW t, t = InsertAt(s, it, x)
  PROVE  /\ t \in Seq(Entry) /\ Len(t) = Len(s) + 1
         /\ \A i \in 1 .. Len(t) : t[i] = IF i < it THEN s[i] ELSE IF i = it THEN x ELSE s[i - 1]
  <1> DEFINE n == Len(s)
             front == SubSeq(s, 1, it - 1)
             back == SubSeq(s, it, n)
  <1>1. n \in Nat /\ it \in Nat /\ it >= 1 /\ it <= n + 1
    OBVIOUS
  <1>2. front \in Seq(Entry) /\ Len(front) = it - 1 /\ \A i \in 1 .. it - 1 : front[i] = s[i]
    BY <1>1
  <1>3. back \in Seq(Entry) /\ Len(back) = n - it + 1
        /\ \A i \in 1 .. n - it + 1 : back[i] = s[it + i - 1]
    BY <1>1
  <1>4. t = (front \o <<x>>) \o back
    BY DEF InsertAt
  <1> HIDE DEF front, back
  <1> DEFINE head == front \o <<x>>
  <1>5. head \in Seq(Entry) /\ Len(head) = it /\ head[it] = x
        /\ \A i \in 1 .. it - 1 : head[i] = s[i]
    BY <1>1, <1>2
  <1> HIDE DEF head
  <1>6. t = head \o back
    BY <1>4 DEF head
  <1>7. t \in Seq(Entry) /\ Len(t) = n + 1
    BY <1>1, <1>3, <1>5, <1>6
  <1>8. ASSUME NEW i \in 1 .. n + 1
        PROVE  t[i] = IF i < it THEN s[i] ELSE IF i = it THEN x ELSE s[i - 1]
    <2>1. CASE i <= it
      <3>1. t[i] = head[i]
        BY <1>1, <1>3, <1>5, <1>6, <2>1
      <3> QED  BY <1>1, <1>5, <2>1, <3>1
    <2>2. CASE i > it
      <3>1. t[i] = back[i - it]
        BY <1>1, <1>3, <1>5, <1>6, <2>2
      <3>2. i - it \in 1 .. n - it + 1 /\ it + (i - it) - 1 = i - 1
        BY <1>1, <2>2
      <3>3. back[i - it] = s[i - 1]
        BY <1>3, <3>2
      <3> QED  BY <1>1, <2>2, <3>1, <3>3
    <2> QED  BY <1>1, <2>1, <2>2
  <1> QED  BY <1>7, <1>8

\* An entry put where the keys below its own end, and none equal to its own is behind.
LEMMA InsertKeepsSorted ==
  ASSUME NEW u \in BOOLEAN, NEW s, SortedSeq(u, s), NEW x \in Entry,
         NEW it, it = lower_bound(s, x.key),
         u => it > Len(s) \/ x.key < s[it].key
  PROVE  SortedSeq(u, InsertAt(s, it, x))
  <1> DEFINE n == Len(s)
             t == InsertAt(s, it, x)
  <1>1. s \in Seq(Entry) /\ n \in Nat /\ x.key \in Key /\ x.key \in Int
    <2>1. x.key \in Key
      BY DEF Entry
    <2>2. s \in Seq(Entry) /\ Len(s) \in Nat
      BY DEF SortedSeq
    <2> QED  BY <2>1, <2>2, FlatMapAssumption
  <1>2. /\ it \in 1 .. n + 1
        /\ \A i \in 1 .. n : s[i].key < x.key <=> i < it
    BY <1>1, BoundsFact
  <1>3. /\ t \in Seq(Entry) /\ Len(t) = n + 1
        /\ \A i \in 1 .. n + 1 : t[i] = IF i < it THEN s[i] ELSE IF i = it THEN x ELSE s[i - 1]
    BY <1>1, <1>2, InsertAtFact
  <1>4. \A i \in 1 .. n : s[i].key \in Int
    BY <1>1, EntryFact
  <1>5. \A i, j \in 1 .. n : i <= j => s[i].key <= s[j].key
    BY Ascending
  <1>6. \A i, j \in 1 .. n : i < j => IF u THEN s[i].key < s[j].key ELSE s[i].key <= s[j].key
    BY DEF SortedSeq
  <1> HIDE DEF t, n
  <1>7. ASSUME NEW i \in 1 .. n + 1, NEW j \in 1 .. n + 1, i < j
        PROVE  IF u THEN t[i].key < t[j].key ELSE t[i].key <= t[j].key
    <2>1. CASE j < it
      <3>1. i \in 1 .. n /\ j \in 1 .. n /\ i < it
        BY <1>1, <1>2, <1>7, <2>1
      <3>2. t[i] = s[i] /\ t[j] = s[j]
        BY <1>3, <2>1, <3>1
      <3> QED  BY <1>6, <1>7, <3>1, <3>2
    <2>2. CASE j = it
      <3>1. i \in 1 .. n /\ i < it
        BY <1>1, <1>2, <1>7, <2>2
      <3>2. t[i] = s[i] /\ t[j] = x
        BY <1>2, <1>3, <2>2, <3>1
      <3>3. s[i].key < x.key /\ s[i].key \in Int
        BY <1>2, <1>4, <3>1
      <3>4. s[i].key <= x.key
        BY <1>1, <3>3
      <3> QED  BY <3>2, <3>3, <3>4
    <2>3. CASE j > it /\ i < it
      <3>1. i \in 1 .. n /\ j - 1 \in 1 .. n /\ i < j - 1 /\ ~(j < it) /\ j # it
        BY <1>1, <1>2, <1>7, <2>3
      <3>2. t[i] = s[i] /\ t[j] = s[j - 1]
        BY <1>3, <2>3, <3>1
      <3> QED  BY <1>6, <3>1, <3>2
    <2>4. CASE j > it /\ i = it
      <3>1. j - 1 \in 1 .. n /\ it \in 1 .. n /\ it <= j - 1 /\ ~(j < it) /\ j # it
        BY <1>1, <1>2, <1>7, <2>4
      <3>2. t[i] = x /\ t[j] = s[j - 1]
        BY <1>3, <2>4, <3>1
      <3>3. s[it].key <= s[j - 1].key /\ s[it].key \in Int /\ s[j - 1].key \in Int
        BY <1>4, <1>5, <3>1
      <3>4. ~(s[it].key < x.key)
        BY <1>2, <3>1
      <3>5. x.key <= s[j - 1].key
        BY <1>1, <3>3, <3>4
      <3>6. u => x.key < s[j - 1].key
        <4> SUFFICES ASSUME u PROVE x.key < s[j - 1].key
          OBVIOUS
        <4>1. x.key < s[it].key
          BY <1>1, <3>1 DEF n
        <4> QED  BY <1>1, <3>3, <4>1
      <3> QED  BY <3>2, <3>5, <3>6
    <2>5. CASE j > it /\ i > it
      <3>1. i - 1 \in 1 .. n /\ j - 1 \in 1 .. n /\ i - 1 < j - 1
            /\ ~(i < it) /\ i # it /\ ~(j < it) /\ j # it
        BY <1>1, <1>2, <1>7, <2>5
      <3>2. t[i] = s[i - 1] /\ t[j] = s[j - 1]
        BY <1>3, <3>1
      <3> QED  BY <1>6, <3>1, <3>2
    <2> QED  BY <1>2, <2>1, <2>2, <2>3, <2>4, <2>5
  <1> QED  BY <1>3, <1>7 DEF SortedSeq, t

\* Either insert of one entry.
LEMMA OneKeepsSorted ==
  ASSUME unique \in BOOLEAN, NEW s, SortedSeq(unique, s), NEW x \in Entry
  PROVE  SortedSeq(unique, InsertOne(s, x))
  <1> DEFINE it == lower_bound(s, x.key)
  <1>1. CASE unique
    <2>1. CASE it > Len(s) \/ x.key < s[it].key
      <3>1. SortedSeq(unique, InsertAt(s, it, x))
        BY <2>1, InsertKeepsSorted
      <3> QED  BY <1>1, <2>1, <3>1 DEF InsertOne, insert_single
    <2>2. CASE ~(it > Len(s) \/ x.key < s[it].key)
      BY <1>1, <2>2 DEF InsertOne, insert_single
    <2> QED  BY <2>1, <2>2
  <1>2. CASE ~unique
    <2>1. SortedSeq(unique, InsertAt(s, it, x))
      BY <1>2, InsertKeepsSorted
    <2> QED  BY <1>2, <2>1 DEF InsertOne, insert_multi
  <1> QED  BY <1>1, <1>2

(***************************************************************************)
(* A range, one entry after the other.                                     *)
(***************************************************************************)
LEMMA AllSteps ==
  ASSUME unique \in BOOLEAN, NEW s, SortedSeq(unique, s), NEW range \in Seq(Entry)
  PROVE  \E f : /\ f[0] = s /\ f[Len(range)] = InsertAll(s, range)
                /\ \A n \in 1 .. Len(range) : f[n] = InsertOne(f[n - 1], range[n])
                /\ \A n \in 0 .. Len(range) : SortedSeq(unique, f[n])
  <1> DEFINE N == Len(range)
             S == {t \in Seq(Entry) : SortedSeq(unique, t)}
             step == [p \in (1 .. N) \X S |-> InsertOne(p[2], range[p[1]])]
             after[n \in 0 .. N] == IF n = 0 THEN s ELSE InsertOne(after[n - 1], range[n])
  <1>1. N \in Nat /\ s \in S
    BY DEF SortedSeq
  <1>2. \A t : t \in S <=> SortedSeq(unique, t)
    BY DEF SortedSeq
  <1>3. step \in [(1 .. N) \X S -> S]
    <2>1. ASSUME NEW p \in (1 .. N) \X S PROVE InsertOne(p[2], range[p[1]]) \in S
      <3>1. range[p[1]] \in Entry /\ p[2] \in S
        BY <2>1
      <3> QED  BY <1>2, <3>1, OneKeepsSorted
    <2> QED  BY <2>1
  <1>4. PICK f \in [0 .. N -> S] : Computes(f, N, s, step)
    <2> HIDE DEF S, step, N
    <2> QED  BY <1>1, <1>3, Recursion
  <1>5. f = [n \in 0 .. N |-> IF n = 0 THEN s ELSE InsertOne(f[n - 1], range[n])]
    <2> HIDE DEF S, N
    <2>1. ASSUME NEW n \in 1 .. N PROVE f[n] = InsertOne(f[n - 1], range[n])
      <3>1. n - 1 \in 0 .. N /\ f[n - 1] \in S
        BY <1>1
      <3> QED  BY <1>4, <3>1 DEF Computes
    <2>2. \A n \in 0 .. N : n # 0 => n \in 1 .. N
      BY <1>1
    <2> HIDE DEF step
    <2> QED  BY <1>4, <2>1, <2>2 DEF Computes
  <1> HIDE DEF S, N
  <1>6. after = [n \in 0 .. N |-> IF n = 0 THEN s ELSE InsertOne(after[n - 1], range[n])]
    BY <1>5
  <1>7. InsertAll(s, range) = after[N]
    BY DEF InsertAll, N
  <1> HIDE DEF after
  <1>8. 0 .. N \subseteq {n \in 0 .. N : after[n] \in S}
    <2> DEFINE D == {n \in 0 .. N : after[n] \in S}
    <2>1. 0 \in D
      BY <1>1, <1>6
    <2>2. ASSUME NEW n \in 1 .. N, n - 1 \in D PROVE n \in D
      <3>1. n \in 0 .. N /\ n # 0
        BY <1>1
      <3>2. after[n] = InsertOne(after[n - 1], range[n])
        BY <1>6, <3>1
      <3>3. SortedSeq(unique, after[n - 1]) /\ range[n] \in Entry
        BY <1>2, <2>2 DEF N
      <3>4. after[n] \in S
        BY <1>2, <3>2, <3>3, OneKeepsSorted
      <3> QED  BY <3>1, <3>4
    <2> HIDE DEF D
    <2>3. 0 .. N \subseteq D
      BY <1>1, <2>1, <2>2, BoundedInduction
    <2> QED  BY <2>3 DEF D
  <1>9. \A n \in 0 .. N : SortedSeq(unique, after[n])
    BY <1>2, <1>8
  <1>10. after[0] = s /\ \A n \in 1 .. N : after[n] = InsertOne(after[n - 1], range[n])
    <2>1. 0 \in 0 .. N /\ \A n \in 1 .. N : n \in 0 .. N /\ n # 0
      BY <1>1
    <2> QED  BY <1>6, <2>1
  <1> QED  BY <1>7, <1>9, <1>10 DEF N

LEMMA AllKeepSorted ==
  ASSUME unique \in BOOLEAN, NEW s, SortedSeq(unique, s), NEW range \in Seq(Entry)
  PROVE  SortedSeq(unique, InsertAll(s, range))
  <1>1. Len(range) \in 0 .. Len(range)
    OBVIOUS
  <1> QED  BY <1>1, AllSteps

-----------------------------------------------------------------------------
(***************************************************************************)
(* The other operations.                                                   *)
(***************************************************************************)
LEMMA RangeFact ==
  ASSUME NEW s \in Seq(Entry), NEW first \in 1 .. Len(s) + 1, NEW last \in 1 .. Len(s) + 1,
         first <= last
  PROVE  SubSeq(s, first, last - 1) \in Seq(Entry)
  OBVIOUS

LEMMA EmptySorted == \A u : SortedSeq(u, <<>>)
  BY DEF SortedSeq

LEMMA RangeSorted ==
  ASSUME NEW u \in BOOLEAN, NEW s, SortedSeq(u, s),
         NEW first \in 1 .. Len(s) + 1, NEW last \in first .. Len(s) + 1
  PROVE  SortedSeq(u, SubSeq(s, first, last - 1))
  <1> DEFINE t == SubSeq(s, first, last - 1)
  <1>1. s \in Seq(Entry) /\ Len(s) \in Nat /\ first \in Int /\ last \in Int
        /\ 1 <= first /\ first <= last /\ last <= Len(s) + 1
    BY DEF SortedSeq
  <1>2. t \in Seq(Entry) /\ Len(t) = last - first
        /\ \A i \in 1 .. last - first : t[i] = s[first + i - 1]
    BY <1>1
  <1> HIDE DEF t
  <1>3. ASSUME NEW i \in 1 .. Len(t), NEW j \in 1 .. Len(t), i < j
        PROVE  IF u THEN t[i].key < t[j].key ELSE t[i].key <= t[j].key
    <2>1. first + i - 1 \in 1 .. Len(s) /\ first + j - 1 \in 1 .. Len(s)
          /\ first + i - 1 < first + j - 1
      BY <1>1, <1>2, <1>3
    <2>2. t[i] = s[first + i - 1] /\ t[j] = s[first + j - 1]
      BY <1>2
    <2> QED  BY <2>1, <2>2 DEF SortedSeq
  <1> QED  BY <1>2, <1>3 DEF SortedSeq, t

\* What is left behind the erased entries moves to the front.
Before(i, first, last) == IF i < first THEN i ELSE i + last - first

LEMMA EraseFact ==
  ASSUME vect \in Seq(Entry),
         NEW first \in 1 .. Len(vect) + 1, NEW last \in 1 .. Len(vect) + 1, first <= last,
         NEW t, t = EraseRange(first, last)
  PROVE  /\ t \in Seq(Entry) /\ Len(t) = (first - 1) + (Len(vect) - last + 1)
         /\ \A i \in 1 .. Len(t) : Before(i, first, last) \in 1 .. Len(vect)
                                   /\ t[i] = vect[Before(i, first, last)]
  <1> DEFINE n == Len(vect)
             front == SubSeq(vect, 1, first - 1)
             back == SubSeq(vect, last, n)
             m == (first - 1) + (n - last + 1)
             at(i) == IF i < first THEN i ELSE i + last - first
  <1>1. n \in Nat /\ first \in Nat /\ 1 <= first /\ first <= last /\ last \in Nat /\ last <= n + 1
    OBVIOUS
  <1>2. /\ front \in Seq(Entry) /\ Len(front) = first - 1
        /\ \A i \in 1 .. first - 1 : front[i] = vect[i]
    BY <1>1
  <1>3. /\ back \in Seq(Entry) /\ Len(back) = n - last + 1
        /\ \A i \in 1 .. n - last + 1 : back[i] = vect[last + i - 1]
    BY <1>1
  <1>4. t = front \o back
    BY DEF EraseRange
  <1> HIDE DEF front, back
  <1>5. t \in Seq(Entry) /\ Len(t) = m
    <2>1. t \in Seq(Entry) /\ Len(t) = Len(front) + Len(back)
      BY <1>2, <1>3, <1>4, ConcatProperties
    <2> QED  BY <1>2, <1>3, <2>1, Zenon
  <1> HIDE DEF n
  <1>6. ASSUME NEW i \in 1 .. m PROVE at(i) \in 1 .. n /\ t[i] = vect[at(i)]
    <2>1. CASE i < first
      <3>1. i \in 1 .. first - 1 /\ i \in 1 .. n
        BY <1>1, <2>1
      <3>2. t[i] = front[i]
        BY <1>1, <1>2, <1>3, <1>4, <3>1
      <3> QED  BY <1>2, <2>1, <3>1, <3>2
    <2>2. CASE ~(i < first)
      <3>1. /\ i - first + 1 \in 1 .. n - last + 1 /\ i + last - first \in 1 .. n
            /\ last + (i - first + 1) - 1 = i + last - first
            /\ i - (first - 1) = i - first + 1
        BY <1>1, <2>2
      <3>2. t[i] = back[i - first + 1]
        BY <1>1, <1>2, <1>3, <1>4, <2>2, <3>1
      <3> QED  BY <1>3, <2>2, <3>1, <3>2
    <2> QED  BY <2>1, <2>2
  <1> QED  BY <1>5, <1>6 DEF n, Before

LEMMA EraseKeepsSorted ==
  ASSUME unique \in BOOLEAN, SortedSeq(unique, vect),
         NEW first \in 1 .. Len(vect) + 1, NEW last \in 1 .. Len(vect) + 1, first <= last
  PROVE  SortedSeq(unique, EraseRange(first, last))
  <1> DEFINE n == Len(vect)
             t == EraseRange(first, last)
             at(i) == Before(i, first, last)
  <1>1. vect \in Seq(Entry) /\ first \in Nat /\ first <= last /\ last \in Nat
    BY DEF SortedSeq
  <1>2. \A i, j \in 1 .. n :
          i < j => IF unique THEN vect[i].key < vect[j].key ELSE vect[i].key <= vect[j].key
    BY DEF SortedSeq
  <1>3. t \in Seq(Entry) /\ \A i \in 1 .. Len(t) : at(i) \in 1 .. n /\ t[i] = vect[at(i)]
    BY <1>1, EraseFact
  <1> HIDE DEF t, n
  <1>4. ASSUME NEW i \in 1 .. Len(t), NEW j \in 1 .. Len(t), i < j
        PROVE  IF unique THEN t[i].key < t[j].key ELSE t[i].key <= t[j].key
    <2>1. at(i) < at(j)
      BY <1>1, <1>3, <1>4 DEF Before
    <2> HIDE DEF at
    <2> QED  BY <1>2, <1>3, <2>1
  <1> QED  BY <1>3, <1>4 DEF SortedSeq, t

\* A value written over another leaves the keys alone.
LEMMA ValueKeepsSorted ==
  ASSUME NEW u \in BOOLEAN, NEW s, SortedSeq(u, s), NEW it, NEW v \in Val
  PROVE  SortedSeq(u, [s EXCEPT ![it].val = v])
  <1> DEFINE x == [s[it] EXCEPT !.val = v]
             t == [s EXCEPT ![it].val = v]
  <1>1. s \in Seq(Entry)
    BY DEF SortedSeq
  <1>2. t = [s EXCEPT ![it] = x]
    OBVIOUS
  <1>3. it \in 1 .. Len(s) => x \in Entry /\ x.key = s[it].key
    <2>1. it \in 1 .. Len(s) => s[it] \in Entry
      BY <1>1
    <2> QED  BY <2>1 DEF Entry
  <1> HIDE DEF x, t
  <1>4. t \in Seq(Entry) /\ Len(t) = Len(s)
    <2>1. s \in [1 .. Len(s) -> Entry] /\ Len(s) \in Nat
      BY <1>1
    <2>2. t \in [1 .. Len(s) -> Entry]
      BY <1>2, <1>3, <2>1
    <2>3. t \in Seq(Entry) /\ DOMAIN t = 1 .. Len(s)
      BY <2>1, <2>2
    <2> QED  BY <2>1, <2>3
  <1>5. ASSUME NEW i \in 1 .. Len(s) PROVE t[i].key = s[i].key
    <2>1. t[i] = IF i = it THEN x ELSE s[i]
      BY <1>1, <1>2
    <2> QED  BY <1>3, <2>1
  <1>6. SortedSeq(u, t)
    BY <1>4, <1>5 DEF SortedSeq
  <1> QED  BY <1>6 DEF t

-----------------------------------------------------------------------------
(***************************************************************************)
(* No operation disturbs the order, so that no lookup goes wrong.          *)
(***************************************************************************)
LEMMA SortedStep == SortedInv /\ [Next]_vars => SortedInv'
  <1> SUFFICES ASSUME SortedInv, [Next]_vars PROVE SortedInv'
    OBVIOUS
  <1>1. unique \in BOOLEAN /\ SortedSeq(unique, vect) /\ SortedSeq(unique, other)
        /\ other \in Seq(Entry)
    BY DEF SortedInv, SortedSeq
  <1>2. SortedSeq(unique, <<>>)
    BY DEF SortedSeq
  <1>3. SUFFICES /\ unique' = unique
                 /\ SortedSeq(unique, vect') /\ SortedSeq(unique, other')
    BY <1>1, Zenon DEF SortedInv, SortedSeq
  <1>4. ASSUME NEW k \in Key, NEW v \in Val, insert([key |-> k, val |-> v])
        PROVE  unique' = unique /\ SortedSeq(unique, vect') /\ SortedSeq(unique, other')
    <2>1. [key |-> k, val |-> v] \in Entry
      BY DEF Entry
    <2> QED  BY <1>1, <1>4, <2>1, OneKeepsSorted, Zenon DEF insert
  <1>5. ASSUME NEW k \in Key, NEW v \in Val, Subscript(k, v)
        PROVE  unique' = unique /\ SortedSeq(unique, vect') /\ SortedSeq(unique, other')
    <2> DEFINE s == insert_single(vect, [key |-> k, val |-> v])
    <2>1. [key |-> k, val |-> v] \in Entry
      BY DEF Entry
    <2>2. s = InsertOne(vect, [key |-> k, val |-> v])
      BY <1>5 DEF Subscript, InsertOne
    <2>3. SortedSeq(unique, s)
      BY <1>1, <2>1, <2>2, OneKeepsSorted, Zenon
    <2>4. vect' = [s EXCEPT ![lower_bound(vect, k)].val = v] /\ UNCHANGED <<unique, other>>
      BY <1>5, Zenon DEF Subscript
    <2> HIDE DEF s
    <2>5. SortedSeq(unique, vect')
      BY <1>1, <2>3, <2>4, ValueKeepsSorted, Zenon
    <2> QED  BY <1>1, <2>4, <2>5
  <1>6. ASSUME NEW first \in 1 .. Len(other) + 1, NEW last \in 1 .. Len(other) + 1, first <= last,
               NEW range, range = SubSeq(other, first, last - 1),
               InsertRange(range) \/ ConstructFrom(range)
        PROVE  unique' = unique /\ SortedSeq(unique, vect') /\ SortedSeq(unique, other')
    <2>1. range \in Seq(Entry)
      BY <1>1, <1>6, RangeFact, Zenon
    <2>2. SortedSeq(unique, InsertAll(vect, range)) /\ SortedSeq(unique, InsertAll(<<>>, range))
      BY <1>1, <1>2, <2>1, AllKeepSorted, Zenon
    <2> QED  BY <1>1, <1>6, <2>2, Zenon DEF InsertRange, ConstructFrom
  <1>7. ASSUME NEW k \in Key, erase(k)
        PROVE  unique' = unique /\ SortedSeq(unique, vect') /\ SortedSeq(unique, other')
    <2>1. /\ lower_bound(vect, k) \in 1 .. Len(vect) + 1
          /\ upper_bound(vect, k) \in 1 .. Len(vect) + 1
          /\ lower_bound(vect, k) <= upper_bound(vect, k)
      BY <1>1, BoundsFact, Zenon
    <2>2. SortedSeq(unique, EraseRange(lower_bound(vect, k), upper_bound(vect, k)))
      BY <1>1, <2>1, EraseKeepsSorted, Zenon
    <2> QED  BY <1>1, <1>7, <2>2, Zenon DEF erase
  <1>8. ASSUME NEW first \in 1 .. Len(vect) + 1, NEW last \in 1 .. Len(vect) + 1, first <= last,
               EraseIt(first, last)
        PROVE  unique' = unique /\ SortedSeq(unique, vect') /\ SortedSeq(unique, other')
    <2>1. SortedSeq(unique, EraseRange(first, last))
      BY <1>1, <1>8, EraseKeepsSorted, Zenon
    <2> QED  BY <1>1, <1>8, <2>1, Zenon DEF EraseIt
  <1>9. CASE clear \/ Copy \/ swap
    BY <1>1, <1>2, <1>9 DEF clear, Copy, swap
  <1>10. CASE UNCHANGED vars
    BY <1>1, <1>10 DEF vars
  <1> QED  BY <1>4, <1>5, <1>6, <1>7, <1>8, <1>9, <1>10, Zenon DEF Next

LEMMA AlwaysSorted == Spec => []SortedInv
  <1>1. Init => SortedInv
    BY DEF Init, SortedInv, SortedSeq
  <1> QED  BY <1>1, SortedStep, PTL DEF Spec

(***************************************************************************)
(* Whatever is inserted, erased, copied and swapped, the vector of a       *)
(* container stays sorted, and that of a unique one without a repeated key *)
(* (flat_map.h: insert_single, insert_multi, erase, operator[]).           *)
(***************************************************************************)
THEOREM StaysSorted == Spec => []Sorted
  <1>1. SortedInv => Sorted
    <2> SUFFICES ASSUME SortedInv, NEW s \in {vect, other}
                 PROVE  /\ s \in Seq(Entry)
                        /\ \A i, j \in DOMAIN s : i < j =>
                             IF unique THEN s[i].key < s[j].key ELSE s[i].key <= s[j].key
      BY Zenon DEF Sorted
    <2>1. SortedSeq(unique, s)
      BY DEF SortedInv
    <2> QED  BY <2>1 DEF SortedSeq
  <1> QED  BY <1>1, AlwaysSorted, PTL

(***************************************************************************)
(* So find, count and equal_range see exactly the entries that are there,  *)
(* in every container that the operations can build.                       *)
(***************************************************************************)
THEOREM LookupsRight == Spec => []LookupsAgree
  BY SearchesRight, AlwaysSorted, PTL

-----------------------------------------------------------------------------
(***************************************************************************)
(* What the values of a key are, when its entries stand together.          *)
(***************************************************************************)
Piece(s, lo, hi) == [n \in 1 .. hi - lo |-> s[lo + n - 1].val]

LEMMA PieceFact ==
  ASSUME NEW s \in Seq(Entry), NEW lo \in 1 .. Len(s) + 1, NEW hi \in lo .. Len(s) + 1
  PROVE  /\ Piece(s, lo, hi) \in Seq(Val) /\ Len(Piece(s, lo, hi)) = hi - lo
         /\ \A n \in 1 .. hi - lo : Piece(s, lo, hi)[n] = s[lo + n - 1].val
  <1>1. ASSUME NEW n \in 1 .. hi - lo PROVE s[lo + n - 1].val \in Val
    <2>1. lo + n - 1 \in 1 .. Len(s)
      OBVIOUS
    <2>2. s[lo + n - 1] \in Entry
      BY <2>1
    <2> QED  BY <2>2 DEF Entry
  <1>2. hi - lo \in Nat
    OBVIOUS
  <1> QED  BY <1>1, <1>2 DEF Piece

LEMMA ValuesFact ==
  ASSUME NEW s \in Seq(Entry), NEW k \in Key, NEW lo \in 1 .. Len(s) + 1, NEW hi \in lo .. Len(s) + 1,
         \A i \in 1 .. Len(s) : s[i].key = k <=> lo <= i /\ i < hi
  PROVE  ValuesOf(s)[k] = Piece(s, lo, hi)
  <1> DEFINE at == {i \in DOMAIN s : s[i].key = k}
             Nth(n) == CHOOSE i \in at : Cardinality({j \in at : j < i}) = n - 1
  <1>1. at = lo .. hi - 1
    OBVIOUS
  <1>2. ValuesOf(s)[k] = [n \in 1 .. Cardinality(at) |-> s[Nth(n)].val]
    BY DEF ValuesOf
  <1> HIDE DEF at
  <1>3. Cardinality(at) = hi - lo
    <2>1. lo \in Int /\ hi - 1 \in Int /\ (IF lo > hi - 1 THEN 0 ELSE (hi - 1) - lo + 1) = hi - lo
      OBVIOUS
    <2> QED  BY <1>1, <2>1, FS_Interval
  <1>4. ASSUME NEW i \in at PROVE Cardinality({j \in at : j < i}) = i - lo
    <2>1. {j \in at : j < i} = lo .. i - 1
      BY <1>1
    <2>2. lo \in Int /\ i - 1 \in Int /\ (IF lo > i - 1 THEN 0 ELSE (i - 1) - lo + 1) = i - lo
      BY <1>1
    <2> QED  BY <2>1, <2>2, FS_Interval
  <1>5. ASSUME NEW n \in 1 .. hi - lo PROVE Nth(n) = lo + n - 1
    <2>1. lo + n - 1 \in at /\ (lo + n - 1) - lo = n - 1
      BY <1>1
    <2>2. Cardinality({j \in at : j < lo + n - 1}) = n - 1
      BY <1>4, <2>1
    <2>3. Nth(n) \in at /\ Cardinality({j \in at : j < Nth(n)}) = n - 1
      BY <2>1, <2>2
    <2> HIDE DEF Nth
    <2>4. Nth(n) - lo = n - 1
      BY <1>4, <2>3
    <2> QED  BY <1>1, <2>3, <2>4
  <1> HIDE DEF Nth
  <1> QED  BY <1>2, <1>3, <1>5 DEF Piece

\* A sorted vector and the bounds of a key in it.
LEMMA SortedValues ==
  ASSUME NEW u \in BOOLEAN, NEW s, SortedSeq(u, s), NEW k \in Key,
         NEW lo, lo = lower_bound(s, k), NEW hi, hi = upper_bound(s, k)
  PROVE  /\ lo \in 1 .. Len(s) + 1 /\ hi \in lo .. Len(s) + 1
         /\ \A i \in 1 .. Len(s) : s[i].key < k <=> i < lo
         /\ \A i \in 1 .. Len(s) : s[i].key <= k <=> i < hi
         /\ \A i \in 1 .. Len(s) : s[i].key = k <=> lo <= i /\ i < hi
         /\ ValuesOf(s)[k] = Piece(s, lo, hi)
  <1>1. s \in Seq(Entry) /\ Len(s) \in Nat /\ k \in Int
    BY FlatMapAssumption DEF SortedSeq
  <1>2. /\ lo \in 1 .. Len(s) + 1 /\ hi \in 1 .. Len(s) + 1 /\ lo <= hi
        /\ \A i \in 1 .. Len(s) : s[i].key < k <=> i < lo
        /\ \A i \in 1 .. Len(s) : s[i].key <= k <=> i < hi
    BY BoundsFact
  <1>3. hi \in lo .. Len(s) + 1
    BY <1>1, <1>2
  <1>4. ASSUME NEW i \in 1 .. Len(s) PROVE s[i].key = k <=> lo <= i /\ i < hi
    <2>1. s[i].key \in Int
      BY <1>1, EntryFact
    <2>2. s[i].key = k <=> ~(s[i].key < k) /\ s[i].key <= k
      BY <1>1, <2>1
    <2> QED  BY <1>1, <1>2, <2>2
  <1>5. ValuesOf(s)[k] = Piece(s, lo, hi)
    BY <1>1, <1>2, <1>3, <1>4, ValuesFact
  <1> QED  BY <1>2, <1>3, <1>4, <1>5

\* An insert puts a value in front of those of its key.
LEMMA InsertValues ==
  ASSUME NEW u \in BOOLEAN, NEW s, SortedSeq(u, s), NEW x \in Entry,
         NEW it, it = lower_bound(s, x.key), NEW t, t = InsertAt(s, it, x), NEW k \in Key
  PROVE  ValuesOf(t)[k] = IF k = x.key THEN <<x.val>> \o ValuesOf(s)[k] ELSE ValuesOf(s)[k]
  <1> DEFINE n == Len(s)
             c == x.key
             lo == lower_bound(s, k)
             hi == upper_bound(s, k)
  <1>1. s \in Seq(Entry) /\ n \in Nat /\ c \in Key /\ c \in Int /\ k \in Int
    <2>1. c \in Key
      BY DEF Entry
    <2>2. s \in Seq(Entry) /\ Len(s) \in Nat
      BY DEF SortedSeq
    <2> QED  BY <2>1, <2>2, FlatMapAssumption
  <1>2. /\ it \in 1 .. n + 1
        /\ \A i \in 1 .. n : s[i].key < c <=> i < it
    BY <1>1, BoundsFact
  <1>3. /\ t \in Seq(Entry) /\ Len(t) = n + 1
        /\ \A i \in 1 .. n + 1 : t[i] = IF i < it THEN s[i] ELSE IF i = it THEN x ELSE s[i - 1]
    <2>1. /\ t \in Seq(Entry) /\ Len(t) = Len(s) + 1
          /\ \A i \in 1 .. Len(t) : t[i] = IF i < it THEN s[i] ELSE IF i = it THEN x ELSE s[i - 1]
      BY <1>1, <1>2, InsertAtFact
    <2> QED  BY <2>1
  <1>4. /\ lo \in 1 .. n + 1 /\ hi \in lo .. n + 1
        /\ \A i \in 1 .. n : s[i].key < k <=> i < lo
        /\ \A i \in 1 .. n : s[i].key <= k <=> i < hi
        /\ \A i \in 1 .. n : s[i].key = k <=> lo <= i /\ i < hi
        /\ ValuesOf(s)[k] = Piece(s, lo, hi)
    <2>1. lo = lower_bound(s, k) /\ hi = upper_bound(s, k)
      OBVIOUS
    <2> HIDE DEF lo, hi
    <2> QED  BY <2>1, SortedValues
  <1>5. \A i \in 1 .. n : s[i].key \in Int
    BY <1>1, EntryFact
  <1> HIDE DEF n, lo, hi
  <1>6. CASE k = c
    <2>1. lo = it
      BY <1>6 DEF lo
    <2>2. ASSUME NEW i \in 1 .. Len(t) PROVE t[i].key = k <=> it <= i /\ i < hi + 1
      <3>1. CASE i < it
        <4>1. i \in 1 .. n /\ t[i] = s[i]
          BY <1>1, <1>2, <1>3, <3>1
        <4> QED  BY <1>4, <2>1, <3>1, <4>1
      <3>2. CASE i = it
        BY <1>1, <1>2, <1>3, <1>4, <1>6, <2>1, <3>2
      <3>3. CASE i > it
        <4>1. i - 1 \in 1 .. n /\ t[i] = s[i - 1]
          BY <1>1, <1>2, <1>3, <3>3
        <4>2. s[i - 1].key = k <=> lo <= i - 1 /\ i - 1 < hi
          BY <1>4, <4>1
        <4> QED  BY <1>1, <1>2, <1>4, <2>1, <3>3, <4>1, <4>2
      <3> QED  BY <1>2, <3>1, <3>2, <3>3
    <2>3. it \in 1 .. Len(t) + 1 /\ hi + 1 \in it .. Len(t) + 1
      BY <1>1, <1>2, <1>3, <1>4, <2>1
    <2>4. ValuesOf(t)[k] = Piece(t, it, hi + 1)
      BY <1>3, <2>2, <2>3, ValuesFact
    <2> DEFINE P == Piece(s, lo, hi)
    <2>5. /\ P \in Seq(Val) /\ Len(P) = hi - lo
          /\ \A m \in 1 .. hi - lo : P[m] = s[lo + m - 1].val
      BY <1>1, <1>4, PieceFact DEF n
    <2> HIDE DEF P
    <2> DEFINE Q == <<x.val>> \o P
    <2>6. /\ Q \in Seq(Val) /\ Len(Q) = (hi - lo) + 1 /\ Q[1] = x.val
          /\ \A m \in 2 .. (hi - lo) + 1 : Q[m] = P[m - 1]
      <3>1. <<x.val>> \in Seq(Val) /\ hi - lo \in Nat
        BY <1>4 DEF Entry
      <3> QED  BY <2>5, <3>1
    <2> HIDE DEF Q
    <2>7. Piece(t, it, hi + 1) \in Seq(Val) /\ Len(Piece(t, it, hi + 1)) = (hi + 1) - it
          /\ \A m \in 1 .. (hi + 1) - it : Piece(t, it, hi + 1)[m] = t[it + m - 1].val
      BY <1>3, <2>3, PieceFact
    <2>8. ASSUME NEW m \in 1 .. (hi + 1) - it
          PROVE  Piece(t, it, hi + 1)[m] = Q[m]
      <3>1. CASE m = 1
        <4>1. it + m - 1 = it /\ it \in 1 .. n + 1
          BY <1>2, <3>1
        <4>2. t[it] = x
          BY <1>2, <1>3, <4>1
        <4> QED  BY <2>6, <2>7, <3>1, <4>1, <4>2
      <3>2. CASE m # 1
        <4>1. m - 1 \in 1 .. hi - lo /\ m \in 2 .. (hi - lo) + 1
          BY <1>2, <1>4, <2>1, <3>2
        <4>2. it + m - 1 \in 1 .. n + 1 /\ it + m - 1 > it
              /\ (it + m - 1) - 1 = lo + (m - 1) - 1
          <5>1. it \in Int /\ n \in Int /\ m \in Int /\ m >= 2 /\ hi <= n + 1 /\ m - 1 <= hi - it
                /\ it >= 1 /\ hi \in Int
            BY <1>1, <1>2, <1>4, <2>1, <4>1
          <5> QED  BY <2>1, <5>1
        <4>3. t[it + m - 1] = s[lo + (m - 1) - 1]
          BY <1>2, <1>3, <4>2
        <4> QED  BY <2>5, <2>6, <2>7, <4>1, <4>3
      <3> QED  BY <3>1, <3>2
    <2>9. (hi + 1) - it = (hi - lo) + 1
      BY <1>2, <1>4, <2>1
    <2>10. Piece(t, it, hi + 1) = Q
      BY <2>6, <2>7, <2>8, <2>9, SeqEqual
    <2> QED  BY <1>4, <1>6, <2>4, <2>10 DEF Q, P
  <1>7. CASE k < c
    <2>1. hi <= it
      <3> SUFFICES ASSUME it < hi PROVE FALSE
        BY <1>1, <1>2, <1>4
      <3>1. it \in 1 .. n
        BY <1>1, <1>2, <1>4
      <3>2. s[it].key <= k /\ s[it].key \in Int /\ ~(s[it].key < c)
        BY <1>2, <1>4, <1>5, <3>1
      <3> QED  BY <1>1, <1>7, <3>2
    <2>2. ASSUME NEW i \in 1 .. Len(t) PROVE t[i].key = k <=> lo <= i /\ i < hi
      <3>1. CASE i < it
        <4>1. i \in 1 .. n /\ t[i] = s[i]
          BY <1>1, <1>2, <1>3, <3>1
        <4> QED  BY <1>4, <4>1
      <3>2. CASE i = it
        BY <1>1, <1>2, <1>3, <1>4, <1>7, <2>1, <3>2
      <3>3. CASE i > it
        <4>1. i - 1 \in 1 .. n /\ t[i] = s[i - 1] /\ ~(i - 1 < hi)
          BY <1>1, <1>2, <1>3, <1>4, <2>1, <3>3
        <4>2. s[i - 1].key # k
          BY <1>4, <4>1
        <4> QED  BY <1>2, <1>4, <2>1, <3>3, <4>1, <4>2
      <3> QED  BY <1>2, <3>1, <3>2, <3>3
    <2>3. lo \in 1 .. Len(t) + 1 /\ hi \in lo .. Len(t) + 1
      BY <1>1, <1>3, <1>4
    <2>4. ValuesOf(t)[k] = Piece(t, lo, hi)
      BY <1>3, <2>2, <2>3, ValuesFact
    <2>5. ASSUME NEW m \in 1 .. hi - lo PROVE t[lo + m - 1] = s[lo + m - 1]
      <3>1. lo + m - 1 \in 1 .. n + 1 /\ lo + m - 1 < it
        BY <1>1, <1>2, <1>4, <2>1
      <3> QED  BY <1>3, <3>1
    <2>6. Piece(t, lo, hi) = Piece(s, lo, hi)
      BY <2>5 DEF Piece
    <2> QED  BY <1>1, <1>4, <1>7, <2>4, <2>6
  <1>8. CASE c < k
    <2>1. it <= lo
      <3> SUFFICES ASSUME lo < it PROVE FALSE
        BY <1>1, <1>2, <1>4
      <3>1. lo \in 1 .. n
        BY <1>1, <1>2, <1>4
      <3>2. s[lo].key < c /\ s[lo].key \in Int /\ ~(s[lo].key < k)
        BY <1>2, <1>4, <1>5, <3>1
      <3> QED  BY <1>1, <1>8, <3>2
    <2>2. ASSUME NEW i \in 1 .. Len(t) PROVE t[i].key = k <=> lo + 1 <= i /\ i < hi + 1
      <3>1. CASE i < it
        <4>1. i \in 1 .. n /\ t[i] = s[i] /\ i < lo
          BY <1>1, <1>2, <1>3, <1>4, <2>1, <3>1
        <4> QED  BY <1>4, <4>1
      <3>2. CASE i = it
        BY <1>1, <1>2, <1>3, <1>4, <1>8, <2>1, <3>2
      <3>3. CASE i > it
        <4>1. i - 1 \in 1 .. n /\ t[i] = s[i - 1]
          BY <1>1, <1>2, <1>3, <3>3
        <4>2. s[i - 1].key = k <=> lo <= i - 1 /\ i - 1 < hi
          BY <1>4, <4>1
        <4> QED  BY <1>4, <4>1, <4>2
      <3> QED  BY <1>2, <3>1, <3>2, <3>3
    <2>3. lo + 1 \in 1 .. Len(t) + 1 /\ hi + 1 \in lo + 1 .. Len(t) + 1
      BY <1>1, <1>3, <1>4
    <2>4. ValuesOf(t)[k] = Piece(t, lo + 1, hi + 1)
      BY <1>3, <2>2, <2>3, ValuesFact
    <2>5. ASSUME NEW m \in 1 .. hi - lo PROVE t[(lo + 1) + m - 1] = s[lo + m - 1]
      <3>1. (lo + 1) + m - 1 \in 1 .. n + 1 /\ (lo + 1) + m - 1 > it
            /\ ((lo + 1) + m - 1) - 1 = lo + m - 1
        BY <1>1, <1>2, <1>4, <2>1
      <3> QED  BY <1>2, <1>3, <3>1
    <2>6. Piece(t, lo + 1, hi + 1) = Piece(s, lo, hi)
      <3>1. (hi + 1) - (lo + 1) = hi - lo
        BY <1>4
      <3> QED  BY <2>5, <3>1 DEF Piece
    <2> QED  BY <1>1, <1>4, <1>8, <2>4, <2>6
  <1> QED  BY <1>1, <1>6, <1>7, <1>8

\* What Multimap says of values that come.
LEMMA WithNothing ==
  ASSUME NEW old \in Seq(Val)
  PROVE  Promise!With(old, <<>>) = old
  <1>1. Reverse(<<>>) = <<>> /\ <<>> \o old = old
    <2>1. Reverse(<<>>) = <<>>
      BY DEF Reverse
    <2> QED  BY <2>1
  <1> QED  BY <1>1 DEF Promise!With, Promise!Reverse, Reverse

LEMMA WithFact ==
  ASSUME unique \in BOOLEAN, NEW old \in Seq(Val), NEW more \in Seq(Val), NEW v \in Val
  PROVE  /\ Promise!With(old, <<>>) = old
         /\ Promise!With(old, <<v>>) = IF unique /\ old # <<>> THEN old ELSE <<v>> \o old
         /\ Promise!With(old, Append(more, v)) = Promise!With(Promise!With(old, more), <<v>>)
         /\ Promise!With(old, more) \in Seq(Val)
  <1>1. <<v>> \in Seq(Val) /\ Append(more, v) \in Seq(Val) /\ Append(more, v) # <<>>
    OBVIOUS
  <1>2. CASE unique
    <2>1. \A a, b : Promise!With(a, b) = IF a # <<>> \/ b = <<>> THEN a ELSE <<Head(b)>>
      BY <1>2 DEF Promise!With
    <2>2. <<v>> \o <<>> = <<v>> /\ <<v>> # <<>> /\ Head(<<v>>) = v
      OBVIOUS
    <2>3. more = <<>> => Head(Append(more, v)) = v
      OBVIOUS
    <2>4. more # <<>> => Head(Append(more, v)) = Head(more) /\ Head(more) \in Val
      OBVIOUS
    <2>5. \A x \in Val : <<x>> \in Seq(Val) /\ <<x>> # <<>>
      OBVIOUS
    <2> QED  BY <1>1, <1>2, <2>1, <2>2, <2>3, <2>4, <2>5
  <1>3. CASE ~unique
    <2>1. \A a, b : Promise!With(a, b) = Reverse(b) \o a
      BY <1>3 DEF Promise!With, Promise!Reverse, Reverse
    <2>2. Reverse(more) \in Seq(Val) /\ Len(Reverse(more)) = Len(more)
          /\ \A i \in 1 .. Len(more) : Reverse(more)[i] = more[Len(more) - i + 1]
      <3>1. \A i \in 1 .. Len(more) : Len(more) - i + 1 \in 1 .. Len(more)
        OBVIOUS
      <3> QED  BY <3>1 DEF Reverse
    <2>3. Reverse(<<>>) = <<>> /\ <<>> \o old = old
      <3>1. Reverse(<<>>) = <<>>
        BY DEF Reverse
      <3> QED  BY <3>1
    <2>4. Reverse(<<v>>) = <<v>>
      <3>1. Len(Reverse(<<v>>)) = 1 /\ Reverse(<<v>>)[1] = v /\ Reverse(<<v>>) \in Seq(Val)
        BY DEF Reverse
      <3> QED  BY <1>1, <3>1, SeqEqual
    <2>5. Reverse(Append(more, v)) = <<v>> \o Reverse(more)
      <3> DEFINE a == Reverse(Append(more, v))
                 b == <<v>> \o Reverse(more)
                 N == Len(more) + 1
      <3>1. Append(more, v) \in Seq(Val) /\ Len(Append(more, v)) = N
            /\ \A j \in 1 .. N : Append(more, v)[j] = IF j = N THEN v ELSE more[j]
        OBVIOUS
      <3>2. \A i \in 1 .. N : N - i + 1 \in 1 .. N
        OBVIOUS
      <3>3. a \in Seq(Val) /\ Len(a) = N
            /\ \A i \in 1 .. N : a[i] = Append(more, v)[N - i + 1]
        BY <3>1, <3>2 DEF Reverse
      <3>4. b \in Seq(Val) /\ Len(b) = N /\ b[1] = v
            /\ \A i \in 2 .. N : b[i] = Reverse(more)[i - 1]
        BY <1>1, <2>2
      <3> HIDE DEF a, b
      <3>5. ASSUME NEW i \in 1 .. N PROVE a[i] = b[i]
        <4>1. CASE i = 1
          <5>1. N - i + 1 = N /\ N \in 1 .. N
            BY <4>1
          <5> QED  BY <3>1, <3>3, <3>4, <4>1, <5>1
        <4>2. CASE i # 1
          <5>1. i \in 2 .. N /\ i - 1 \in 1 .. Len(more) /\ N - i + 1 \in 1 .. N /\ N - i + 1 # N
                /\ Len(more) - (i - 1) + 1 = N - i + 1
            BY <4>2
          <5>2. a[i] = more[N - i + 1]
            BY <3>1, <3>3, <5>1
          <5>3. b[i] = more[N - i + 1]
            BY <2>2, <3>4, <5>1
          <5> QED  BY <5>2, <5>3
        <4> QED  BY <4>1, <4>2
      <3>6. a = b
        BY <3>3, <3>4, <3>5, SeqEqual
      <3> QED  BY <3>6 DEF a, b
    <2>6. (<<v>> \o Reverse(more)) \o old = <<v>> \o (Reverse(more) \o old)
      BY <1>1, <2>2, ConcatAssociative
    <2>7. Reverse(more) \o old \in Seq(Val)
      BY <2>2
    <2> QED  BY <1>3, <2>1, <2>3, <2>4, <2>5, <2>6, <2>7, Zenon
  <1> QED  BY <1>2, <1>3

LEMMA OneValues ==
  ASSUME unique \in BOOLEAN, NEW s, SortedSeq(unique, s), NEW x \in Entry, NEW k \in Key
  PROVE  ValuesOf(InsertOne(s, x))[k] =
           IF k = x.key THEN Promise!With(ValuesOf(s)[k], <<x.val>>) ELSE ValuesOf(s)[k]
  <1> DEFINE it == lower_bound(s, x.key)
             hi == upper_bound(s, x.key)
             old == ValuesOf(s)[x.key]
  <1>1. x.key \in Key /\ x.val \in Val /\ s \in Seq(Entry) /\ Len(s) \in Nat /\ x.key \in Int
    <2>1. x.key \in Key /\ x.val \in Val
      BY DEF Entry
    <2>2. s \in Seq(Entry) /\ Len(s) \in Nat
      BY DEF SortedSeq
    <2> QED  BY <2>1, <2>2, FlatMapAssumption
  <1>2. /\ it \in 1 .. Len(s) + 1 /\ hi \in it .. Len(s) + 1
        /\ \A i \in 1 .. Len(s) : s[i].key < x.key <=> i < it
        /\ \A i \in 1 .. Len(s) : s[i].key <= x.key <=> i < hi
        /\ old = Piece(s, it, hi)
    <2>1. it = lower_bound(s, x.key) /\ hi = upper_bound(s, x.key)
      OBVIOUS
    <2> HIDE DEF it, hi
    <2> QED  BY <1>1, <2>1, SortedValues
  <1>3. old \in Seq(Val) /\ Len(old) = hi - it
    BY <1>1, <1>2, PieceFact
  <1>4. ValuesOf(InsertAt(s, it, x))[k] = IF k = x.key THEN <<x.val>> \o old ELSE ValuesOf(s)[k]
    <2>1. ValuesOf(InsertAt(s, it, x))[k]
            = IF k = x.key THEN <<x.val>> \o ValuesOf(s)[k] ELSE ValuesOf(s)[k]
      BY InsertValues
    <2> QED  BY <2>1
  <1>5. Promise!With(old, <<x.val>>) = IF unique /\ old # <<>> THEN old ELSE <<x.val>> \o old
    BY <1>1, <1>3, WithFact
  <1> HIDE DEF it, hi, old
  <1>6. InsertOne(s, x) = IF unique /\ ~(it > Len(s) \/ x.key < s[it].key) THEN s
                          ELSE InsertAt(s, it, x)
    BY Zenon DEF InsertOne, insert_single, insert_multi, it
  <1>7. ~(it > Len(s) \/ x.key < s[it].key) <=> old # <<>>
    <2>1. CASE it <= Len(s)
      <3>1. it \in 1 .. Len(s) /\ s[it].key \in Int
        BY <1>1, <1>2, <2>1, EntryFact
      <3>2. ~(x.key < s[it].key) <=> it < hi
        BY <1>1, <1>2, <3>1
      <3>3. it < hi <=> Len(old) # 0
        BY <1>2, <1>3
      <3>4. Len(old) # 0 <=> old # <<>>
        BY <1>3
      <3> QED  BY <2>1, <3>1, <3>2, <3>3, <3>4
    <2>2. CASE it > Len(s)
      <3>1. Len(old) = 0
        BY <1>1, <1>2, <1>3, <2>2
      <3>2. old = <<>>
        BY <1>3, <3>1
      <3> QED  BY <2>2, <3>2
    <2> QED  BY <1>1, <1>2, <2>1, <2>2
  <1>8. CASE k = x.key
    <2>1. ValuesOf(s)[k] = old
      BY <1>8 DEF old
    <2>2. CASE unique /\ old # <<>>
      <3>1. InsertOne(s, x) = s
        BY <1>6, <1>7, <2>2, Zenon
      <3>2. Promise!With(ValuesOf(s)[k], <<x.val>>) = old
        BY <1>5, <2>1, <2>2, Zenon
      <3> QED  BY <1>8, <2>1, <3>1, <3>2, Zenon
    <2>3. CASE ~(unique /\ old # <<>>)
      <3>1. InsertOne(s, x) = InsertAt(s, it, x)
        BY <1>6, <1>7, <2>3, Zenon
      <3>2. Promise!With(ValuesOf(s)[k], <<x.val>>) = <<x.val>> \o old
        BY <1>5, <2>1, <2>3, Zenon
      <3> QED  BY <1>4, <1>8, <3>1, <3>2, Zenon
    <2> QED  BY <2>2, <2>3
  <1>9. CASE k # x.key
    BY <1>4, <1>6, <1>9, Zenon
  <1> QED  BY <1>8, <1>9

\* The values in a window of a sorted vector: those of the key that it covers.
Clamp(x, first, last) == IF x < first THEN first ELSE IF x > last THEN last ELSE x

LEMMA WindowValues ==
  ASSUME NEW u \in BOOLEAN, NEW s, SortedSeq(u, s), NEW k \in Key,
         NEW first \in 1 .. Len(s) + 1, NEW last \in first .. Len(s) + 1,
         NEW a, a = Clamp(lower_bound(s, k), first, last),
         NEW b, b = Clamp(upper_bound(s, k), first, last)
  PROVE  /\ a \in first .. last /\ b \in a .. last
         /\ ValuesOf(SubSeq(s, first, last - 1))[k] = Piece(s, a, b)
  <1> DEFINE t == SubSeq(s, first, last - 1)
             lo == lower_bound(s, k)
             hi == upper_bound(s, k)
             from == a - first + 1
             to == b - first + 1
  <1>1. s \in Seq(Entry) /\ Len(s) \in Nat /\ first \in Int /\ last \in Int
        /\ 1 <= first /\ first <= last /\ last <= Len(s) + 1
    BY DEF SortedSeq
  <1>2. /\ lo \in 1 .. Len(s) + 1 /\ hi \in lo .. Len(s) + 1
        /\ \A i \in 1 .. Len(s) : s[i].key = k <=> lo <= i /\ i < hi
    <2>1. lo = lower_bound(s, k) /\ hi = upper_bound(s, k)
      OBVIOUS
    <2> HIDE DEF lo, hi
    <2> QED  BY <2>1, SortedValues
  <1>3. a = Clamp(lo, first, last) /\ b = Clamp(hi, first, last)
    OBVIOUS
  <1>4. t \in Seq(Entry) /\ Len(t) = last - first
        /\ \A i \in 1 .. last - first : t[i] = s[first + i - 1]
    BY <1>1
  <1> HIDE DEF lo, hi, t
  <1>5. a \in Int /\ b \in Int /\ first <= a /\ a <= b /\ b <= last
    BY <1>1, <1>2, <1>3 DEF Clamp
  <1>6. from \in 1 .. Len(t) + 1 /\ to \in from .. Len(t) + 1
    BY <1>1, <1>4, <1>5
  <1>7. ASSUME NEW i \in 1 .. Len(t) PROVE t[i].key = k <=> from <= i /\ i < to
    <2>1. i \in 1 .. last - first
      BY <1>4
    <2>2. first + i - 1 \in 1 .. Len(s) /\ first <= first + i - 1 /\ first + i - 1 < last
      BY <1>1, <2>1
    <2>3. t[i].key = k <=> lo <= first + i - 1 /\ first + i - 1 < hi
      BY <1>2, <1>4, <2>1, <2>2
    <2>4. lo <= first + i - 1 <=> a <= first + i - 1
      BY <1>1, <1>2, <1>3, <2>2 DEF Clamp
    <2>5. first + i - 1 < hi <=> first + i - 1 < b
      BY <1>1, <1>2, <1>3, <2>2 DEF Clamp
    <2>6. from <= i /\ i < to <=> a <= first + i - 1 /\ first + i - 1 < b
      BY <1>1, <1>5, <2>1
    <2> QED  BY <2>3, <2>4, <2>5, <2>6
  <1> HIDE DEF from, to
  <1>8. ValuesOf(t)[k] = Piece(t, from, to)
    BY <1>4, <1>6, <1>7, ValuesFact
  <1>9. Piece(t, from, to) = Piece(s, a, b)
    <2>1. to - from = b - a
      BY <1>1, <1>5 DEF from, to
    <2>2. ASSUME NEW m \in 1 .. b - a PROVE t[from + m - 1] = s[a + m - 1]
      <3>1. from + m - 1 \in 1 .. last - first /\ first + (from + m - 1) - 1 = a + m - 1
        BY <1>1, <1>5 DEF from
      <3> QED  BY <1>4, <3>1
    <2> QED  BY <2>1, <2>2 DEF Piece
  <1>10. a \in first .. last /\ b \in a .. last
    BY <1>1, <1>5
  <1> QED  BY <1>8, <1>9, <1>10 DEF t

\* The values of the first n entries, from those of the first n - 1.
LEMMA PrefixValues ==
  ASSUME NEW u \in BOOLEAN, NEW s, SortedSeq(u, s), NEW n \in 1 .. Len(s), NEW k \in Key
  PROVE  ValuesOf(SubSeq(s, 1, n))[k] =
           IF k = s[n].key THEN Append(ValuesOf(SubSeq(s, 1, n - 1))[k], s[n].val)
           ELSE ValuesOf(SubSeq(s, 1, n - 1))[k]
  <1> DEFINE lo == lower_bound(s, k)
             hi == upper_bound(s, k)
             part(m) == SubSeq(s, 1, m)
             low(m) == Clamp(lo, 1, m + 1)
             high(m) == Clamp(hi, 1, m + 1)
  <1>1. s \in Seq(Entry) /\ Len(s) \in Nat /\ n \in Int /\ 1 <= n /\ n <= Len(s)
    BY DEF SortedSeq
  <1>2. /\ lo \in 1 .. Len(s) + 1 /\ hi \in lo .. Len(s) + 1
        /\ \A i \in 1 .. Len(s) : s[i].key = k <=> lo <= i /\ i < hi
    <2>1. lo = lower_bound(s, k) /\ hi = upper_bound(s, k)
      OBVIOUS
    <2> HIDE DEF lo, hi
    <2> QED  BY <2>1, SortedValues
  <1>3. ASSUME NEW m \in n - 1 .. n PROVE ValuesOf(part(m))[k] = Piece(s, low(m), high(m))
    <2> DEFINE a == low(m)
               b == high(m)
               last == m + 1
    <2>1. 1 \in 1 .. Len(s) + 1 /\ last \in 1 .. Len(s) + 1
      BY <1>1
    <2>2. a = Clamp(lower_bound(s, k), 1, last) /\ b = Clamp(upper_bound(s, k), 1, last)
      OBVIOUS
    <2> HIDE DEF a, b, last
    <2>3. ValuesOf(SubSeq(s, 1, last - 1))[k] = Piece(s, a, b)
      BY <2>1, <2>2, WindowValues, SMTT(30)
    <2>4. last - 1 = m
      BY <1>1 DEF last
    <2> QED  BY <2>3, <2>4 DEF a, b
  <1>4. /\ ValuesOf(part(n))[k] = Piece(s, low(n), high(n))
        /\ ValuesOf(part(n - 1))[k] = Piece(s, low(n - 1), high(n - 1))
    <2>1. n \in n - 1 .. n /\ n - 1 \in n - 1 .. n
      BY <1>1
    <2> HIDE DEF part, low, high
    <2> QED  BY <1>3, <2>1
  <1> HIDE DEF lo, hi, part
  <1>5. CASE k = s[n].key
    <2>1. lo \in Int /\ lo <= n /\ n < hi /\ 1 <= lo /\ hi \in Int
      BY <1>1, <1>2, <1>5
    <2>2. low(n) = lo /\ high(n) = n + 1 /\ low(n - 1) = lo /\ high(n - 1) = n
      BY <1>1, <2>1 DEF Clamp
    <2> DEFINE P == Piece(s, lo, n + 1)
               Q == Piece(s, lo, n)
    <2> HIDE DEF low, high
    <2>3. ValuesOf(part(n))[k] = P /\ ValuesOf(part(n - 1))[k] = Q
      BY <1>4, <2>2
    <2>4. lo \in 1 .. Len(s) + 1 /\ n \in lo .. Len(s) + 1 /\ n + 1 \in lo .. Len(s) + 1
      BY <1>1, <2>1
    <2>5. /\ P \in Seq(Val) /\ Len(P) = (n + 1) - lo
          /\ \A j \in 1 .. (n + 1) - lo : P[j] = s[lo + j - 1].val
      BY <1>1, <2>4, PieceFact
    <2>6. /\ Q \in Seq(Val) /\ Len(Q) = n - lo
          /\ \A j \in 1 .. n - lo : Q[j] = s[lo + j - 1].val
      BY <1>1, <2>4, PieceFact
    <2> HIDE DEF P, Q
    <2>7. s[n].val \in Val
      <3>1. s[n] \in Entry
        BY <1>1
      <3> QED  BY <3>1 DEF Entry
    <2> DEFINE R == Append(Q, s[n].val)
    <2>8. /\ R \in Seq(Val) /\ Len(R) = (n - lo) + 1
          /\ \A j \in 1 .. (n - lo) + 1 : R[j] = IF j = (n - lo) + 1 THEN s[n].val ELSE Q[j]
      BY <2>6, <2>7
    <2> HIDE DEF R
    <2>9. (n - lo) + 1 = (n + 1) - lo
      BY <1>1, <2>1
    <2>10. ASSUME NEW j \in 1 .. (n + 1) - lo PROVE P[j] = R[j]
      <3>1. CASE j = (n + 1) - lo
        <4>1. lo + j - 1 = n
          BY <1>1, <2>1, <3>1
        <4> QED  BY <2>5, <2>8, <2>9, <3>1, <4>1
      <3>2. CASE j # (n + 1) - lo
        <4>1. j \in 1 .. n - lo
          BY <1>1, <2>1, <3>2
        <4> QED  BY <2>5, <2>6, <2>8, <2>9, <3>2, <4>1
      <3> QED  BY <3>1, <3>2
    <2>11. P = R
      BY <2>5, <2>8, <2>9, <2>10, SeqEqual
    <2> QED  BY <1>5, <2>3, <2>11 DEF part, R
  <1>6. CASE k # s[n].key
    <2>1. n < lo \/ hi <= n
      BY <1>1, <1>2, <1>6
    <2>2. CASE n < lo
      <3>1. low(n) = n + 1 /\ high(n) = n + 1 /\ low(n - 1) = n /\ high(n - 1) = n
        BY <1>1, <1>2, <2>2 DEF Clamp
      <3>2. (n + 1) - (n + 1) = 0 /\ n - n = 0
        BY <1>1
      <3> HIDE DEF low, high
      <3>3. Piece(s, n + 1, n + 1) = <<>> /\ Piece(s, n, n) = <<>>
        BY <3>2 DEF Piece
      <3> QED  BY <1>4, <1>6, <3>1, <3>3 DEF part
    <2>3. CASE hi <= n
      <3>1. low(n) = low(n - 1) /\ high(n) = high(n - 1)
        BY <1>1, <1>2, <2>3 DEF Clamp
      <3> HIDE DEF low, high
      <3> QED  BY <1>4, <1>6, <3>1 DEF part
    <2> QED  BY <2>1, <2>2, <2>3
  <1> QED  BY <1>5, <1>6

\* A range comes one value after the other for each key.
LEMMA AllValues ==
  ASSUME unique \in BOOLEAN, NEW s, SortedSeq(unique, s), NEW range, SortedSeq(unique, range),
         NEW k \in Key
  PROVE  ValuesOf(InsertAll(s, range))[k] = Promise!With(ValuesOf(s)[k], ValuesOf(range)[k])
  <1> DEFINE N == Len(range)
             part(n) == SubSeq(range, 1, n)
             old == ValuesOf(s)[k]
  <1>1. range \in Seq(Entry) /\ N \in Nat
    BY DEF SortedSeq
  <1>2. PICK f : /\ f[0] = s /\ f[N] = InsertAll(s, range)
                 /\ \A n \in 1 .. N : f[n] = InsertOne(f[n - 1], range[n])
                 /\ \A n \in 0 .. N : SortedSeq(unique, f[n])
    BY <1>1, AllSteps
  <1>3. ASSUME NEW v, SortedSeq(unique, v) PROVE ValuesOf(v)[k] \in Seq(Val)
    <2> DEFINE lo == lower_bound(v, k)
               hi == upper_bound(v, k)
    <2>1. lo = lower_bound(v, k) /\ hi = upper_bound(v, k) /\ v \in Seq(Entry)
      BY <1>3 DEF SortedSeq
    <2> HIDE DEF lo, hi
    <2>2. lo \in 1 .. Len(v) + 1 /\ hi \in lo .. Len(v) + 1 /\ ValuesOf(v)[k] = Piece(v, lo, hi)
      BY <1>3, <2>1, SortedValues
    <2> QED  BY <2>1, <2>2, PieceFact
  <1>4. ASSUME NEW n \in 0 .. N PROVE part(n) \in Seq(Entry) /\ SortedSeq(unique, part(n))
    <2>1. part(n) \in Seq(Entry) /\ Len(part(n)) = n /\ \A i \in 1 .. n : part(n)[i] = range[i]
      BY <1>1
    <2>2. \A i, j \in 1 .. N :
            i < j => IF unique THEN range[i].key < range[j].key ELSE range[i].key <= range[j].key
      BY DEF SortedSeq
    <2> HIDE DEF part, N
    <2>3. \A i \in 1 .. n : i \in 1 .. N
      BY <1>1
    <2> QED  BY <2>1, <2>2, <2>3 DEF SortedSeq
  <1>5. old \in Seq(Val)
    BY <1>3
  <1> DEFINE goal(n) == ValuesOf(f[n])[k] = Promise!With(old, ValuesOf(part(n))[k])
             D == {n \in 0 .. N : goal(n)}
  <1>6. part(0) = <<>> /\ part(N) = range
    <2>1. part(N) \in Seq(Entry) /\ Len(part(N)) = N /\ \A i \in 1 .. N : part(N)[i] = range[i]
      BY <1>1
    <2>2. part(0) = <<>>
      BY <1>1
    <2> HIDE DEF part
    <2>3. part(N) = range
      BY <1>1, <2>1, SeqEqual
    <2> QED  BY <2>2, <2>3
  <1> HIDE DEF part, N, old
  <1>7. goal(0)
    <2>1. ValuesOf(<<>>)[k] = <<>>
      <3>1. ValuesOf(<<>>)[k] = Piece(<<>>, 1, 1)
        <4> DEFINE e == <<>>
        <4>1. e \in Seq(Entry) /\ 1 \in 1 .. Len(e) + 1 /\ Len(e) = 0
          OBVIOUS
        <4> HIDE DEF e
        <4>2. ValuesOf(e)[k] = Piece(e, 1, 1)
          <5>1. 1 \in 1 .. Len(e) + 1 /\ \A i \in 1 .. Len(e) : e[i].key = k <=> 1 <= i /\ i < 1
            BY <4>1
          <5> QED  BY <4>1, <5>1, ValuesFact
        <4> QED  BY <4>2 DEF e
      <3> QED  BY <3>1 DEF Piece
    <2> QED  BY <1>2, <1>5, <1>6, <2>1, WithNothing DEF old
  <1>8. ASSUME NEW n \in 1 .. N, goal(n - 1) PROVE goal(n)
    <2> DEFINE x == range[n]
               had == ValuesOf(part(n - 1))[k]
    <2>1. n - 1 \in 0 .. N /\ n \in 0 .. N /\ n \in 1 .. Len(range)
      BY <1>1 DEF N
    <2>2. x \in Entry /\ x.val \in Val
      <3>1. x \in Entry
        BY <1>1, <2>1
      <3> QED  BY <3>1 DEF Entry
    <2> HIDE DEF x
    <2>3. ValuesOf(f[n])[k]
            = IF k = x.key THEN Promise!With(ValuesOf(f[n - 1])[k], <<x.val>>)
              ELSE ValuesOf(f[n - 1])[k]
      <3>1. f[n] = InsertOne(f[n - 1], x) /\ SortedSeq(unique, f[n - 1])
        BY <1>2, <2>1 DEF x
      <3> DEFINE prev == f[n - 1]
      <3> HIDE DEF prev
      <3>2. SortedSeq(unique, prev)
        BY <3>1 DEF prev
      <3>3. ValuesOf(InsertOne(prev, x))[k]
            = IF k = x.key THEN Promise!With(ValuesOf(prev)[k], <<x.val>>) ELSE ValuesOf(prev)[k]
        BY <2>2, <3>2, OneValues
      <3> QED  BY <3>1, <3>3 DEF prev
    <2>4. ValuesOf(part(n))[k] = IF k = x.key THEN Append(had, x.val) ELSE had
      <3>1. ValuesOf(SubSeq(range, 1, n))[k]
              = IF k = range[n].key THEN Append(ValuesOf(SubSeq(range, 1, n - 1))[k], range[n].val)
                ELSE ValuesOf(SubSeq(range, 1, n - 1))[k]
        BY <2>1, PrefixValues, SMTT(30)
      <3> QED  BY <3>1, Zenon DEF x, part
    <2>5. had \in Seq(Val)
      BY <1>3, <1>4, <2>1
    <2> HIDE DEF had
    <2>6. Promise!With(old, Append(had, x.val)) = Promise!With(Promise!With(old, had), <<x.val>>)
      BY <1>5, <2>2, <2>5, WithFact
    <2>7. ValuesOf(f[n - 1])[k] = Promise!With(old, had)
      BY <1>8 DEF had
    <2> QED  BY <2>3, <2>4, <2>6, <2>7, Zenon
  <1> HIDE DEF goal
  <1>9. 0 .. N \subseteq D
    <2>1. 0 \in D
      BY <1>1, <1>7
    <2>2. ASSUME NEW n \in 1 .. N, n - 1 \in D PROVE n \in D
      <3>1. n \in 0 .. N
        BY <1>1
      <3> QED  BY <1>8, <2>2, <3>1
    <2> HIDE DEF D
    <2> QED  BY <1>1, <2>1, <2>2, BoundedInduction
  <1>10. goal(N)
    <2>1. N \in 0 .. N
      BY <1>1
    <2> QED  BY <1>9, <2>1
  <1> QED  BY <1>2, <1>6, <1>10 DEF goal, old

\* Some neighbours of a piece.
LEMMA PieceOfPiece ==
  ASSUME NEW s \in Seq(Entry), NEW lo \in 1 .. Len(s) + 1, NEW hi \in lo .. Len(s) + 1,
         NEW a \in lo .. hi, NEW b \in a .. hi
  PROVE  Piece(s, a, b) = SubSeq(Piece(s, lo, hi), a - lo + 1, b - lo)
  <1> DEFINE P == Piece(s, lo, hi)
             Q == Piece(s, a, b)
             i == a - lo + 1
             j == b - lo
  <1>1. lo \in Int /\ hi \in Int /\ a \in Int /\ b \in Int
        /\ 1 <= lo /\ lo <= a /\ a <= b /\ b <= hi /\ hi <= Len(s) + 1 /\ Len(s) \in Nat
    OBVIOUS
  <1>2. P \in Seq(Val) /\ Len(P) = hi - lo /\ \A n \in 1 .. hi - lo : P[n] = s[lo + n - 1].val
    BY PieceFact
  <1>3. Q \in Seq(Val) /\ Len(Q) = b - a /\ \A n \in 1 .. b - a : Q[n] = s[a + n - 1].val
    <2>1. a \in 1 .. Len(s) + 1 /\ b \in a .. Len(s) + 1
      BY <1>1
    <2> QED  BY <2>1, PieceFact
  <1> HIDE DEF P, Q
  <1> DEFINE R == SubSeq(P, i, j)
  <1>4. R \in Seq(Val) /\ Len(R) = b - a /\ \A n \in 1 .. b - a : R[n] = P[i + n - 1]
    <2>1. i \in Int /\ j \in Int /\ j - i + 1 = b - a /\ b - a >= 0
          /\ (IF i <= j THEN j - i + 1 ELSE 0) = b - a
      BY <1>1
    <2>2. \A n \in i .. j : P[n] \in Val
      <3>1. \A n \in i .. j : n \in 1 .. Len(P)
        BY <1>1, <1>2
      <3> QED  BY <1>2, <3>1
    <2> HIDE DEF i, j
    <2> QED  BY <2>1, <2>2, SubSeqProperties
  <1> HIDE DEF R
  <1>5. ASSUME NEW n \in 1 .. b - a PROVE Q[n] = R[n]
    <2>1. i + n - 1 \in 1 .. hi - lo /\ lo + (i + n - 1) - 1 = a + n - 1
      BY <1>1
    <2> QED  BY <1>2, <1>3, <1>4, <2>1
  <1>6. Q = R
    BY <1>3, <1>4, <1>5, SeqEqual
  <1> QED  BY <1>6 DEF P, Q, R

\* The values in a range of the other object are neighbours there.
LEMMA RangeValues ==
  ASSUME NEW u \in BOOLEAN, SortedSeq(u, other), NEW k \in Key,
         NEW first \in 1 .. Len(other) + 1, NEW last \in first .. Len(other) + 1
  PROVE  ValuesOf(SubSeq(other, first, last - 1))[k] \in Promise!Pieces(k)
  <1> DEFINE lo == lower_bound(other, k)
             hi == upper_bound(other, k)
             a == Clamp(lo, first, last)
             b == Clamp(hi, first, last)
             P == ValuesOf(other)[k]
             V == ValuesOf(SubSeq(other, first, last - 1))[k]
  <1>1. other \in Seq(Entry) /\ Len(other) \in Nat
    BY DEF SortedSeq
  <1>2. lo = lower_bound(other, k) /\ hi = upper_bound(other, k)
    OBVIOUS
  <1>3. a \in first .. last /\ b \in a .. last /\ V = Piece(other, a, b)
    BY WindowValues
  <1> HIDE DEF lo, hi, V, P
  <1>4. lo \in 1 .. Len(other) + 1 /\ hi \in lo .. Len(other) + 1 /\ P = Piece(other, lo, hi)
    BY <1>2, SortedValues DEF P
  <1>5. Promise!Pieces(k) = {SubSeq(P, i, j) : i \in 1 .. Len(P), j \in 0 .. Len(P)} \cup {<<>>}
    BY DEF Promise!Pieces, P
  <1>6. Len(P) = hi - lo
    BY <1>1, <1>4, PieceFact
  <1>7. CASE a = b
    <2>1. b - a = 0
      BY <1>1, <1>3, <1>7
    <2> HIDE DEF a, b
    <2>2. V = <<>>
      BY <1>3, <2>1 DEF Piece
    <2> QED  BY <1>5, <2>2 DEF V
  <1>8. CASE a # b
    <2>1. a \in lo .. hi /\ b \in a .. hi /\ a - lo + 1 \in 1 .. hi - lo /\ b - lo \in 0 .. hi - lo
      BY <1>1, <1>3, <1>4, <1>8 DEF Clamp
    <2> HIDE DEF a, b
    <2>2. V = SubSeq(P, a - lo + 1, b - lo)
      BY <1>1, <1>3, <1>4, <2>1, PieceOfPiece
    <2>3. PICK i \in 1 .. Len(P), j \in 0 .. Len(P) : V = SubSeq(P, i, j)
      <3>1. a - lo + 1 \in 1 .. Len(P) /\ b - lo \in 0 .. Len(P)
        BY <1>6, <2>1
      <3> QED  BY <2>2, <3>1
    <2>4. SubSeq(P, i, j) \in {SubSeq(P, x, y) : x \in 1 .. Len(P), y \in 0 .. Len(P)}
      OBVIOUS
    <2>5. V \in {SubSeq(P, x, y) : x \in 1 .. Len(P), y \in 0 .. Len(P)}
      BY <2>3, <2>4
    <2> HIDE DEF V
    <2>6. V \in Promise!Pieces(k)
      BY <1>5, <2>5
    <2> QED  BY <2>6 DEF V
  <1> QED  BY <1>7, <1>8

\* An erased range takes neighbouring values away.
LEMMA EraseValues ==
  ASSUME NEW u \in BOOLEAN, SortedSeq(u, vect), NEW k \in Key,
         NEW first \in 1 .. Len(vect) + 1, NEW last \in 1 .. Len(vect) + 1, first <= last
  PROVE  LET lo == lower_bound(vect, k)
             hi == upper_bound(vect, k)
             a  == Clamp(first, lo, hi)
             b  == Clamp(last, lo, hi)
         IN  /\ a \in lo .. hi /\ b \in a .. hi
             /\ ValuesOf(EraseRange(first, last))[k] = Piece(vect, lo, a) \o Piece(vect, b, hi)
  <1> DEFINE t == EraseRange(first, last)
             to(i) == IF i <= first THEN i ELSE IF i <= last THEN first ELSE i - (last - first)
  <1>1. PICK lo \in Int, hi \in Int : lo = lower_bound(vect, k) /\ hi = upper_bound(vect, k)
    BY SortedValues
  <1>2. 1 <= lo /\ lo <= hi /\ hi <= Len(vect) + 1
    BY <1>1, SortedValues
  <1>3. \A i \in 1 .. Len(vect) : vect[i].key = k <=> lo <= i /\ i < hi
    BY <1>1, SortedValues
  <1>4. PICK a \in Int, b \in Int : a = Clamp(first, lo, hi) /\ b = Clamp(last, lo, hi)
    BY DEF Clamp
  <1>5. PICK from \in Int, end \in Int : from = to(lo) /\ end = to(hi)
    <2>1. to(lo) \in Int /\ to(hi) \in Int
      OBVIOUS
    <2> QED  BY <2>1
  <1>6. PICK p \in Int, q \in Int : p = a - lo /\ q = hi - b
    OBVIOUS
  <1>7. lo <= a /\ a <= b /\ b <= hi /\ from <= end /\ end - from = p + q
    BY <1>2, <1>4, <1>5, <1>6 DEF Clamp
  <1>8. p >= 0 /\ q >= 0
    BY <1>6, <1>7
  <1>9. vect \in Seq(Entry) /\ Len(vect) \in Nat /\ last <= Len(vect) + 1
    BY DEF SortedSeq
  <1>10. 1 <= from /\ end <= (first - 1) + (Len(vect) - last + 1) + 1
    BY <1>2, <1>5, <1>9
  <1>11. t \in Seq(Entry) /\ Len(t) = (first - 1) + (Len(vect) - last + 1)
         /\ \A i \in 1 .. Len(t) : Before(i, first, last) \in 1 .. Len(vect)
                                   /\ t[i] = vect[Before(i, first, last)]
    BY <1>9, EraseFact
  <1> HIDE DEF t
  <1>12. ASSUME NEW i \in 1 .. Len(t) PROVE t[i].key = k <=> from <= i /\ i < end
    <2>1. t[i].key = k <=> lo <= Before(i, first, last) /\ Before(i, first, last) < hi
      BY <1>3, <1>11
    <2>2. (lo <= Before(i, first, last) <=> from <= i) /\ (Before(i, first, last) < hi <=> i < end)
      BY <1>2, <1>5 DEF Before
    <2> QED  BY <2>1, <2>2
  <1>13. ASSUME NEW m \in 1 .. p + q
         PROVE  Before(from + m - 1, first, last) = IF m <= p THEN lo + m - 1 ELSE b + (m - p) - 1
    BY <1>2, <1>4, <1>5, <1>6 DEF Before, Clamp
  <1> HIDE DEF to
  <1>14. a \in lo .. hi /\ b \in a .. hi
    BY <1>7
  <1>15. from \in 1 .. Len(t) + 1 /\ end \in from .. Len(t) + 1
    BY <1>7, <1>9, <1>10, <1>11
  <1> DEFINE P == Piece(t, from, end)
             A == Piece(vect, lo, a)
             B == Piece(vect, b, hi)
  <1>16. ValuesOf(t)[k] = P
    BY <1>11, <1>12, <1>15, ValuesFact
  <1>17. P \in Seq(Val) /\ Len(P) = p + q
         /\ \A m \in 1 .. p + q : P[m] = t[from + m - 1].val
    <2>1. P \in Seq(Val) /\ Len(P) = end - from
          /\ \A m \in 1 .. end - from : P[m] = t[from + m - 1].val
      BY <1>11, <1>15, PieceFact
    <2> HIDE DEF P
    <2> QED  BY <1>7, <2>1
  <1>18. A \in Seq(Val) /\ Len(A) = p /\ \A m \in 1 .. p : A[m] = vect[lo + m - 1].val
    <2>1. lo \in 1 .. Len(vect) + 1 /\ a \in lo .. Len(vect) + 1
      BY <1>2, <1>7, <1>9
    <2> QED  BY <1>6, <1>9, <2>1, PieceFact
  <1>19. B \in Seq(Val) /\ Len(B) = q /\ \A m \in 1 .. q : B[m] = vect[b + m - 1].val
    <2>1. b \in 1 .. Len(vect) + 1 /\ hi \in b .. Len(vect) + 1
      BY <1>2, <1>7, <1>9
    <2> QED  BY <1>6, <1>9, <2>1, PieceFact
  <1> HIDE DEF P, A, B
  <1> DEFINE R == A \o B
  <1>20. R \in Seq(Val) /\ Len(R) = p + q
         /\ \A m \in 1 .. p + q : R[m] = IF m <= p THEN A[m] ELSE B[m - p]
    <2>1. R \in Seq(Val) /\ Len(R) = Len(A) + Len(B)
          /\ \A m \in 1 .. Len(A) + Len(B) : R[m] = IF m <= Len(A) THEN A[m] ELSE B[m - Len(A)]
      BY <1>18, <1>19, ConcatProperties
    <2> QED  BY <1>18, <1>19, <2>1, Zenon
  <1> HIDE DEF R
  <1>21. ASSUME NEW m \in 1 .. p + q PROVE P[m] = R[m]
    <2>1. P[m] = vect[Before(from + m - 1, first, last)].val
      <3>1. from + m - 1 \in 1 .. Len(t)
        BY <1>7, <1>8, <1>15
      <3> QED  BY <1>11, <1>17, <3>1
    <2>2. CASE m <= p
      <3>1. m \in 1 .. p
        BY <1>8, <2>2
      <3>2. Before(from + m - 1, first, last) = lo + m - 1
        BY <1>13, <2>2
      <3> QED  BY <1>18, <1>20, <2>1, <2>2, <3>1, <3>2
    <2>3. CASE ~(m <= p)
      <3>1. m - p \in 1 .. q
        BY <1>8, <2>3
      <3>2. Before(from + m - 1, first, last) = b + (m - p) - 1
        BY <1>13, <2>3
      <3> QED  BY <1>19, <1>20, <2>1, <2>3, <3>1, <3>2
    <2> QED  BY <2>2, <2>3
  <1>22. P = R
    BY <1>17, <1>20, <1>21, SeqEqual
  <1>23. ValuesOf(EraseRange(first, last))[k] = Piece(vect, lo, a) \o Piece(vect, b, hi)
    BY <1>16, <1>22 DEF t, R, A, B
  <1> QED  BY <1>1, <1>4, <1>14, <1>23

\* The entries of different keys do not overlap.
LEMMA BoundsApart ==
  ASSUME NEW u \in BOOLEAN, NEW s, SortedSeq(u, s), NEW k \in Key, NEW c \in Key, k < c
  PROVE  upper_bound(s, k) <= lower_bound(s, c)
  <1> DEFINE hi == upper_bound(s, k)
             it == lower_bound(s, c)
  <1>1. s \in Seq(Entry) /\ Len(s) \in Nat /\ k \in Int /\ c \in Int
    BY FlatMapAssumption DEF SortedSeq
  <1>2. hi \in 1 .. Len(s) + 1 /\ \A i \in 1 .. Len(s) : s[i].key <= k <=> i < hi
    BY BoundsFact
  <1>3. it \in 1 .. Len(s) + 1 /\ \A i \in 1 .. Len(s) : s[i].key < c <=> i < it
    BY BoundsFact
  <1> HIDE DEF hi, it
  <1>4. hi <= it
    <2> SUFFICES ASSUME it < hi PROVE FALSE
      BY <1>1, <1>2, <1>3
    <2>1. it \in 1 .. Len(s)
      BY <1>1, <1>2, <1>3
    <2>2. s[it].key <= k /\ s[it].key \in Int /\ ~(s[it].key < c)
      BY <1>1, <1>2, <1>3, <2>1, EntryFact
    <2> QED  BY <1>1, <2>2
  <1> QED  BY <1>4 DEF hi, it

\* A value written over another shows in the values of its key only.
LEMMA WrittenValues ==
  ASSUME NEW s \in Seq(Entry), NEW it \in 1 .. Len(s), NEW v \in Val,
         NEW t, t = [s EXCEPT ![it].val = v]
  PROVE  /\ t \in Seq(Entry) /\ Len(t) = Len(s)
         /\ \A i \in 1 .. Len(s) : t[i].key = s[i].key
                                   /\ t[i].val = IF i = it THEN v ELSE s[i].val
  <1> DEFINE x == [s[it] EXCEPT !.val = v]
  <1>1. t = [s EXCEPT ![it] = x]
    OBVIOUS
  <1>2. x \in Entry /\ x.key = s[it].key /\ x.val = v
    <2>1. s[it] \in Entry
      OBVIOUS
    <2> QED  BY <2>1 DEF Entry
  <1> HIDE DEF x
  <1>3. t \in Seq(Entry) /\ Len(t) = Len(s)
    <2>1. s \in [1 .. Len(s) -> Entry] /\ Len(s) \in Nat
      OBVIOUS
    <2>2. t \in [1 .. Len(s) -> Entry]
      BY <1>1, <1>2, <2>1
    <2>3. t \in Seq(Entry) /\ DOMAIN t = 1 .. Len(s)
      BY <2>1, <2>2
    <2> QED  BY <2>1, <2>3
  <1>4. ASSUME NEW i \in 1 .. Len(s)
        PROVE  t[i].key = s[i].key /\ t[i].val = IF i = it THEN v ELSE s[i].val
    <2>1. t[i] = IF i = it THEN x ELSE s[i]
      BY <1>1
    <2> QED  BY <1>2, <2>1
  <1> QED  BY <1>3, <1>4

\* In a unique container it is the only one of its key.
LEMMA OverwrittenValues ==
  ASSUME NEW u \in BOOLEAN, NEW t, SortedSeq(u, t), NEW it \in 1 .. Len(t), NEW v \in Val, NEW k \in Key
  PROVE  u => ValuesOf([t EXCEPT ![it].val = v])[k]
                = IF k = t[it].key THEN <<v>> ELSE ValuesOf(t)[k]
  <1> DEFINE r == [t EXCEPT ![it].val = v]
             lo == lower_bound(t, k)
             hi == upper_bound(t, k)
             c == t[it].key
  <1>1. t \in Seq(Entry) /\ Len(t) \in Nat
    BY DEF SortedSeq
  <1>2. it \in 1 .. Len(t) /\ t[it].key = c
    OBVIOUS
  <1>3. r \in Seq(Entry) /\ Len(r) = Len(t)
        /\ \A i \in 1 .. Len(t) : r[i].key = t[i].key
                                  /\ r[i].val = IF i = it THEN v ELSE t[i].val
    <2>1. r = [t EXCEPT ![it].val = v]
      OBVIOUS
    <2> HIDE DEF r
    <2> QED  BY <1>1, <2>1, WrittenValues
  <1>4. lo = lower_bound(t, k) /\ hi = upper_bound(t, k)
    OBVIOUS
  <1> HIDE DEF r, lo, hi, c
  <1>5. /\ lo \in 1 .. Len(t) + 1 /\ hi \in lo .. Len(t) + 1
        /\ \A i \in 1 .. Len(t) : t[i].key = k <=> lo <= i /\ i < hi
        /\ ValuesOf(t)[k] = Piece(t, lo, hi)
    BY <1>1, <1>4, SortedValues
  <1>6. ValuesOf(r)[k] = Piece(r, lo, hi)
    BY <1>3, <1>5, ValuesFact
  <1>7. CASE u /\ k = c
    <2>1. lo <= it /\ it < hi
      BY <1>2, <1>5, <1>7
    <2>2. \A i, j \in 1 .. Len(t) : i < j => t[i].key < t[j].key
      BY <1>1, <1>7 DEF SortedSeq
    <2>3. \A i \in 1 .. Len(t) : t[i].key \in Int
      BY <1>1, EntryFact
    <2>4. ~(lo < it)
      <3> SUFFICES ASSUME lo < it PROVE FALSE
        OBVIOUS
      <3>1. lo \in 1 .. Len(t) /\ t[lo].key = k
        BY <1>2, <1>5, <2>1
      <3> QED  BY <1>2, <1>7, <2>2, <2>3, <3>1
    <2>5. ~(it + 1 < hi)
      <3> SUFFICES ASSUME it + 1 < hi PROVE FALSE
        OBVIOUS
      <3>1. it + 1 \in 1 .. Len(t) /\ it < it + 1
        BY <1>2, <1>5
      <3>2. t[it + 1].key = k
        BY <1>2, <1>5, <2>1, <3>1
      <3> QED  BY <1>2, <1>7, <2>2, <2>3, <3>1, <3>2
    <2>6. lo = it /\ hi = it + 1
      BY <1>2, <1>5, <2>1, <2>4, <2>5
    <2>7. Piece(r, lo, hi) \in Seq(Val) /\ Len(Piece(r, lo, hi)) = 1
          /\ Piece(r, lo, hi)[1] = r[it].val
      <3>1. hi - lo = 1 /\ it + 1 - 1 = it
        BY <1>2, <2>6
      <3>2. Piece(r, lo, hi) \in Seq(Val) /\ Len(Piece(r, lo, hi)) = hi - lo
            /\ \A n \in 1 .. hi - lo : Piece(r, lo, hi)[n] = r[lo + n - 1].val
        <4>1. lo \in 1 .. Len(r) + 1 /\ hi \in lo .. Len(r) + 1
          BY <1>3, <1>5
        <4> QED  BY <1>3, <4>1, PieceFact
      <3>3. 1 \in 1 .. hi - lo /\ lo + 1 - 1 = it
        BY <2>6, <3>1
      <3> QED  BY <3>1, <3>2, <3>3
    <2>8. r[it].val = v
      BY <1>2, <1>3
    <2>9. Piece(r, lo, hi) = <<v>>
      <3>1. <<v>> \in Seq(Val) /\ Len(<<v>>) = 1 /\ <<v>>[1] = v
        OBVIOUS
      <3> QED  BY <2>7, <2>8, <3>1, SeqEqual
    <2> QED  BY <1>6, <1>7, <2>9 DEF r, c
  <1>8. CASE k # c
    <2>1. ASSUME NEW m \in 1 .. hi - lo PROVE r[lo + m - 1].val = t[lo + m - 1].val
      <3>1. lo + m - 1 \in 1 .. Len(t) /\ lo <= lo + m - 1 /\ lo + m - 1 < hi
        BY <1>5
      <3>2. lo + m - 1 # it
        BY <1>2, <1>5, <1>8, <3>1
      <3> QED  BY <1>3, <3>1, <3>2
    <2>2. Piece(r, lo, hi) = Piece(t, lo, hi)
      BY <2>1 DEF Piece
    <2> QED  BY <1>5, <1>6, <1>8, <2>2 DEF r, c
  <1> QED  BY <1>7, <1>8

\* m[k] = v: one value for the key, the others as they were.
LEMMA SubscriptValues ==
  ASSUME unique \in BOOLEAN, unique, SortedSeq(unique, vect), NEW c \in Key, NEW v \in Val, NEW k \in Key
  PROVE  LET t == insert_single(vect, [key |-> c, val |-> v])
         IN  ValuesOf([t EXCEPT ![lower_bound(vect, c)].val = v])[k]
               = IF k = c THEN <<v>> ELSE ValuesOf(vect)[k]
  <1> DEFINE x == [key |-> c, val |-> v]
             t == insert_single(vect, x)
             it == lower_bound(vect, c)
  <1>1. x \in Entry /\ x.key = c /\ x.val = v
    BY DEF Entry
  <1>2. t = InsertOne(vect, x)
    BY DEF InsertOne
  <1>3. vect \in Seq(Entry) /\ Len(vect) \in Nat /\ c \in Int
    BY FlatMapAssumption DEF SortedSeq
  <1>4. it \in 1 .. Len(vect) + 1 /\ \A i \in 1 .. Len(vect) : vect[i].key < c <=> i < it
    BY BoundsFact
  <1> HIDE DEF x
  <1>5. t = IF it > Len(vect) \/ c < vect[it].key THEN InsertAt(vect, it, x) ELSE vect
    BY <1>1 DEF insert_single
  <1> HIDE DEF t, it
  <1>6. SortedSeq(unique, t)
    BY <1>1, <1>2, OneKeepsSorted, Zenon
  <1>7. it \in 1 .. Len(t) /\ t[it].key = c
    <2>1. CASE it > Len(vect) \/ c < vect[it].key
      <3>1. t = InsertAt(vect, it, x)
        BY <1>5, <2>1
      <3>2. Len(t) = Len(vect) + 1 /\ t[it] = x
        BY <1>1, <1>3, <1>4, <3>1, InsertAtFact
      <3> QED  BY <1>1, <1>3, <1>4, <3>2
    <2>2. CASE ~(it > Len(vect) \/ c < vect[it].key)
      <3>1. t = vect /\ it \in 1 .. Len(vect)
        BY <1>3, <1>4, <1>5, <2>2
      <3>2. vect[it].key \in Int /\ ~(vect[it].key < c)
        BY <1>3, <1>4, <3>1, EntryFact
      <3> QED  BY <1>3, <2>2, <3>1, <3>2
    <2> QED  BY <2>1, <2>2
  <1>8. ValuesOf([t EXCEPT ![it].val = v])[k] = IF k = t[it].key THEN <<v>> ELSE ValuesOf(t)[k]
    BY <1>6, <1>7, OverwrittenValues, ZenonT(40)
  <1>9. k # c => ValuesOf(t)[k] = ValuesOf(vect)[k]
    <2>1. ValuesOf(InsertOne(vect, x))[k]
            = IF k = x.key THEN Promise!With(ValuesOf(vect)[k], <<x.val>>) ELSE ValuesOf(vect)[k]
      BY <1>1, OneValues, Zenon
    <2> QED  BY <1>1, <1>2, <2>1
  <1> QED  BY <1>7, <1>8, <1>9 DEF t, it, x

-----------------------------------------------------------------------------
(***************************************************************************)
(* Step by step, the vector keeps what Multimap promises.                  *)
(***************************************************************************)
LEMMA KeyByKey ==
  ASSUME NEW s, NEW f, f = [k \in Key |-> f[k]], \A k \in Key : ValuesOf(s)[k] = f[k]
  PROVE  ValuesOf(s) = f
  <1>1. ValuesOf(s) = [k \in Key |-> ValuesOf(s)[k]]
    BY DEF ValuesOf
  <1> QED  BY <1>1, Zenon

LEMMA NothingThere == ValuesOf(<<>>) = [k \in Key |-> <<>>]
  <1>1. ASSUME NEW k \in Key PROVE ValuesOf(<<>>)[k] = <<>>
    <2> DEFINE e == <<>>
    <2>1. e \in Seq(Entry) /\ Len(e) = 0
      OBVIOUS
    <2>2. e = <<>>
      OBVIOUS
    <2> HIDE DEF e
    <2>3. ValuesOf(e)[k] = Piece(e, 1, 1)
      <3>1. 1 \in 1 .. Len(e) + 1 /\ \A i \in 1 .. Len(e) : e[i].key = k <=> 1 <= i /\ i < 1
        BY <2>1
      <3> QED  BY <2>1, <3>1, ValuesFact
    <2> QED  BY <2>2, <2>3 DEF Piece
  <1> DEFINE f == [k \in Key |-> <<>>]
  <1>2. f = [k \in Key |-> f[k]] /\ \A k \in Key : ValuesOf(<<>>)[k] = f[k]
    BY <1>1
  <1> HIDE DEF f
  <1>3. ValuesOf(<<>>) = f
    BY <1>2, KeyByKey, Zenon
  <1> QED  BY <1>3 DEF f

\* r keeps w for the key c, and what s keeps for the others.
Writes(r, s, c, w) ==
  /\ ValuesOf(r)[c] = w
  /\ \A k \in Key : k # c => ValuesOf(r)[k] = ValuesOf(s)[k]

\* What s keeps, with w written for the key c.
Written(s, c, w) == [ValuesOf(s) EXCEPT ![c] = w]

\* Writing one key of what Multimap keeps.
LEMMA OneKey ==
  ASSUME NEW s, NEW r, NEW c \in Key, NEW w, Writes(r, s, c, w)
  PROVE  ValuesOf(r) = Written(s, c, w)
  <1> DEFINE f == [ValuesOf(s) EXCEPT ![c] = w]
  <1>1. DOMAIN ValuesOf(s) = Key
    BY DEF ValuesOf
  <1>2. f = [k \in Key |-> f[k]] /\ \A k \in Key : f[k] = IF k = c THEN w ELSE ValuesOf(s)[k]
    BY <1>1
  <1> HIDE DEF f
  <1>3. ValuesOf(r) = f
    BY <1>2, KeyByKey DEF Writes
  <1> QED  BY <1>3 DEF f, Written

LEMMA InsertKeeps ==
  ASSUME SortedInv, NEW c \in Key, NEW v \in Val, insert([key |-> c, val |-> v])
  PROVE  Promise!Next
  <1> DEFINE x == [key |-> c, val |-> v]
             w == Promise!With(ValuesOf(vect)[c], <<v>>)
  <1>1. x \in Entry /\ x.key = c /\ x.val = v
    BY DEF Entry
  <1>2. unique \in BOOLEAN /\ SortedSeq(unique, vect)
    BY DEF SortedInv
  <1>3. vect' = InsertOne(vect, x) /\ unique' = unique /\ other' = other
    BY DEF insert
  <1> HIDE DEF x
  <1> DEFINE r == InsertOne(vect, x)
  <1>4. Writes(r, vect, c, w)
    <2>1. ASSUME NEW k \in Key
          PROVE  ValuesOf(InsertOne(vect, x))[k]
                   = IF k = x.key THEN Promise!With(ValuesOf(vect)[k], <<x.val>>)
                     ELSE ValuesOf(vect)[k]
      BY <1>1, <1>2, OneValues, Zenon
    <2> QED  BY <1>1, <2>1 DEF Writes
  <1> HIDE DEF w, r
  <1>5. ValuesOf(r) = Written(vect, c, w)
    BY <1>4, OneKey
  <1>6. ValuesOf(vect)' = [ValuesOf(vect) EXCEPT ![c] = Promise!With(@, <<v>>)]
    BY <1>3, <1>5 DEF Written, w, r
  <1>7. Promise!Insert(c, v)
    BY <1>6 DEF Promise!Insert
  <1>8. UNCHANGED unique /\ UNCHANGED ValuesOf(other)
    BY <1>3 DEF ValuesOf
  <1> QED  BY <1>7, <1>8 DEF Promise!Next

LEMMA SubscriptKeeps ==
  ASSUME SortedInv, NEW c \in Key, NEW v \in Val, Subscript(c, v)
  PROVE  Promise!Next
  <1> DEFINE t == insert_single(vect, [key |-> c, val |-> v])
             r == [t EXCEPT ![lower_bound(vect, c)].val = v]
             w == <<v>>
  <1>1. unique \in BOOLEAN /\ SortedSeq(unique, vect)
    BY DEF SortedInv
  <1>2. unique /\ vect' = r /\ unique' = unique /\ other' = other
    BY DEF Subscript
  <1>3. ASSUME NEW k \in Key PROVE ValuesOf(r)[k] = IF k = c THEN <<v>> ELSE ValuesOf(vect)[k]
    BY <1>1, <1>2, SubscriptValues, Zenon
  <1> HIDE DEF r
  <1>4. Writes(r, vect, c, w)
    BY <1>3 DEF Writes
  <1> HIDE DEF w
  <1>5. ValuesOf(r) = Written(vect, c, w)
    BY <1>4, OneKey
  <1>6. ValuesOf(vect)' = [ValuesOf(vect) EXCEPT ![c] = <<v>>]
    BY <1>2, <1>5 DEF Written, w
  <1>7. Promise!Assign(c, v)
    BY <1>2, <1>6 DEF Promise!Assign
  <1>8. UNCHANGED unique /\ UNCHANGED ValuesOf(other)
    BY <1>2 DEF ValuesOf
  <1> QED  BY <1>7, <1>8 DEF Promise!Next

LEMMA RangeKeeps ==
  ASSUME SortedInv, NEW first \in 1 .. Len(other) + 1, NEW last \in 1 .. Len(other) + 1,
         first <= last, NEW range, range = SubSeq(other, first, last - 1),
         InsertRange(range) \/ ConstructFrom(range)
  PROVE  Promise!Next
  <1>1. unique \in BOOLEAN /\ SortedSeq(unique, vect) /\ SortedSeq(unique, other)
        /\ SortedSeq(unique, <<>>)
    BY EmptySorted DEF SortedInv
  <1>2. first \in Int /\ last \in first .. Len(other) + 1
    OBVIOUS
  <1>3. SortedSeq(unique, range)
    BY <1>1, <1>2, RangeSorted
  <1>4. \A k \in Key : ValuesOf(range)[k] \in Promise!Pieces(k)
    BY <1>1, <1>2, RangeValues
  <1>5. \A s : SortedSeq(unique, s) =>
          \A k \in Key : \E more \in Promise!Pieces(k) :
            ValuesOf(InsertAll(s, range))[k] = Promise!With(ValuesOf(s)[k], more)
    BY <1>1, <1>3, <1>4, AllValues
  <1>6. unique' = unique /\ other' = other
    BY DEF InsertRange, ConstructFrom
  <1>7. UNCHANGED unique /\ UNCHANGED ValuesOf(other) /\ DOMAIN ValuesOf(vect)' = Key
    BY <1>6 DEF ValuesOf
  <1>8. Promise!InsertRange
    <2>1. CASE InsertRange(range)
      <3>1. vect' = InsertAll(vect, range)
        BY <2>1 DEF InsertRange
      <3>2. \A k \in Key : \E more \in Promise!Pieces(k) :
              ValuesOf(InsertAll(vect, range))[k] = Promise!With(ValuesOf(vect)[k], more)
        BY <1>1, <1>5
      <3>3. \A k \in Key : \E more \in Promise!Pieces(k) :
              ValuesOf(vect)'[k] = Promise!With(ValuesOf(vect)[k], more)
        BY <3>1, <3>2
      <3> QED  BY <1>7, <3>3 DEF Promise!InsertRange
    <2>2. CASE ConstructFrom(range)
      <3>1. vect' = InsertAll(<<>>, range)
        BY <2>2 DEF ConstructFrom
      <3>2. \A k \in Key : \E more \in Promise!Pieces(k) :
              ValuesOf(InsertAll(<<>>, range))[k] = Promise!With(ValuesOf(<<>>)[k], more)
        BY <1>1, <1>5
      <3>3. \A k \in Key : ValuesOf(<<>>)[k] = <<>>
        BY NothingThere
      <3>4. \A k \in Key : \E more \in Promise!Pieces(k) :
              ValuesOf(vect)'[k] = Promise!With(<<>>, more)
        BY <3>1, <3>2, <3>3
      <3> QED  BY <1>7, <3>4 DEF Promise!InsertRange
    <2> QED  BY <2>1, <2>2
  <1> QED  BY <1>7, <1>8 DEF Promise!Next

LEMMA EraseKeyKeeps ==
  ASSUME SortedInv, NEW c \in Key, erase(c)
  PROVE  Promise!Next
  <1> DEFINE first == lower_bound(vect, c)
             last == upper_bound(vect, c)
             r == EraseRange(first, last)
  <1>1. unique \in BOOLEAN /\ SortedSeq(unique, vect)
    BY DEF SortedInv
  <1>2. first \in 1 .. Len(vect) + 1 /\ last \in 1 .. Len(vect) + 1 /\ first <= last
    BY <1>1, BoundsFact, Zenon
  <1>3. vect' = r /\ unique' = unique /\ other' = other
    BY DEF erase
  <1>4. ASSUME NEW k \in Key PROVE ValuesOf(r)[k] = IF k = c THEN <<>> ELSE ValuesOf(vect)[k]
    <2> DEFINE lo == lower_bound(vect, k)
               hi == upper_bound(vect, k)
               a == Clamp(first, lo, hi)
               b == Clamp(last, lo, hi)
    <2>1. ValuesOf(r)[k] = Piece(vect, lo, a) \o Piece(vect, b, hi)
      BY <1>1, <1>2, EraseValues, Zenon
    <2>2. /\ lo \in 1 .. Len(vect) + 1 /\ hi \in lo .. Len(vect) + 1
          /\ ValuesOf(vect)[k] = Piece(vect, lo, hi)
      BY <1>1, SortedValues
    <2>3. vect \in Seq(Entry) /\ Len(vect) \in Nat /\ k \in Int /\ c \in Int
      BY <1>1, FlatMapAssumption DEF SortedSeq
    <2>4. lo \in Int /\ hi \in Int /\ lo <= hi /\ first \in Int /\ last \in Int
      BY <1>2, <2>2, <2>3
    <2>5. Piece(vect, lo, hi) \in Seq(Val)
      BY <2>2, <2>3, PieceFact
    <2>6. \A i \in Int : Piece(vect, i, i) = <<>>
      BY DEF Piece
    <2>7. CASE k = c
      <3>1. lo = first /\ hi = last
        BY <2>7
      <3> HIDE DEF lo, hi, first, last, r
      <3>2. a = lo /\ b = hi
        BY <2>4, <3>1 DEF Clamp
      <3> HIDE DEF a, b
      <3>3. Piece(vect, lo, a) = <<>> /\ Piece(vect, b, hi) = <<>>
        BY <2>4, <2>6, <3>2
      <3> QED  BY <2>1, <2>7, <3>3
    <2>8. CASE k < c
      <3>1. hi <= first
        BY <1>1, <2>8, BoundsApart, Zenon
      <3> HIDE DEF lo, hi, first, last, r
      <3>2. a = hi /\ b = hi
        BY <1>2, <2>4, <3>1 DEF Clamp
      <3> HIDE DEF a, b
      <3>3. Piece(vect, b, hi) = <<>>
        BY <2>4, <2>6, <3>2
      <3> QED  BY <2>1, <2>2, <2>3, <2>5, <2>8, <3>2, <3>3
    <2>9. CASE c < k
      <3>1. last <= lo
        BY <1>1, <2>9, BoundsApart, Zenon
      <3> HIDE DEF lo, hi, first, last, r
      <3>2. a = lo /\ b = lo
        BY <1>2, <2>4, <3>1 DEF Clamp
      <3> HIDE DEF a, b
      <3>3. Piece(vect, lo, a) = <<>>
        BY <2>4, <2>6, <3>2
      <3> QED  BY <2>1, <2>2, <2>3, <2>5, <2>9, <3>2, <3>3
    <2> QED  BY <2>3, <2>7, <2>8, <2>9
  <1> HIDE DEF r
  <1> DEFINE w == <<>>
  <1>5. Writes(r, vect, c, w)
    BY <1>4 DEF Writes
  <1> HIDE DEF w
  <1>6. ValuesOf(r) = Written(vect, c, w)
    BY <1>5, OneKey
  <1>7. ValuesOf(vect)' = [ValuesOf(vect) EXCEPT ![c] = <<>>]
    BY <1>3, <1>6 DEF Written, w
  <1>8. Promise!EraseKey(c)
    BY <1>7 DEF Promise!EraseKey
  <1>9. UNCHANGED unique /\ UNCHANGED ValuesOf(other)
    BY <1>3 DEF ValuesOf
  <1> QED  BY <1>8, <1>9 DEF Promise!Next

LEMMA EraseSomeKeeps ==
  ASSUME SortedInv, NEW first \in 1 .. Len(vect) + 1, NEW last \in 1 .. Len(vect) + 1,
         first <= last, EraseIt(first, last)
  PROVE  Promise!Next
  <1> DEFINE r == EraseRange(first, last)
  <1>1. unique \in BOOLEAN /\ SortedSeq(unique, vect)
    BY DEF SortedInv
  <1>2. vect' = r /\ unique' = unique /\ other' = other
    BY DEF EraseIt
  <1>3. ASSUME NEW k \in Key, NEW P, P = ValuesOf(vect)[k]
        PROVE  \E i \in 0 .. Len(P) : \E j \in i .. Len(P) :
                 ValuesOf(r)[k] = SubSeq(P, 1, i) \o SubSeq(P, j + 1, Len(P))
    <2> DEFINE lo == lower_bound(vect, k)
               hi == upper_bound(vect, k)
               a == Clamp(first, lo, hi)
               b == Clamp(last, lo, hi)
    <2>1. /\ a \in lo .. hi /\ b \in a .. hi
          /\ ValuesOf(r)[k] = Piece(vect, lo, a) \o Piece(vect, b, hi)
      BY <1>1, EraseValues, Zenon
    <2>2. /\ lo \in 1 .. Len(vect) + 1 /\ hi \in lo .. Len(vect) + 1
          /\ P = Piece(vect, lo, hi)
      BY <1>1, <1>3, SortedValues
    <2>3. vect \in Seq(Entry) /\ Len(vect) \in Nat
      BY <1>1 DEF SortedSeq
    <2> HIDE DEF lo, hi, a, b, r
    <2>4. Len(P) = hi - lo
      BY <2>2, <2>3, PieceFact
    <2>5. Piece(vect, lo, a) = SubSeq(P, 1, a - lo)
      <3>1. lo \in lo .. hi /\ a \in lo .. hi /\ lo - lo + 1 = 1
        BY <2>1, <2>2
      <3>2. Piece(vect, lo, a) = SubSeq(Piece(vect, lo, hi), lo - lo + 1, a - lo)
        BY <2>2, <2>3, <3>1, PieceOfPiece
      <3> QED  BY <2>2, <3>1, <3>2
    <2>6. Piece(vect, b, hi) = SubSeq(P, (b - lo) + 1, Len(P))
      <3>1. b \in lo .. hi /\ hi \in b .. hi
        BY <2>1, <2>2
      <3>2. Piece(vect, b, hi) = SubSeq(Piece(vect, lo, hi), b - lo + 1, hi - lo)
        BY <2>2, <2>3, <3>1, PieceOfPiece
      <3> QED  BY <2>2, <2>4, <3>2
    <2>7. a - lo \in 0 .. Len(P) /\ b - lo \in (a - lo) .. Len(P)
      BY <2>1, <2>2, <2>4
    <2> QED  BY <2>1, <2>5, <2>6, <2>7
  <1> HIDE DEF r
  <1>4. \A k \in Key : \E i \in 0 .. Len(ValuesOf(vect)[k]) :
          \E j \in i .. Len(ValuesOf(vect)[k]) :
            ValuesOf(vect)'[k] = SubSeq(ValuesOf(vect)[k], 1, i)
                                 \o SubSeq(ValuesOf(vect)[k], j + 1, Len(ValuesOf(vect)[k]))
    BY <1>2, <1>3, Zenon
  <1>5. UNCHANGED unique /\ UNCHANGED ValuesOf(other) /\ DOMAIN ValuesOf(vect)' = Key
    BY <1>2 DEF ValuesOf
  <1>6. Promise!EraseSome
    BY <1>4, <1>5 DEF Promise!EraseSome
  <1> QED  BY <1>5, <1>6 DEF Promise!Next

LEMMA StepKeeps ==
  SortedInv /\ [Next]_vars => [Promise!Next]_<<unique, ValuesOf(vect), ValuesOf(other)>>
  <1> SUFFICES ASSUME SortedInv, [Next]_vars
               PROVE  [Promise!Next]_<<unique, ValuesOf(vect), ValuesOf(other)>>
    OBVIOUS
  <1>1. CASE Next
    <2>1. CASE \E k \in Key, v \in Val : insert([key |-> k, val |-> v]) \/ Subscript(k, v)
      BY <2>1, InsertKeeps, SubscriptKeeps, Zenon
    <2>2. CASE \E first, last \in 1 .. Len(other) + 1 : first <= last /\
                 \E range \in {SubSeq(other, first, last - 1)} :
                   InsertRange(range) \/ ConstructFrom(range)
      BY <2>2, RangeKeeps, Zenon
    <2>3. CASE \E k \in Key : erase(k)
      BY <2>3, EraseKeyKeeps, Zenon
    <2>4. CASE \E first, last \in 1 .. Len(vect) + 1 : first <= last /\ EraseIt(first, last)
      BY <2>4, EraseSomeKeeps, Zenon
    <2>5. CASE clear
      <3>1. ValuesOf(vect)' = [k \in Key |-> <<>>]
        BY <2>5, NothingThere DEF clear
      <3>2. UNCHANGED unique /\ UNCHANGED ValuesOf(other)
        BY <2>5 DEF clear, ValuesOf
      <3> QED  BY <3>1, <3>2 DEF Promise!Next, Promise!Clear
    <2>6. CASE Copy
      <3>1. ValuesOf(vect)' = ValuesOf(other) /\ UNCHANGED unique /\ UNCHANGED ValuesOf(other)
        BY <2>6 DEF Copy, ValuesOf
      <3> QED  BY <3>1 DEF Promise!Next, Promise!Copy
    <2>7. CASE swap
      <3>1. ValuesOf(vect)' = ValuesOf(other) /\ ValuesOf(other)' = ValuesOf(vect)
            /\ UNCHANGED unique
        BY <2>7 DEF swap, ValuesOf
      <3> QED  BY <3>1 DEF Promise!Next, Promise!Swap
    <2> QED  BY <1>1, <2>1, <2>2, <2>3, <2>4, <2>5, <2>6, <2>7 DEF Next
  <1>2. CASE UNCHANGED vars
    BY <1>2 DEF vars, ValuesOf
  <1> QED  BY <1>1, <1>2

(***************************************************************************)
(* The sorted vector implements Multimap, whatever the keys and values: an *)
(* insert into a unique container keeps the value that is there, one into  *)
(* a multi container puts the new value in front of those of its key, m[k] *)
(* = v replaces it, and erasing takes neighbours away and nothing else     *)
(* (flat_map.h: insert_single, insert_multi, operator[], erase, clear,     *)
(* operator=, swap).                                                       *)
(***************************************************************************)
THEOREM KeepsItsPromise == Spec => KeepsMultimap
  <1>1. Init => Promise!Init
    BY NothingThere DEF Init, Promise!Init
  <1> QED  BY <1>1, AlwaysSorted, StepKeeps, PTL DEF Spec, KeepsMultimap, Promise!Spec
=============================================================================
