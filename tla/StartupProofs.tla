---------------------------- MODULE StartupProofs ---------------------------
(***************************************************************************)
(* What the start-up keeps for every command line, every set of words and  *)
(* every outcome of the lookup and of the connection: the settings follow  *)
(* the command line, and the script that is queued for them is in order.   *)
(***************************************************************************)
EXTENDS MCStartup, Induction, SequenceTheorems

\* The walk is only entered with an address to try.
WalkInv == NeverReturns /\ (stage = "connect" => addrs # <<>>)

LEMMA WalkInit == Init => WalkInv
  BY DEF Init, WalkInv, NeverReturns

LEMMA WalkStep == WalkInv /\ [Next]_vars => WalkInv'
  <1> SUFFICES ASSUME WalkInv, [Next]_vars
               PROVE  WalkInv'
    OBVIOUS
  <1> USE DEF WalkInv, NeverReturns
  <1>1. CASE CheckRoot
    BY <1>1 DEF CheckRoot, Exit, Go
  <1>2. CASE GetOpt
    BY <1>2 DEF GetOpt, Exit, Go
  <1>3. CASE SetAll
    BY <1>3 DEF SetAll, Exit, Go
  <1>4. CASE Resolve
    BY <1>4 DEF Resolve, Exit, Go
  <1>5. CASE Connect
    BY <1>5 DEF Connect, GiveUp, Exit, Go
  <1>6. CASE Queue
    BY <1>6 DEF Queue, Go
  <1>7. CASE Interrupt
    BY <1>7 DEF Interrupt, sockVars
  <1>8. CASE UNCHANGED vars
    BY <1>8 DEF vars, sockVars
  <1> QED
    BY <1>1, <1>2, <1>3, <1>4, <1>5, <1>6, <1>7, <1>8 DEF Next, Step, Settled

(***************************************************************************)
(* Initialize never returns to the constructor of Emerald, for any command *)
(* line, address list and order of signals: the walk over the addresses is *)
(* left through exit(0) or with a connection.                              *)
(***************************************************************************)
THEOREM InitializeNeverReturns == Spec => []NeverReturns
  <1>1. WalkInv => NeverReturns
    BY DEF WalkInv
  <1> QED  BY <1>1, WalkInit, WalkStep, PTL DEF Spec
-----------------------------------------------------------------------------
(***************************************************************************)
(* Where getopt_long stands.  The positions are defined one by one, so     *)
(* there is a set of them for every command line.                          *)
(***************************************************************************)
LEMMA LookedExists ==
  ASSUME args \in Seq(Word)
  PROVE  /\ Looked \subseteq 1 .. Len(args)
         /\ \A i \in 1 .. Len(args) : i \in Looked <=> Reached(Looked, i)
  <1> DEFINE n == Len(args)
             Upto(m, P) == P \subseteq 1 .. m /\ \A i \in 1 .. m : i \in P <=> Reached(P, i)
             D == {m \in Nat : \E P \in SUBSET (1 .. m) : Upto(m, P)}
  <1>1. 0 \in D
    <2>1. Upto(0, {})
      OBVIOUS
    <2> QED  BY <2>1
  <1>2. ASSUME NEW m \in Nat, m \in D PROVE m + 1 \in D
    <2>1. PICK P \in SUBSET (1 .. m) : Upto(m, P)
      BY <1>2
    <2> DEFINE Q == {i \in 1 .. m + 1 : IF i = m + 1 THEN Reached(P, i) ELSE i \in P}
    <2>2. \A i \in 1 .. m : i \in Q <=> i \in P
      BY <2>1
    <2>3. ASSUME NEW i \in 1 .. m + 1 PROVE Reached(Q, i) <=> Reached(P, i)
      <3>1. i - 1 \in Q <=> i - 1 \in P
        BY <2>1, <2>2
      <3>2. i - 2 \in Q <=> i - 2 \in P
        BY <2>1, <2>2
      <3> HIDE DEF Q
      <3> QED  BY <3>1, <3>2 DEF Reached
    <2>4. Upto(m + 1, Q)
      <3>1. ASSUME NEW i \in 1 .. m + 1 PROVE i \in Q <=> Reached(Q, i)
        <4>1. CASE i = m + 1
          <5>1. i \in Q <=> Reached(P, i)
            BY <4>1
          <5> QED  BY <5>1, <2>3
        <4>2. CASE i # m + 1
          <5>1. i \in 1 .. m
            BY <4>2
          <5> QED  BY <5>1, <2>1, <2>2, <2>3
        <4> QED  BY <4>1, <4>2
      <3> QED  BY <3>1
    <2>5. Q \in SUBSET (1 .. m + 1)
      OBVIOUS
    <2> HIDE DEF Q, Upto
    <2>6. m + 1 \in Nat
      OBVIOUS
    <2> QED  BY <2>4, <2>5, <2>6
  <1>3. n \in D
    <2> HIDE DEF D
    <2>1. n \in Nat
      OBVIOUS
    <2> QED  BY <1>1, <1>2, <2>1, SetInduction
  <1>4. PICK P \in SUBSET (1 .. n) : \A i \in 1 .. n : i \in P <=> Reached(P, i)
    BY <1>3
  <1>5. Looked \in SUBSET (1 .. n) /\ \A i \in 1 .. n : i \in Looked <=> Reached(Looked, i)
    <2> DEFINE Good(Q) == \A i \in 1 .. n : i \in Q <=> Reached(Q, i)
    <2>1. Looked = CHOOSE Q \in SUBSET (1 .. n) : Good(Q)
      BY DEF Looked
    <2>2. P \in SUBSET (1 .. n) /\ Good(P)
      BY <1>4
    <2> HIDE DEF Good
    <2>3. Looked \in SUBSET (1 .. n) /\ Good(Looked)
      BY <2>1, <2>2
    <2> QED  BY <2>3 DEF Good
  <1> QED  BY <1>5

\* What is said of the command line stays so as long as it stays the same.
LEMMA ArgsFrame ==
  ASSUME UNCHANGED args
  PROVE  /\ Looked' = Looked
         /\ \A i : /\ Spelled(i)' = Spelled(i) /\ GivenAt(i)' = GivenAt(i)
                   /\ Joined(i)' <=> Joined(i)
                   /\ Taking(i)' <=> Taking(i)
         /\ \A f : Places(f)' = Places(f)
  <1> DEFINE LK(a) ==
        CHOOSE P \in SUBSET (1 .. Len(a)) :
          \A i \in 1 .. Len(a) :
            i \in P <=> \/ i = 1
                        \/ /\ i - 1 \in P /\ a[i - 1] # "--"
                           /\ \/ ~(Head(Exact(<<a[i - 1]>>)) \in DOMAIN Takes)
                              \/ Len(Exact(<<a[i - 1]>>)) = 2
                        \/ /\ i - 2 \in P /\ Head(Exact(<<a[i - 2]>>)) \in DOMAIN Takes
                           /\ ~(Len(Exact(<<a[i - 2]>>)) = 2)
  <1>1. Looked = LK(args)
    BY DEF Looked, Reached, Taking, Joined, Spelled
  <1>2. Looked' = LK(args')
    BY DEF Looked, Reached, Taking, Joined, Spelled
  <1> HIDE DEF LK
  <1>3. Looked' = Looked
    BY <1>1, <1>2
  <1>4. \A i : Spelled(i)' = Spelled(i) /\ GivenAt(i)' = GivenAt(i)
    BY DEF Spelled, GivenAt
  <1>5. \A i : (Joined(i)' <=> Joined(i)) /\ (Taking(i)' <=> Taking(i))
    BY DEF Joined, Taking, Spelled
  <1>6. \A f : Places(f)' = Places(f)
    BY <1>3, <1>4, <1>5 DEF Places
  <1> QED  BY <1>3, <1>4, <1>5, <1>6
-----------------------------------------------------------------------------
(***************************************************************************)
(* What getopt_long sees at a position: the option there, and behind it    *)
(* the argument that is joined to it or the next word.                     *)
(***************************************************************************)
Words == Word \cup STRING

LEMMA SubSeqInside ==
  ASSUME NEW S, NEW a \in Seq(S), NEW i \in 1 .. Len(a), NEW k \in Nat \ {0}
  PROVE  SubSeq(SubSeq(a, i, Len(a)), k, Len(a) - i + 1) = SubSeq(a, i + k - 1, Len(a))
  <1> DEFINE n == Len(a)
             b == SubSeq(a, i, n)
             c == SubSeq(b, k, n - i + 1)
             d == SubSeq(a, i + k - 1, n)
             L == IF k <= n - i + 1 THEN n - i + 1 - k + 1 ELSE 0
  <1>1. n \in Nat
    OBVIOUS
  <1>2. b \in Seq(S) /\ Len(b) = n - i + 1 /\ \A j \in 1 .. n - i + 1 : b[j] = a[i + j - 1]
    BY <1>1
  <1> HIDE DEF b
  <1>3. c \in Seq(S) /\ Len(c) = L /\ \A j \in 1 .. n - i + 1 - k + 1 : c[j] = b[k + j - 1]
    BY <1>1, <1>2
  <1>4. d \in Seq(S) /\ Len(d) = L /\ \A j \in 1 .. n - (i + k - 1) + 1 : d[j] = a[i + k - 1 + j - 1]
    BY <1>1
  <1> HIDE DEF c, d, n
  <1>5. ASSUME NEW j \in 1 .. Len(c) PROVE c[j] = d[j]
    <2>1. j \in 1 .. n - i + 1 - k + 1 /\ j \in 1 .. n - (i + k - 1) + 1
      BY <1>1, <1>3
    <2>2. k + j - 1 \in 1 .. n - i + 1 /\ i + (k + j - 1) - 1 = i + k - 1 + j - 1
      BY <1>1, <2>1
    <2>3. c[j] = a[i + (k + j - 1) - 1]
      BY <1>2, <1>3, <2>1, <2>2
    <2> QED  BY <1>4, <2>1, <2>2, <2>3
  <1> HIDE DEF L
  <1>6. c = d
    BY <1>3, <1>4, <1>5, SeqEqual
  <1> QED  BY <1>6 DEF b, c, d, n

LEMMA SubSeqBehind ==
  ASSUME NEW S, NEW s \in Seq(S), NEW t \in Seq(S)
  PROVE  SubSeq(s \o t, Len(s) + 1, Len(s \o t)) = t
  <1> DEFINE u == s \o t
             v == SubSeq(u, Len(s) + 1, Len(u))
  <1>1. /\ u \in Seq(S) /\ Len(u) = Len(s) + Len(t)
        /\ \A j \in 1 .. Len(t) : u[Len(s) + j] = t[j]
    OBVIOUS
  <1>2. Len(s) \in Nat /\ Len(t) \in Nat
    OBVIOUS
  <1> HIDE DEF u
  <1>3. v \in Seq(S) /\ Len(v) = Len(t) /\ \A j \in 1 .. Len(t) : v[j] = u[Len(s) + 1 + j - 1]
    BY <1>1, <1>2
  <1> HIDE DEF v
  <1>4. ASSUME NEW j \in 1 .. Len(v) PROVE v[j] = t[j]
    <2>1. Len(s) + 1 + j - 1 = Len(s) + j /\ j \in 1 .. Len(t)
      BY <1>2, <1>3
    <2> QED  BY <1>1, <1>3, <2>1
  <1>5. v = t
    BY <1>3, <1>4, SeqEqual
  <1> QED  BY <1>5 DEF u, v

LEMMA SpelledAt ==
  ASSUME NEW i
  PROVE  /\ args[i] \in DOMAIN Stands =>
              /\ Stands[args[i]] \in Seq(Words) /\ Stands[args[i]] \in Seq(STRING)
              /\ Spelled(i) = Stands[args[i]][1]
              /\ Joined(i) <=> Len(Stands[args[i]]) = 2
              /\ ~Joined(i) => Len(Stands[args[i]]) = 1
         /\ args[i] \notin DOMAIN Stands => Spelled(i) = args[i] /\ ~Joined(i)
         /\ Joined(i) => Taking(i)
         /\ args[i] = "--" => Spelled(i) = "--" /\ ~Taking(i) /\ ~Joined(i)
  <1>1. Head(<<args[i]>>) = args[i] /\ Tail(<<args[i]>>) = <<>> /\ Len(<<args[i]>>) = 1
    OBVIOUS
  <1>2. ASSUME args[i] \in DOMAIN Stands
        PROVE  /\ Stands[args[i]] \in Seq(Words) /\ Stands[args[i]] \in Seq(STRING)
               /\ Spelled(i) = Stands[args[i]][1]
               /\ Joined(i) <=> Len(Stands[args[i]]) = 2
               /\ ~Joined(i) => Len(Stands[args[i]]) = 1
               /\ Len(Stands[args[i]]) = 2 => Stands[args[i]][1] \in DOMAIN Takes
    <2> DEFINE s == Stands[args[i]]
    <2>1. /\ s \in Seq(STRING) /\ Len(s) \in {1, 2}
          /\ Len(s) = 2 => s[1] \in DOMAIN Takes
      BY <1>2, StartupAssumption
    <2>2. s \in Seq(Words)
      BY <2>1 DEF Words
    <2>3. Exact(<<args[i]>>) = s \o <<>>
      BY <1>1, <1>2 DEF Exact
    <2> HIDE DEF s
    <2>4. s \o <<>> = s
      BY <2>1
    <2>5. Exact(<<args[i]>>) = s
      BY <2>3, <2>4
    <2>6. Spelled(i) = s[1] /\ (Joined(i) <=> Len(s) = 2)
      BY <2>1, <2>5 DEF Spelled, Joined
    <2> QED  BY <2>1, <2>2, <2>6 DEF s
  <1>3. ASSUME args[i] \notin DOMAIN Stands
        PROVE  Spelled(i) = args[i] /\ ~Joined(i)
    BY <1>1, <1>3 DEF Exact, Spelled, Joined
  <1>4. Joined(i) => Taking(i)
    BY <1>2, <1>3 DEF Taking
  <1>5. args[i] = "--" => Spelled(i) = "--" /\ ~Taking(i) /\ ~Joined(i)
    <2>1. "--" \notin DOMAIN Takes
      BY DEF Takes
    <2> QED  BY <1>3, <2>1, StartupAssumption DEF Taking
  <1> QED  BY <1>2, <1>3, <1>4, <1>5

LEMMA ExactAt ==
  ASSUME args \in Seq(Word), NEW i \in 1 .. Len(args), NEW words,
         words = Exact(SubSeq(args, i, Len(args)))
  PROVE  /\ ~Over(SubSeq(args, i, Len(args))) <=> args[i] # "--"
         /\ Head(words) = Spelled(i)
         /\ Len(words) = 1 <=> i = Len(args) /\ ~Joined(i)
         /\ Joined(i) =>
              /\ words[2] = GivenAt(i)
              /\ SubSeq(words, 3, Len(words)) = SubSeq(args, i + 1, Len(args))
         /\ ~Joined(i) =>
              /\ Tail(words) = SubSeq(args, i + 1, Len(args))
              /\ i < Len(args) =>
                   /\ words[2] = args[i + 1] /\ GivenAt(i) = args[i + 1]
                   /\ SubSeq(words, 3, Len(words)) = SubSeq(args, i + 2, Len(args))
  <1> DEFINE n == Len(args)
             rest == SubSeq(args, i + 1, n)
             all == SubSeq(args, i, n)
  <1>1. n \in Nat /\ args \in Seq(Words)
    BY DEF Words
  <1>2. /\ rest \in Seq(Words) /\ Len(rest) = n - i
        /\ \A k \in 1 .. n - i : rest[k] = args[i + k]
    BY <1>1
  <1>3. /\ all \in Seq(Words) /\ Len(all) = n - i + 1 /\ all # <<>>
        /\ \A k \in 1 .. n - i + 1 : all[k] = args[i + k - 1]
    <2>1. all \in Seq(Words) /\ Len(all) = n - i + 1
      BY <1>1
    <2>2. \A k \in 1 .. n - i + 1 : all[k] = args[i + k - 1]
      BY <1>1
    <2>3. n - i + 1 # 0
      BY <1>1
    <2> QED  BY <2>1, <2>2, <2>3
  <1>4. Head(all) = args[i] /\ Tail(all) = rest
    <2>1. n \in i .. n /\ i \in 1 .. n
      BY <1>1
    <2> QED  BY <1>1, <2>1, HeadTailOfSubSeq
  <1>5. ~Over(all) <=> args[i] # "--"
    BY <1>3, <1>4 DEF Over
  <1>6. words = Exact(all)
    OBVIOUS
  <1>7. SubSeq(args, i + 2, n) = SubSeq(all, 3, Len(all))
    <2>1. SubSeq(all, 3, n - i + 1) = SubSeq(args, i + 3 - 1, n)
      <3>1. i \in 1 .. Len(args) /\ 3 \in Nat \ {0}
        OBVIOUS
      <3> QED  BY <1>1, <3>1, SubSeqInside
    <2>2. i + 3 - 1 = i + 2
      OBVIOUS
    <2> HIDE DEF all, n
    <2> QED  BY <1>3, <2>1, <2>2
  <1>12. i < n => SubSeq(args, i + 2, n) = SubSeq(rest, 2, Len(rest))
    <2> SUFFICES ASSUME i < n PROVE SubSeq(args, i + 2, n) = SubSeq(rest, 2, Len(rest))
      OBVIOUS
    <2>1. SubSeq(rest, 2, n - (i + 1) + 1) = SubSeq(args, (i + 1) + 2 - 1, n)
      <3>1. i + 1 \in 1 .. Len(args) /\ 2 \in Nat \ {0}
        BY <1>1
      <3> QED  BY <1>1, <3>1, SubSeqInside
    <2>2. (i + 1) + 2 - 1 = i + 2 /\ n - (i + 1) + 1 = n - i
      BY <1>1
    <2> HIDE DEF rest, n
    <2> QED  BY <1>2, <2>1, <2>2
  <1> HIDE DEF n, rest, all
  <1>8. GivenAt(i) = (Exact(<<args[i]>>) \o rest)[2]
    BY DEF GivenAt, rest, n
  <1>9. Head(<<args[i]>>) = args[i] /\ Tail(<<args[i]>>) = <<>>
    OBVIOUS
  <1>10. CASE args[i] \in DOMAIN Stands
    <2> DEFINE s == Stands[args[i]]
    <2>1. /\ s \in Seq(Words) /\ Len(s) \in {1, 2} /\ Spelled(i) = s[1]
          /\ Joined(i) <=> Len(s) = 2
      BY <1>10, SpelledAt, StartupAssumption
    <2>2. words = s \o rest
      BY <1>4, <1>6, <1>10 DEF Exact
    <2>3. Exact(<<args[i]>>) = s \o <<>>
      BY <1>9, <1>10 DEF Exact
    <2> HIDE DEF s
    <2>4. s \o <<>> = s
      BY <2>1
    <2>5. GivenAt(i) = words[2]
      <3>1. Exact(<<args[i]>>) = s
        BY <2>3, <2>4
      <3> QED  BY <1>8, <2>2, <3>1
    <2>10. SubSeq(words, Len(s) + 1, Len(words)) = rest
      BY <1>2, <2>1, <2>2, SubSeqBehind
    <2>6. Len(words) = Len(s) + (n - i)
      <3>1. Len(s \o rest) = Len(s) + Len(rest)
        BY <1>2, <2>1, ConcatProperties
      <3> QED  BY <1>2, <2>2, <3>1
    <2>7. Head(words) = Spelled(i)
      BY <1>2, <2>1, <2>2
    <2>8. CASE Joined(i)
      <3>1. SubSeq(words, 3, Len(words)) = rest
        <4>1. Len(s) = 2
          BY <2>1, <2>8, Zenon
        <4>2. Len(s) + 1 = 3
          BY <4>1
        <4> QED  BY <2>10, <4>2
      <3> QED  BY <1>1, <1>5, <2>1, <2>5, <2>6, <2>7, <2>8, <3>1 DEF n, rest, all
    <2>9. CASE ~Joined(i)
      <3>0. Len(s) = 1 /\ words \in Seq(Words) /\ words # <<>>
        BY <1>1, <1>2, <2>1, <2>2, <2>9
      <3>1. Tail(words) = rest
        BY <2>10, <3>0, TailIsSubSeq
      <3>2. i < n => SubSeq(words, 3, Len(words)) = SubSeq(args, i + 2, n)
        <4> SUFFICES ASSUME i < n PROVE SubSeq(words, 3, Len(words)) = SubSeq(args, i + 2, n)
          OBVIOUS
        <4>1. SubSeq(words, 2, Len(words)) = rest /\ Len(words) = 1 + (n - i)
          BY <2>6, <2>10, <3>0
        <4>2. 2 \in 1 .. Len(words) /\ 2 \in Nat \ {0}
          BY <1>1, <4>1
        <4>3. SubSeq(SubSeq(words, 2, Len(words)), 2, Len(words) - 2 + 1)
                = SubSeq(words, 2 + 2 - 1, Len(words))
          BY <3>0, <4>2, SubSeqInside
        <4>4. Len(words) - 2 + 1 = Len(rest) /\ 2 + 2 - 1 = 3
          BY <1>1, <1>2, <4>1
        <4> QED  BY <1>12, <4>1, <4>3, <4>4
      <3>3. i < n => words[2] = args[i + 1]
        BY <1>1, <1>2, <2>1, <2>2, <2>9
      <3> QED  BY <1>1, <1>5, <2>1, <2>5, <2>6, <2>7, <2>9, <3>1, <3>2, <3>3 DEF n, rest, all
    <2> QED  BY <2>8, <2>9
  <1>11. CASE args[i] \notin DOMAIN Stands
    <2>1. Spelled(i) = args[i] /\ ~Joined(i)
      BY <1>11, SpelledAt
    <2>2. words = all
      BY <1>4, <1>6, <1>11 DEF Exact
    <2>3. Exact(<<args[i]>>) = <<args[i]>>
      BY <1>9, <1>11 DEF Exact
    <2>4. i < n => GivenAt(i) = args[i + 1]
      <3> SUFFICES ASSUME i < n PROVE GivenAt(i) = args[i + 1]
        OBVIOUS
      <3>1. 1 \in 1 .. n - i
        BY <1>1
      <3>2. (<<args[i]>> \o rest)[2] = rest[1]
        BY <1>1, <1>2, <3>1
      <3> QED  BY <1>2, <1>8, <2>3, <3>1, <3>2
    <2>5. i < n => words[2] = args[i + 1]
      BY <1>1, <1>3, <2>2
    <2> QED  BY <1>1, <1>3, <1>4, <1>5, <1>7, <2>1, <2>2, <2>4, <2>5 DEF n, rest, all
  <1> QED  BY <1>10, <1>11
-----------------------------------------------------------------------------
(***************************************************************************)
(* The invariant of the constructor: while getopt_long stands at a         *)
(* position, usercmd holds the last words given before it, and none of the *)
(* options before it was a mistake.                                        *)
(***************************************************************************)
Fine(i) ==
  /\ Spelled(i) \notin Strange
  /\ Taking(i) => Joined(i) \/ i < Len(args)

Before(f, p) == {i \in Places(f) : i < p}

Stored(u, p) ==
  \A f \in Field :
    /\ Before(f, p) = {} => u[f] = Empty
    /\ Before(f, p) # {} => \E i \in Before(f, p) : /\ \A j \in Before(f, p) : j <= i
                                                    /\ u[f] = GivenAt(i)

Passed(v, p) ==
  \A i \in Looked : i < p => args[i] # "--" /\ Fine(i) /\ (Spelled(i) = "--version" => v)

Standing(p) ==
  /\ argv = SubSeq(args, p, Len(args))
  /\ p <= Len(args) => p \in Looked
  /\ ~(p - 1 \in Looked /\ Taking(p - 1) /\ ~Joined(p - 1))
  /\ Passed(do_version, p)
  /\ Stored(usercmd, p)

LineRead ==
  /\ \A i \in Looked : Fine(i) /\ Spelled(i) # "--version"
  /\ Stored(usercmd, Len(args) + 1)

LineInv ==
  /\ args \in Seq(Word)
  /\ usercmd \in [Field -> Operand]
  /\ do_version \in BOOLEAN
  /\ stage = "root" => Standing(1)
  /\ stage = "options" => ~root /\ \E p \in 1 .. Len(args) + 1 : Standing(p)
  /\ stage \in {"settings", "resolve", "connect", "login", "loop"} => ~root /\ LineRead
  /\ stage \in {"resolve", "connect", "login", "loop"} => config = Settings
  /\ stage = "loop" => ~Throws

LEMMA TakesField ==
  ASSUME NEW w \in DOMAIN Takes
  PROVE  Takes[w] \in Field
  BY DEF Takes, Field

\* What a taken option has as its argument.
LEMMA GivenIsOperand ==
  ASSUME args \in Seq(Word), NEW i \in 1 .. Len(args), Fine(i), Taking(i)
  PROVE  GivenAt(i) \in Operand
  <1> DEFINE words == Exact(SubSeq(args, i, Len(args)))
  <1>1. CASE Joined(i)
    <2>1. args[i] \in DOMAIN Stands /\ Len(Stands[args[i]]) = 2
      BY <1>1, SpelledAt
    <2>2. Stands[args[i]] \in Seq(STRING)
      BY <2>1, StartupAssumption
    <2>3. GivenAt(i) = Stands[args[i]][2]
      <3> DEFINE s == Stands[args[i]]
                 rest == SubSeq(args, i + 1, Len(args))
      <3>1. Head(<<args[i]>>) = args[i] /\ Tail(<<args[i]>>) = <<>>
        OBVIOUS
      <3>2. Exact(<<args[i]>>) = s \o <<>>
        BY <2>1, <3>1 DEF Exact
      <3>3. s \o <<>> = s
        BY <2>2
      <3>4. rest \in Seq(Words) /\ s \in Seq(Words)
        BY <2>2 DEF Words
      <3>5. GivenAt(i) = (s \o rest)[2]
        <4> HIDE DEF s, rest
        <4>1. Exact(<<args[i]>>) = s
          BY <3>2, <3>3
        <4> QED  BY <4>1 DEF GivenAt, rest
      <3>6. Len(s) = 2
        BY <2>1
      <3> HIDE DEF s, rest
      <3>7. (s \o rest)[2] = s[2]
        <4>1. 2 \in 1 .. Len(s) + Len(rest) /\ 2 <= Len(s)
          BY <3>4, <3>6
        <4> QED  BY <3>4, <4>1, ConcatProperties
      <3> QED  BY <3>5, <3>7 DEF s
    <2> QED  BY <2>1, <2>3 DEF Operand
  <1>2. CASE ~Joined(i)
    <2>1. i < Len(args)
      BY <1>2 DEF Fine
    <2>2. GivenAt(i) = args[i + 1]
      BY <1>2, <2>1, ExactAt
    <2>3. args[i + 1] \in Word
      BY <2>1
    <2> QED  BY <2>2, <2>3 DEF Operand
  <1> QED  BY <1>1, <1>2

\* One option more.
LEMMA StoredNext ==
  ASSUME args \in Seq(Word), usercmd \in [Field -> Operand],
         NEW p \in 1 .. Len(args), p \in Looked, Stored(usercmd, p),
         NEW q \in Nat, p < q, \A i \in Looked : i < q => i <= p,
         NEW u, u = IF Taking(p) THEN [usercmd EXCEPT ![Takes[Spelled(p)]] = GivenAt(p)]
                    ELSE usercmd
  PROVE  Stored(u, q)
  <1>0. Looked \subseteq 1 .. Len(args)
    BY LookedExists
  <1> SUFFICES ASSUME NEW f \in Field
               PROVE  /\ Before(f, q) = {} => u[f] = Empty
                      /\ Before(f, q) # {} =>
                           \E i \in Before(f, q) : /\ \A j \in Before(f, q) : j <= i
                                                   /\ u[f] = GivenAt(i)
    BY DEF Stored
  <1>1. CASE p \in Places(f)
    <2>1. Taking(p) /\ Takes[Spelled(p)] = f
      BY <1>1 DEF Places
    <2>2. u[f] = GivenAt(p)
      BY <2>1
    <2>3. p \in Before(f, q) /\ \A j \in Before(f, q) : j <= p
      BY <1>1 DEF Before, Places
    <2> QED  BY <2>2, <2>3
  <1>2. CASE p \notin Places(f)
    <2>1. ~(Taking(p) /\ Takes[Spelled(p)] = f)
      BY <1>2 DEF Places
    <2>2. u[f] = usercmd[f]
      BY <2>1
    <2>3. ASSUME NEW i \in Places(f) PROVE i < q <=> i < p
      <3>1. i \in Looked /\ i \in Nat /\ i # p
        BY <1>0, <1>2 DEF Places
      <3> QED  BY <3>1
    <2>4. Before(f, q) = Before(f, p)
      BY <2>3 DEF Before
    <2> QED  BY <2>2, <2>4 DEF Stored
  <1> QED  BY <1>1, <1>2

\* Behind a "--" there are no options.
LEMMA NothingBehind ==
  ASSUME args \in Seq(Word), NEW p \in 1 .. Len(args), args[p] = "--",
         ~(p - 1 \in Looked /\ Taking(p - 1) /\ ~Joined(p - 1))
  PROVE  \A i \in Looked : i <= p
  <1> SUFFICES ASSUME NEW j \in Looked, ~(j <= p) PROVE FALSE
    OBVIOUS
  <1> DEFINE T == {i \in Looked : ~(i <= p)}
  <1>0. Looked \subseteq 1 .. Len(args) /\ \A i \in 1 .. Len(args) : i \in Looked <=> Reached(Looked, i)
    BY LookedExists
  <1>1. T \subseteq Nat /\ T # {}
    <2>1. j \in T
      OBVIOUS
    <2>2. T \subseteq Looked
      OBVIOUS
    <2> HIDE DEF T
    <2> QED  BY <1>0, <2>1, <2>2
  <1>2. PICK x \in T : \A y \in T : x <= y
    <2> HIDE DEF T
    <2> QED  BY <1>1, LeastNumber
  <1>3. x \in 1 .. Len(args) /\ Reached(Looked, x) /\ ~(x <= p) /\ x \in Looked
    <2>1. x \in Looked /\ ~(x <= p)
      OBVIOUS
    <2> QED  BY <1>0, <2>1, Zenon
  <1>4. ~Taking(p)
    BY SpelledAt
  <1>5. x - 1 \notin T /\ x - 2 \notin T
    <2>1. ~(x <= x - 1) /\ ~(x <= x - 2)
      BY <1>3
    <2> HIDE DEF T
    <2> QED  BY <1>2, <2>1
  <1>6. x - 1 \in Looked => x - 1 = p
    BY <1>3, <1>5
  <1>7. x - 2 \in Looked => x - 2 = p \/ x - 2 = p - 1
    BY <1>3, <1>5
  <1>8. x # 1
    BY <1>3
  <1> QED  BY <1>3, <1>4, <1>6, <1>7, <1>8 DEF Reached
-----------------------------------------------------------------------------
LEMMA LineFrame ==
  ASSUME UNCHANGED args
  PROVE  /\ \A i : Fine(i)' <=> Fine(i)
         /\ \A f, p : Before(f, p)' = Before(f, p)
         /\ \A u, p : Stored(u, p)' <=> Stored(u, p)
         /\ \A v, p : Passed(v, p)' <=> Passed(v, p)
  <1>1. /\ Looked' = Looked
        /\ \A i : Spelled(i)' = Spelled(i) /\ GivenAt(i)' = GivenAt(i)
        /\ \A i : (Joined(i)' <=> Joined(i)) /\ (Taking(i)' <=> Taking(i))
        /\ \A f : Places(f)' = Places(f)
    BY ArgsFrame
  <1>2. \A i : Fine(i)' <=> Fine(i)
    BY <1>1 DEF Fine, Strange
  <1>3. \A f, p : Before(f, p)' = Before(f, p)
    BY <1>1 DEF Before
  <1>4. \A u, p : Stored(u, p)' <=> Stored(u, p)
    BY <1>1, <1>3 DEF Stored, Field
  <1>5. \A v, p : Passed(v, p)' <=> Passed(v, p)
    BY <1>1, <1>2 DEF Passed
  <1> QED  BY <1>2, <1>3, <1>4, <1>5

LEMMA LineInit == Init => LineInv
  <1> SUFFICES ASSUME Init PROVE LineInv
    OBVIOUS
  <1>1. args \in Seq(Word)
    <2>1. PICK n \in 0 .. MaxWords : args \in [1 .. n -> Word]
      BY DEF Init
    <2> QED  BY <2>1
  <1>2. /\ usercmd \in [Field -> Operand] /\ do_version \in BOOLEAN
        /\ \A f \in Field : usercmd[f] = Empty
    BY StartupAssumption DEF Init, Operand
  <1>3. Looked \subseteq 1 .. Len(args) /\ \A i \in 1 .. Len(args) : i \in Looked <=> Reached(Looked, i)
    BY <1>1, LookedExists
  <1>4. Standing(1)
    <2>1. argv = SubSeq(args, 1, Len(args))
      BY <1>1, SubSeqFull DEF Init
    <2>2. 1 <= Len(args) => 1 \in Looked
      BY <1>1, <1>3 DEF Reached
    <2>3. ~(1 - 1 \in Looked)
      BY <1>3
    <2>4. ASSUME NEW i \in Looked PROVE ~(i < 1)
      BY <1>3
    <2>5. \A f : Before(f, 1) = {}
      BY <2>4 DEF Before, Places
    <2>6. Passed(do_version, 1)
      BY <2>4 DEF Passed
    <2>7. Stored(usercmd, 1)
      BY <1>2, <2>5 DEF Stored
    <2> QED  BY <2>1, <2>2, <2>3, <2>6, <2>7 DEF Standing
  <1> QED  BY <1>1, <1>2, <1>4 DEF Init, LineInv

\* Where getopt_long stands after an option.
LEMMA StandingNext ==
  ASSUME LineInv, NEW p \in 1 .. Len(args), Standing(p), args[p] # "--",
         NEW words, words = Exact(argv), ~Refused(words)
  PROVE  /\ Fine(p) /\ Head(words) = Spelled(p)
         /\ Taking(p) => words[2] = GivenAt(p)
         /\ \E q \in 1 .. Len(args) + 1 :
              /\ p < q /\ \A i \in Looked : i < q => i <= p
              /\ Rest(words) = SubSeq(args, q, Len(args))
              /\ q <= Len(args) => q \in Looked
              /\ ~(q - 1 \in Looked /\ Taking(q - 1) /\ ~Joined(q - 1))
  <1> DEFINE n == Len(args)
  <1>1. args \in Seq(Word) /\ words = Exact(SubSeq(args, p, n)) /\ p \in Looked /\ n \in Nat
    BY DEF LineInv, Standing
  <1>2. Looked \subseteq 1 .. n /\ \A i \in 1 .. n : i \in Looked <=> Reached(Looked, i)
    BY <1>1, LookedExists
  <1>3. Head(words) = Spelled(p) /\ (Len(words) = 1 <=> p = n /\ ~Joined(p))
    BY <1>1, ExactAt
  <1>4. Fine(p)
    BY <1>1, <1>3 DEF Refused, Fine, Taking
  <1>5. Joined(p) => Taking(p)
    BY SpelledAt
  <1>6. CASE Joined(p) \/ ~Taking(p)
    <2>1. Rest(words) = SubSeq(args, p + 1, n) /\ (Taking(p) => words[2] = GivenAt(p))
      BY <1>1, <1>3, <1>5, <1>6, ExactAt DEF Rest, Taking
    <2>2. p + 1 \in 1 .. n + 1 /\ (p + 1) - 1 = p /\ p < p + 1
      BY <1>1
    <2>3. p + 1 <= n => p + 1 \in Looked
      <3> SUFFICES ASSUME p + 1 <= n PROVE p + 1 \in Looked
        OBVIOUS
      <3>1. p + 1 \in 1 .. n
        BY <1>1
      <3>2. Reached(Looked, p + 1)
        BY <1>1, <1>6, <2>2 DEF Reached
      <3> QED  BY <1>2, <3>1, <3>2
    <2>4. \A i \in Looked : i < p + 1 => i <= p
      BY <1>2
    <2>5. ~(p \in Looked /\ Taking(p) /\ ~Joined(p))
      BY <1>6
    <2> QED  BY <1>3, <1>4, <2>1, <2>2, <2>3, <2>4, <2>5
  <1>7. CASE ~Joined(p) /\ Taking(p)
    <2>0. p < n
      BY <1>4, <1>7 DEF Fine
    <2>1. Rest(words) = SubSeq(args, p + 2, n) /\ words[2] = GivenAt(p)
      BY <1>1, <1>3, <1>7, <2>0, ExactAt DEF Rest, Taking
    <2>2. p + 2 \in 1 .. n + 1 /\ (p + 2) - 1 = p + 1 /\ (p + 2) - 2 = p /\ p < p + 2
      BY <1>1, <2>0
    <2>3. p + 2 <= n => p + 2 \in Looked
      <3> SUFFICES ASSUME p + 2 <= n PROVE p + 2 \in Looked
        OBVIOUS
      <3>1. p + 2 \in 1 .. n
        BY <1>1
      <3>2. Reached(Looked, p + 2)
        BY <1>1, <1>7, <2>2 DEF Reached
      <3> QED  BY <1>2, <3>1, <3>2
    <2>4. p + 1 \notin Looked
      <3>1. p + 1 \in 1 .. n /\ (p + 1) - 1 = p /\ (p + 1) - 2 = p - 1 /\ p + 1 # 1
        BY <1>1, <2>0
      <3>2. ~Reached(Looked, p + 1)
        BY <1>7, <3>1 DEF Reached, Standing
      <3> QED  BY <1>2, <3>1, <3>2
    <2>5. \A i \in Looked : i < p + 2 => i <= p
      <3>1. \A i \in Looked : i \in Nat /\ i # p + 1
        BY <1>2, <2>4
      <3> QED  BY <1>1, <3>1
    <2> QED  BY <1>3, <1>4, <2>1, <2>2, <2>3, <2>4, <2>5
  <1> QED  BY <1>6, <1>7
\* The end of the options.
LEMMA LineIsRead ==
  ASSUME LineInv, NEW p \in 1 .. Len(args) + 1, Standing(p), Over(argv), ~do_version
  PROVE  LineRead
  <1> DEFINE n == Len(args)
  <1>1. args \in Seq(Word) /\ n \in Nat /\ Looked \subseteq 1 .. n
    BY LookedExists DEF LineInv
  <1>2. CASE p = n + 1
    <2>1. \A i \in Looked : i < p
      BY <1>1, <1>2
    <2> QED  BY <1>2, <2>1 DEF Standing, Passed, LineRead
  <1>3. CASE p # n + 1
    <2>1. p \in 1 .. n
      BY <1>1, <1>3
    <2>2. args[p] = "--"
      BY <1>1, <2>1, ExactAt DEF Standing
    <2>3. \A i \in Looked : i <= p
      BY <1>1, <2>1, <2>2, NothingBehind DEF Standing
    <2>4. Spelled(p) = "--" /\ ~Taking(p)
      BY <2>2, SpelledAt
    <2>5. Fine(p) /\ Spelled(p) # "--version"
      BY <2>4 DEF Fine, Strange
    <2>6. ASSUME NEW i \in Looked PROVE Fine(i) /\ Spelled(i) # "--version"
      <3>1. CASE i = p
        BY <2>5, <3>1
      <3>2. CASE i # p
        <4>1. i < p
          BY <1>1, <2>3, <3>2
        <4> QED  BY <4>1 DEF Standing, Passed
      <3> QED  BY <3>1, <3>2
    <2>7. ASSUME NEW f PROVE Before(f, n + 1) = Before(f, p)
      <3>1. \A i \in Places(f) : i \in Looked /\ i # p
        BY <2>4 DEF Places
      <3>2. ASSUME NEW i \in Places(f) PROVE i < n + 1 /\ i < p
        <4>1. i \in 1 .. n /\ i <= p /\ i # p
          BY <1>1, <2>3, <3>1
        <4> QED  BY <1>1, <4>1
      <3> QED  BY <3>2 DEF Before
    <2>8. Stored(usercmd, n + 1)
      BY <2>7 DEF Standing, Stored
    <2> QED  BY <2>6, <2>8 DEF LineRead
  <1> QED  BY <1>2, <1>3

LEMMA GetOptLine == LineInv /\ GetOpt => LineInv'
  <1> SUFFICES ASSUME LineInv, GetOpt PROVE LineInv'
    OBVIOUS
  <1>1. /\ stage = "options" /\ UNCHANGED <<args, root, config>> /\ ~root
        /\ args \in Seq(Word) /\ usercmd \in [Field -> Operand] /\ do_version \in BOOLEAN
    BY DEF GetOpt, LineInv, lineVars
  <1>2. PICK p \in 1 .. Len(args) + 1 : Standing(p)
    BY <1>1 DEF LineInv
  <1>3. CASE Over(argv) /\ do_version
    BY <1>1, <1>3 DEF GetOpt, Exit, LineInv, optVars
  <1>4. CASE Over(argv) /\ ~do_version
    <2>1. stage' = "settings" /\ UNCHANGED <<argv, usercmd, do_version>>
      BY <1>1, <1>4 DEF GetOpt, Go, optVars
    <2>2. LineRead
      BY <1>2, <1>4, LineIsRead
    <2>3. LineRead'
      <3>1. /\ Looked' = Looked /\ \A i : Spelled(i)' = Spelled(i) /\ (Fine(i)' <=> Fine(i))
            /\ \A u, q : Stored(u, q)' <=> Stored(u, q)
        BY <1>1, ArgsFrame, LineFrame
      <3> QED  BY <1>1, <2>1, <2>2, <3>1 DEF LineRead
    <2> QED  BY <1>1, <2>1, <2>3 DEF LineInv
  <1>5. CASE ~Over(argv) /\ Refused(Exact(argv))
    BY <1>1, <1>5 DEF GetOpt, Exit, LineInv, optVars
  <1>6. CASE ~Over(argv) /\ ~Refused(Exact(argv))
    <2> DEFINE words == Exact(argv)
    <2>1. /\ stage' = "options" /\ argv' = Rest(words)
          /\ do_version' = (do_version \/ Head(words) = "--version")
          /\ usercmd' = IF Head(words) \in DOMAIN Takes THEN Assign(words) ELSE usercmd
      BY <1>1, <1>6 DEF GetOpt, Go
    <2>2. p \in 1 .. Len(args) /\ args[p] # "--"
      <3>1. p # Len(args) + 1
        <4>1. ASSUME p = Len(args) + 1 PROVE FALSE
          <5>1. argv = <<>>
            BY <1>1, <1>2, <4>1 DEF Standing
          <5> QED  BY <1>6, <5>1 DEF Over
        <4> QED  BY <4>1
      <3>2. p \in 1 .. Len(args)
        BY <1>1, <3>1
      <3> QED  BY <1>1, <1>2, <1>6, <3>2, ExactAt DEF Standing
    <2> HIDE DEF words
    <2>3. /\ Fine(p) /\ Head(words) = Spelled(p)
          /\ Taking(p) => words[2] = GivenAt(p)
      BY <1>2, <1>6, <2>2, StandingNext DEF words
    <2>4. PICK q \in 1 .. Len(args) + 1 :
            /\ p < q /\ \A i \in Looked : i < q => i <= p
            /\ Rest(words) = SubSeq(args, q, Len(args))
            /\ q <= Len(args) => q \in Looked
            /\ ~(q - 1 \in Looked /\ Taking(q - 1) /\ ~Joined(q - 1))
      BY <1>2, <1>6, <2>2, StandingNext DEF words
    <2>5. usercmd' = IF Taking(p) THEN [usercmd EXCEPT ![Takes[Spelled(p)]] = GivenAt(p)]
                     ELSE usercmd
      BY <2>1, <2>3 DEF Taking, Assign
    <2>6. Stored(usercmd', q)
      <3>1. p \in Looked /\ q \in Nat /\ Stored(usercmd, p)
        BY <1>1, <1>2, <2>2, <2>4 DEF Standing
      <3> QED  BY <1>1, <2>2, <2>4, <2>5, <3>1, StoredNext
    <2>7. Passed(do_version', q)
      <3> SUFFICES ASSUME NEW i \in Looked, i < q
                   PROVE  args[i] # "--" /\ Fine(i) /\ (Spelled(i) = "--version" => do_version')
        BY DEF Passed
      <3>1. CASE i = p
        BY <2>1, <2>2, <2>3, <3>1
      <3>2. CASE i # p
        <4>1. i < p
          BY <1>1, <2>2, <2>4, <3>2, LookedExists
        <4> QED  BY <1>2, <2>1, <4>1 DEF Standing, Passed
      <3> QED  BY <3>1, <3>2
    <2>8. Standing(q)'
      <3>1. /\ Looked' = Looked /\ \A i : (Joined(i)' <=> Joined(i)) /\ (Taking(i)' <=> Taking(i))
            /\ \A u, r : Stored(u, r)' <=> Stored(u, r)
            /\ \A v, r : Passed(v, r)' <=> Passed(v, r)
        BY <1>1, ArgsFrame, LineFrame
      <3>2. Stored(usercmd, q)' /\ Passed(do_version, q)'
        BY <2>6, <2>7, <3>1
      <3> QED  BY <1>1, <2>1, <2>4, <3>1, <3>2 DEF Standing
    <2>9. usercmd' \in [Field -> Operand] /\ do_version' \in BOOLEAN
      <3>1. Taking(p) => GivenAt(p) \in Operand
        BY <1>1, <2>2, <2>3, GivenIsOperand
      <3>2. Taking(p) => Takes[Spelled(p)] \in Field
        BY TakesField DEF Taking
      <3> QED  BY <1>1, <2>1, <2>5, <3>1, <3>2
    <2> QED  BY <1>1, <2>1, <2>4, <2>8, <2>9 DEF LineInv
  <1> QED  BY <1>3, <1>4, <1>5, <1>6
LEMMA ThrowsFrame ==
  ASSUME UNCHANGED config
  PROVE  Throws' <=> Throws
  BY DEF Throws, Load!Iterations, Load!Suite, Load!RunDivided, Load!RunDefault, Load!Divisible

LEMMA LineStep == LineInv /\ [Next]_vars => LineInv'
  <1> SUFFICES ASSUME LineInv, [Next]_vars PROVE LineInv'
    OBVIOUS
  <1>1. UNCHANGED <<args, root>>
    BY DEF Next, Step, CheckRoot, GetOpt, SetAll, Resolve, Connect, Queue, Interrupt, Settled,
           vars, lineVars
  <1>2. LineRead /\ UNCHANGED <<usercmd, do_version>> => LineRead'
    <2>1. /\ Looked' = Looked /\ \A i : Spelled(i)' = Spelled(i) /\ (Fine(i)' <=> Fine(i))
          /\ \A u, q : Stored(u, q)' <=> Stored(u, q)
      BY <1>1, ArgsFrame, LineFrame
    <2> QED  BY <1>1, <2>1 DEF LineRead
  <1>3. ASSUME NEW p, Standing(p), UNCHANGED optVars PROVE Standing(p)'
    <2>1. /\ Looked' = Looked /\ \A i : (Joined(i)' <=> Joined(i)) /\ (Taking(i)' <=> Taking(i))
          /\ \A u, r : Stored(u, r)' <=> Stored(u, r)
          /\ \A v, r : Passed(v, r)' <=> Passed(v, r)
      BY <1>1, ArgsFrame, LineFrame
    <2>2. UNCHANGED <<argv, usercmd, do_version>>
      BY <1>3 DEF optVars
    <2> QED  BY <1>1, <1>3, <2>1, <2>2 DEF Standing
  <1>4. UNCHANGED usercmd => Settings' = Settings
    BY DEF Settings, Given
  <1>5. CASE CheckRoot
    <2>1. /\ stage = "root" /\ UNCHANGED optVars
          /\ stage' = "exited" \/ (stage' = "options" /\ ~root)
      BY <1>5 DEF CheckRoot, Exit, Go
    <2>2. Standing(1)'
      BY <1>3, <2>1 DEF LineInv
    <2>3. 1 \in 1 .. Len(args) + 1
      BY DEF LineInv
    <2> QED  BY <1>1, <2>1, <2>2, <2>3 DEF LineInv, optVars
  <1>6. CASE GetOpt
    BY <1>6, GetOptLine
  <1>7. CASE SetAll
    <2>1. /\ stage = "settings" /\ stage' = "resolve" /\ config' = Settings
          /\ UNCHANGED <<usercmd, do_version>>
      BY <1>7 DEF SetAll, Go, optVars
    <2> QED  BY <1>1, <1>2, <1>4, <2>1 DEF LineInv
  <1>8. CASE Resolve
    <2>1. /\ stage = "resolve" /\ stage' \in {"exited", "connect"}
          /\ UNCHANGED <<usercmd, do_version, config>>
      BY <1>8 DEF Resolve, Exit, Go, optVars
    <2> QED  BY <1>1, <1>2, <1>4, <2>1 DEF LineInv
  <1>9. CASE Connect
    <2>1. /\ stage = "connect" /\ stage' \in {"exited", "login", "returned"}
          /\ UNCHANGED <<usercmd, do_version, config>>
      BY <1>9 DEF Connect, GiveUp, Exit, Go, optVars
    <2> QED  BY <1>1, <1>2, <1>4, <2>1 DEF LineInv
  <1>10. CASE Queue
    <2>1. /\ stage = "login" /\ UNCHANGED <<usercmd, do_version, config>>
          /\ stage' = "aborted" \/ (stage' = "loop" /\ ~Throws)
      BY <1>10 DEF Queue, Go, optVars
    <2>2. Throws' <=> Throws
      BY <2>1, ThrowsFrame
    <2> QED  BY <1>1, <1>2, <1>4, <2>1, <2>2 DEF LineInv
  <1>11. CASE Interrupt
    <2>1. /\ UNCHANGED <<usercmd, do_version, config>> /\ UNCHANGED optVars
          /\ stage' = "killed" \/ (stage' = stage /\ stage \notin {"loop"})
      BY <1>11 DEF Interrupt, optVars
    <2> QED  BY <1>1, <1>2, <1>3, <1>4, <2>1 DEF LineInv
  <1>12. CASE UNCHANGED vars
    <2>1. UNCHANGED <<usercmd, do_version, config, stage>> /\ UNCHANGED optVars
      BY <1>12 DEF vars, optVars
    <2>2. Throws' <=> Throws
      BY <2>1, ThrowsFrame
    <2> QED  BY <1>1, <1>2, <1>3, <1>4, <2>1, <2>2 DEF LineInv
  <1> QED
    BY <1>5, <1>6, <1>7, <1>8, <1>9, <1>10, <1>11, <1>12 DEF Next, Step, Settled
-----------------------------------------------------------------------------
(***************************************************************************)
(* What the invariant says of the settings.                                *)
(***************************************************************************)
LEMMA GivenLast ==
  ASSUME LineInv, LineRead, NEW f \in Field
  PROVE  usercmd[f] = LastGiven(f)
  <1> DEFINE IsLast(i) == \A j \in Places(f) : j <= i
  <1>1. Looked \subseteq Nat /\ \A i \in Looked : i < Len(args) + 1
    BY LookedExists DEF LineInv
  <1>2. Before(f, Len(args) + 1) = Places(f)
    BY <1>1 DEF Before, Places
  <1>3. CASE Places(f) = {}
    BY <1>2, <1>3 DEF LineRead, Stored, LastGiven
  <1>4. CASE Places(f) # {}
    <2>1. PICK i \in Places(f) : IsLast(i) /\ usercmd[f] = GivenAt(i)
      BY <1>2, <1>4 DEF LineRead, Stored
    <2> DEFINE last == CHOOSE k \in Places(f) : IsLast(k)
    <2>2. last \in Places(f) /\ IsLast(last)
      <3> HIDE DEF IsLast
      <3> QED  BY <2>1
    <2>3. last = i
      <3> HIDE DEF last
      <3>1. last <= i /\ i <= last
        BY <2>1, <2>2
      <3>2. last \in Nat /\ i \in Nat
        BY <1>1, <2>1, <2>2 DEF Places
      <3> QED  BY <3>1, <3>2
    <2>4. LastGiven(f) = GivenAt(last)
      BY <1>4 DEF LastGiven
    <2> QED  BY <2>1, <2>3, <2>4
  <1> QED  BY <1>3, <1>4

LEMMA SettingsFit == LineInv => ConfigFollowsArgs
  <1> SUFFICES ASSUME LineInv, stage \in {"resolve", "connect", "login", "loop"},
                      NEW f \in DOMAIN config, NEW w, w = LastGiven(f)
               PROVE  config[f] = IF w = Empty THEN (IF f \in DOMAIN Documented THEN Documented[f] ELSE Empty)
                                  ELSE IF f \in Numeric THEN (IF Fits(w) THEN ReadsAs[w] ELSE 0)
                                  ELSE w
    BY DEF ConfigFollowsArgs
  <1>1. config = Settings /\ LineRead
    BY DEF LineInv
  <1>2. f \in Field
    BY <1>1 DEF Settings, Field
  <1>3. usercmd[f] = w
    BY <1>1, <1>2, GivenLast
  <1>4. convto_num(w) = IF Fits(w) THEN ReadsAs[w] ELSE 0
    BY StartupAssumption DEF convto_num, Fits
  <1>5. CASE f \in Numeric
    <2>1. Settings[f] = IF w = Empty THEN Documented[f] ELSE convto_num(w)
      BY <1>3, <1>5 DEF Settings, Given, Numeric, Documented, DEFAULT_LENGTH
    <2> QED  BY <1>1, <1>4, <1>5, <2>1 DEF Numeric, Documented
  <1>6. CASE f \in {"host", "port", "pass", "login"}
    BY <1>1, <1>3, <1>6 DEF Settings, Given, Numeric, Documented
  <1>7. CASE f \in {"tests", "select"}
    BY <1>1, <1>3, <1>7 DEF Settings, Numeric, Documented
  <1> QED  BY <1>2, <1>5, <1>6, <1>7 DEF Field, Numeric

(***************************************************************************)
(* The assumptions of Workload and Protocol hold for every configuration   *)
(* that SetAll makes, so what ScriptProofs shows of their script is true   *)
(* of the one that is queued.                                              *)
(***************************************************************************)
Script == INSTANCE ScriptProofs WITH
            Runs      <- config.runs,
            Times     <- config.times,
            Tests     <- TokensOf[config.tests],
            Divided   <- config.tests # Empty,
            UseSelect <- config.select \notin {Empty, "1"}

LEMMA ConfigTyped ==
  ASSUME LineInv, config = Settings
  PROVE  /\ config.runs \in Int /\ config.times \in Int /\ config.length \in Int
         /\ TokensOf[config.tests] \in Seq(STRING)
  <1>1. \A w : convto_num(w) \in Int
    BY StartupAssumption DEF convto_num
  <1>2. config.runs \in Int /\ config.times \in Int /\ config.length \in Int
    BY <1>1, StartupAssumption DEF Settings, Given, DEFAULT_LENGTH
  <1>3. config.tests = usercmd["tests"] /\ usercmd["tests"] \in Operand
    BY DEF Settings, LineInv, Field
  <1> QED  BY <1>2, <1>3, StartupAssumption

LEMMA SameScript ==
  /\ Load!RunScript = Script!RunScript
  /\ Load!Line = Script!Line /\ Load!Test = Script!Test
  /\ Load!Suite = Script!Suite
  /\ Load!Iterations(config.times) = Script!Iterations(config.times)
  <1>1. Load!Suite = Script!Suite
    BY DEF Load!Suite, Load!RunDivided, Load!RunDefault, Load!Divisible,
           Script!Suite, Script!RunDivided, Script!RunDefault, Script!Divisible
  <1>2. \A n : Load!Iterations(n) = Script!Iterations(n)
    BY DEF Load!Iterations, Script!Iterations
  <1>3. Load!Pass = Script!Pass
    BY <1>1, <1>2 DEF Load!Pass, Script!Pass
  <1>4. Load!Passes = Script!Passes
    BY <1>2, <1>3 DEF Load!Passes, Script!Passes
  <1>5. Load!RunScript = Script!RunScript
    BY <1>4 DEF Load!RunScript, Script!RunScript, Load!Run, Script!Run, Load!LogIn, Script!LogIn
  <1>6. Load!Line = Script!Line /\ Load!Test = Script!Test
    BY DEF Load!Line, Script!Line, Load!Test, Script!Test
  <1> QED  BY <1>1, <1>2, <1>5, <1>6

LEMMA ScriptFit == LineInv => ReadyForLink
  <1> SUFFICES ASSUME LineInv, stage = "loop" PROVE ReadyForLink
    BY DEF ReadyForLink
  <1> DEFINE script == Load!RunScript
  <1>1. config = Settings /\ ~Throws /\ LineRead
    BY DEF LineInv
  <1>2. /\ config.runs \in Int /\ config.times \in Int /\ config.length \in Int
        /\ TokensOf[config.tests] \in Seq(STRING)
    BY <1>1, ConfigTyped
  <1>3. /\ Script!RunScript # <<>>
        /\ Script!RunScript[Len(Script!RunScript)] = "QUIT"
        /\ \A i \in 1 .. Len(Script!RunScript) - 1 : Script!RunScript[i] \notin {"QUIT", "PONG"}
    BY <1>2, Script!ScriptReady
  <1>4. ASSUME NEW i \in 1 .. Len(Script!RunScript) - 1
        PROVE  /\ Script!RunScript[i] \in Script!Line
               /\ Script!RunScript[i] \in Script!Test =>
                    Script!Iterations(config.times) > 0 /\ Script!Suite # <<>>
    BY <1>2, Script!TestsQueued
  <1>5. ASSUME NEW i \in 1 .. Len(script) - 1, script[i] \in Load!Test,
               NEW n, n = LastGiven("length")
        PROVE  ~(Fits(n) /\ ReadsAs[n] < 0)
    <2>1. ~(config.length < 0)
      BY <1>1, <1>4, <1>5, SameScript DEF Throws
    <2>2. usercmd["length"] = n /\ config.length = Given("length", convto_num(n), DEFAULT_LENGTH)
      BY <1>1, <1>5, GivenLast DEF Field, Settings
    <2>3. n = Empty \/ config.length = convto_num(n)
      BY <2>2 DEF Given
    <2>4. Fits(n) => convto_num(n) = ReadsAs[n]
      BY StartupAssumption DEF Fits, convto_num
    <2>5. n = Empty => ~Fits(n)
      BY StartupAssumption DEF Fits
    <2> QED  BY <2>1, <2>3, <2>4, <2>5
  <1>6. \A i \in 1 .. Len(script) - 1 : script[i] \in Load!Line \ {"QUIT", "PONG"}
    BY <1>3, <1>4, SameScript
  <1> QED  BY <1>3, <1>5, <1>6, SameScript DEF ReadyForLink

-----------------------------------------------------------------------------
(***************************************************************************)
(* For every command line, every set of words and every reading of them as *)
(* numbers: once SetAll has run, each setting is the last one given, an    *)
(* int when it fits one and 0 when not, or its default.                    *)
(***************************************************************************)
THEOREM ConfigCorrect == Spec => []ConfigFollowsArgs
  BY LineInit, LineStep, SettingsFit, PTL DEF Spec

(***************************************************************************)
(* Nobody connects for a command line with a mistake in it, for one that   *)
(* asks for the version, or for root.                                      *)
(***************************************************************************)
THEOREM ConnectsWhenAsked == Spec => []NoConnectionUnasked
  <1>1. LineInv => NoConnectionUnasked
    BY DEF LineInv, LineRead, Fine, NoConnectionUnasked
  <1> QED  BY <1>1, LineInit, LineStep, PTL DEF Spec

(***************************************************************************)
(* The loop starts with a script that Link can work on, whatever the       *)
(* settings are.                                                           *)
(***************************************************************************)
THEOREM LoopReady == Spec => []ReadyForLink
  BY LineInit, LineStep, ScriptFit, PTL DEF Spec
=============================================================================
