---------------------------- MODULE ScriptProofs ---------------------------
(***************************************************************************)
(* The script that Handlers::Run queues, for every list of tests, every    *)
(* --runs and every --times: lines that Link knows, the tests in runs of   *)
(* --runs equal ones, QUIT last and only there.                            *)
(***************************************************************************)
EXTENDS Workload, Induction, SequenceTheorems

-----------------------------------------------------------------------------
(***************************************************************************)
(* The tests of a pass are tests, whatever the words after --tests: those  *)
(* that RunDivided does not know are passed over.                          *)
(***************************************************************************)
LEMMA SuiteType == Suite \in Seq(Divisible \cup {"vpush", "hset", "decr"})
  <1> DEFINE S == Seq(Divisible)
             N == Len(Tests)
             init == <<>>
             step == [x \in (1 .. N) \X S |->
                        IF Tests[x[1]] \in Divisible THEN Append(x[2], Tests[x[1]]) ELSE x[2]]
             queued == CHOOSE f :
               f = [i \in 0 .. N |->
                      IF i = 0 THEN <<>>
                      ELSE IF Tests[i] \in Divisible THEN Append(f[i - 1], Tests[i]) ELSE f[i - 1]]
  <1>1. <<>> \in S /\ N \in Nat
    BY WorkloadAssumption
  <1>2. step \in [(1 .. N) \X S -> S]
    <2>1. \A x \in (1 .. N) \X S : x[2] \in S /\ x[1] \in 1 .. N
      OBVIOUS
    <2>2. \A q \in S, w \in Divisible : Append(q, w) \in S
      OBVIOUS
    <2> HIDE DEF S, N
    <2>3. ASSUME NEW x \in (1 .. N) \X S
          PROVE  (IF Tests[x[1]] \in Divisible THEN Append(x[2], Tests[x[1]]) ELSE x[2]) \in S
      BY <2>1, <2>2
    <2> QED  BY <2>3
  <1>3. PICK f \in [0 .. N -> S] : Computes(f, N, init, step)
    <2>1. init \in S
      BY <1>1
    <2> HIDE DEF S, N, step, init
    <2> QED  BY <1>1, <1>2, <2>1, Recursion
  <1>4. f = [i \in 0 .. N |->
               IF i = 0 THEN <<>>
               ELSE IF Tests[i] \in Divisible THEN Append(f[i - 1], Tests[i]) ELSE f[i - 1]]
    <2> HIDE DEF S, N
    <2>1. ASSUME NEW i \in 1 .. N
          PROVE  f[i] = IF Tests[i] \in Divisible THEN Append(f[i - 1], Tests[i]) ELSE f[i - 1]
      <3>1. i - 1 \in 0 .. N /\ f[i - 1] \in S
        BY <1>1
      <3> QED  BY <1>3, <3>1 DEF Computes
    <2>2. \A i \in 0 .. N : i # 0 => i \in 1 .. N
      BY <1>1
    <2> HIDE DEF step
    <2> QED  BY <1>3, <2>1, <2>2 DEF Computes
  <1> HIDE DEF S, N
  <1>5. queued = [i \in 0 .. N |->
                    IF i = 0 THEN <<>>
                    ELSE IF Tests[i] \in Divisible THEN Append(queued[i - 1], Tests[i])
                    ELSE queued[i - 1]]
    BY <1>4
  <1> HIDE DEF queued
  <1>6. 0 .. N \subseteq {i \in 0 .. N : queued[i] \in S}
    <2> DEFINE D == {i \in 0 .. N : queued[i] \in S}
    <2>1. 0 \in D
      BY <1>1, <1>5
    <2>2. ASSUME NEW n \in 1 .. N, n - 1 \in D PROVE n \in D
      <3>1. n \in 0 .. N /\ n # 0
        BY <1>1
      <3>2. /\ queued[n - 1] \in Seq(Divisible)
            /\ queued[n] = IF Tests[n] \in Divisible THEN Append(queued[n - 1], Tests[n])
                           ELSE queued[n - 1]
        BY <1>5, <2>2, <3>1 DEF S
      <3>3. queued[n] \in Seq(Divisible)
        BY <3>2
      <3> QED  BY <3>1, <3>3 DEF S
    <2> HIDE DEF D
    <2>3. 0 .. N \subseteq D
      BY <1>1, <2>1, <2>2, BoundedInduction
    <2> QED  BY <2>3 DEF D
  <1>7. RunDivided \in S
    <2>1. RunDivided = queued[N]
      BY DEF RunDivided, queued, N
    <2> QED  BY <1>1, <1>6, <2>1
  <1> DEFINE T == Divisible \cup {"vpush", "hset", "decr"}
  <1>8. RunDivided \in Seq(T)
    <2>1. Divisible \subseteq T
      OBVIOUS
    <2> HIDE DEF T
    <2> QED  BY <1>7, <2>1 DEF S
  <1>9. RunDefault \in Seq(T)
    BY DEF RunDefault, Divisible
  <1> QED  BY <1>8, <1>9 DEF Suite

LEMMA SuiteTests == Suite \in Seq(Test)
  <1> DEFINE T == Divisible \cup {"vpush", "hset", "decr"}
  <1>1. T \subseteq Test
    BY DEF Divisible, Test
  <1>2. Suite \in Seq(T)
    BY SuiteType
  <1> HIDE DEF T
  <1> QED  BY <1>1, <1>2

-----------------------------------------------------------------------------
\* The place of a line in the suite: by rounds of R, and by passes of L * R.
LEMMA PlaceInSuite ==
  ASSUME NEW R \in Nat \ {0}, NEW L \in Nat \ {0}, NEW q \in Nat, NEW r \in 0 .. R - 1
  PROVE  ((R * q + r) % (L * R)) \div R = q % L
  <1> DEFINE p == q \div L
             s == q % L
             M == L * R
             a == R * q + r
             b == R * s + r
  <1>1. q = L * p + s /\ s \in 0 .. L - 1 /\ p \in Nat
    BY DivMod, Zenon
  <1> HIDE DEF p, s
  <1>2. M \in Nat \ {0}
    <2>1. R * 0 + R <= R * L
      BY Multiples
    <2> QED  BY <2>1
  <1>3. b \in 0 .. M - 1
    <2>1. R * s + R <= R * L
      BY <1>1, Multiples
    <2>2. R * s \in Nat /\ R * L = M
      BY <1>1
    <2> QED  BY <2>1, <2>2
  <1>4. a = M * p + b
    <2>1. R * (L * p + s) = (L * R) * p + R * s
      BY <1>1
    <2> QED  BY <1>1, <2>1
  <1>5. a % M = b
    <2> HIDE DEF a, M, b
    <2> QED  BY <1>1, <1>2, <1>3, <1>4, DivModUnique, Zenon
  <1>6. b \div R = s
    <2>1. s \in Nat
      BY <1>1
    <2> QED  BY <2>1, DivModUnique, Zenon
  <1> QED  BY <1>5, <1>6 DEF s

-----------------------------------------------------------------------------
\* The lines before the first test.
Opening == Len(LogIn) + 1

\* The passes: every line a test, and equal ones next to each other but at
\* the multiples of --runs.
LEMMA PassesGrouped ==
  ASSUME Suite \in Seq(Test)
  PROVE  /\ Passes \in Seq(Test) /\ Len(Passes) \in Nat
         /\ Len(Passes) > 0 => Iterations(Runs) = Runs /\ Runs \in Nat \ {0}
         /\ \A k \in 1 .. Len(Passes) :
              (k - 1) % Iterations(Runs) > 0 => k > 1 /\ Passes[k - 1] = Passes[k]
  <1> DEFINE R == Iterations(Runs)
             L == Len(Suite)
             T == Iterations(Times)
             N == T * Len(Pass)
  <1>1. R \in Nat /\ T \in Nat /\ L \in Nat /\ (R > 0 => R = Runs)
    BY RunsAssumption, WorkloadAssumption DEF Iterations
  <1>2. Len(Pass) = L * R /\ L * R \in Nat /\ DOMAIN Pass = 1 .. L * R
    <2>1. L * R \in Nat
      BY <1>1
    <2> HIDE DEF R, L
    <2> QED  BY <2>1 DEF Pass, R, L
  <1>3. Len(Passes) = N /\ N \in Nat /\ DOMAIN Passes = 1 .. N
    <2>1. N \in Nat
      BY <1>1, <1>2
    <2> HIDE DEF N
    <2> QED  BY <2>1 DEF Passes, N
  <1>4. CASE N = 0
    <2>1. Passes \in Seq(Test)
      <3>1. Passes = [k \in 1 .. 0 |-> Passes[k]]
        BY <1>3, <1>4 DEF Passes
      <3>2. [k \in 1 .. 0 |-> Passes[k]] \in Seq(Test)
        OBVIOUS
      <3> QED  BY <3>1, <3>2, Zenon
    <2> HIDE DEF N
    <2> QED  BY <1>3, <1>4, <2>1
  <1>5. CASE N > 0
    <2>1. L > 0 /\ R > 0
      <3>1. Len(Pass) # 0
        BY <1>1, <1>5
      <3> QED  BY <1>1, <1>2, <3>1
    <2>2. L * R \in Nat \ {0}
      <3>1. R * 0 + R <= R * L
        BY <1>1, <2>1, Multiples
      <3> QED  BY <1>1, <2>1, <3>1
    <2> HIDE DEF R, L, T, N
    <2>3. ASSUME NEW a \in Nat, a < N
          PROVE  /\ (a % (L * R)) \div R \in 0 .. L - 1
                 /\ Passes[a + 1] = Suite[((a % (L * R)) \div R) + 1]
                 /\ Passes[a + 1] \in Test
      <3> DEFINE b == a % (L * R)
      <3>1. b \in 0 .. L * R - 1
        BY <2>2, DivMod
      <3> HIDE DEF b
      <3>2. b \div R \in 0 .. L - 1
        <4> DEFINE c == b \div R
                   d == b % R
        <4>0. b \in Nat /\ R \in Nat \ {0} /\ L \in Nat
          BY <1>1, <2>1, <2>2, <3>1
        <4>1. b = R * c + d /\ d \in 0 .. R - 1 /\ c \in Nat /\ R * c \in Nat
          BY <4>0, DivMod, Zenon
        <4> HIDE DEF c, d
        <4>2. ~(L <= c)
          <5> SUFFICES ASSUME L <= c PROVE FALSE
            OBVIOUS
          <5>1. R * L <= R * c /\ R * L \in Nat /\ R * L = L * R
            <6>1. R * L \in Nat /\ R * L = L * R
              BY <4>0
            <6>2. L < c => R * L + R <= R * c
              BY <4>0, <4>1, Multiples, Zenon
            <6> QED  BY <4>0, <4>1, <6>1, <6>2
          <5>2. b <= L * R - 1
            BY <2>2, <3>1
          <5> QED  BY <4>0, <4>1, <5>1, <5>2
        <4>3. c \in 0 .. L - 1
          BY <4>0, <4>1, <4>2
        <4> QED  BY <4>3 DEF c
      <3>3. Passes[a + 1] = Pass[b + 1]
        <4>1. a + 1 \in 1 .. N /\ (a + 1) - 1 = a
          BY <1>3, <2>3
        <4> QED  BY <1>2, <4>1 DEF Passes, N, T, b
      <3>4. Pass[b + 1] = Suite[(b \div R) + 1]
        <4>1. b + 1 \in 1 .. L * R /\ (b + 1) - 1 = b
          BY <2>2, <3>1
        <4> QED  BY <4>1 DEF Pass, L, R
      <3>5. Suite[(b \div R) + 1] \in Test
        <4>1. (b \div R) + 1 \in 1 .. L
          BY <1>1, <3>2
        <4> QED  BY <4>1, ElementOfSeq DEF L
      <3> QED  BY <3>2, <3>3, <3>4, <3>5 DEF b
    <2>4. Passes \in Seq(Test)
      <3>1. \A k \in 1 .. N : Passes[k] \in Test
        <4> SUFFICES ASSUME NEW k \in 1 .. N PROVE Passes[k] \in Test
          OBVIOUS
        <4>1. k - 1 \in Nat /\ k - 1 < N /\ (k - 1) + 1 = k
          BY <1>3
        <4> QED  BY <2>3, <4>1
      <3>2. Passes = [k \in 1 .. N |-> Passes[k]]
        BY <1>2 DEF Passes, N, T
      <3> QED  BY <1>3, <3>1, <3>2
    <2>5. ASSUME NEW k \in 1 .. N, (k - 1) % R > 0
          PROVE  k > 1 /\ Passes[k - 1] = Passes[k]
      <3> DEFINE q == (k - 1) \div R
                 r == (k - 1) % R
      <3>1. k - 1 \in Nat /\ k - 1 < N
        BY <1>3
      <3>0. R \in Nat \ {0} /\ L \in Nat \ {0}
        BY <1>1, <2>1
      <3>2. k - 1 = R * q + r /\ r \in 0 .. R - 1 /\ q \in Nat /\ R * q \in Nat
        BY <3>0, <3>1, DivMod, Zenon
      <3>3. r > 0
        BY <2>5
      <3> HIDE DEF q, r
      <3>4. k > 1 /\ k - 2 = R * q + (r - 1) /\ r - 1 \in 0 .. R - 1
        BY <1>1, <3>1, <3>2, <3>3
      <3>5. /\ ((k - 1) % (L * R)) \div R = q % L
            /\ ((k - 2) % (L * R)) \div R = q % L
        <4>1. ((R * q + r) % (L * R)) \div R = q % L
          BY <3>0, <3>2, PlaceInSuite, Zenon
        <4>2. ((R * q + (r - 1)) % (L * R)) \div R = q % L
          BY <3>0, <3>2, <3>4, PlaceInSuite, Zenon
        <4> QED  BY <3>2, <3>4, <4>1, <4>2, Zenon
      <3>6. k - 2 \in Nat /\ k - 2 < N /\ (k - 2) + 1 = k - 1 /\ (k - 1) + 1 = k
        BY <1>3, <3>4
      <3>7. Passes[(k - 1) + 1] = Suite[(((k - 1) % (L * R)) \div R) + 1]
        BY <2>3, <3>1
      <3>8. Passes[(k - 2) + 1] = Suite[(((k - 2) % (L * R)) \div R) + 1]
        BY <2>3, <3>6
      <3> QED  BY <3>4, <3>5, <3>6, <3>7, <3>8
    <2> QED  BY <1>1, <1>3, <2>1, <2>4, <2>5 DEF R
  <1> QED  BY <1>3, <1>4, <1>5

\* The script, line by line.
LEMMA ScriptLines ==
  ASSUME Suite \in Seq(Test)
  PROVE  /\ RunScript \in Seq(Line) /\ Opening \in Nat \ {0}
         /\ Len(RunScript) = Opening + Len(Passes) + 1
         /\ \A n \in 1 .. Opening : RunScript[n] \in Line \ (Test \cup {"QUIT", "PONG"})
         /\ \A k \in 1 .. Len(Passes) : RunScript[Opening + k] = Passes[k]
         /\ RunScript[Len(RunScript)] = "QUIT"
  <1> DEFINE Plain == Line \ (Test \cup {"QUIT", "PONG"})
             front == <<"flushall">> \o Passes
  <1>1. Passes \in Seq(Test) /\ Len(Passes) \in Nat
    BY PassesGrouped
  <1>2. Passes \in Seq(Line) /\ "flushall" \in Plain /\ "QUIT" \in Line
    BY <1>1 DEF Line, Test
  <1>3. LogIn \in Seq(Plain) /\ Len(LogIn) \in {1, 2}
    <2>1. "ILOGIN" \in Plain /\ "use" \in Plain
      BY DEF Line, Test
    <2> HIDE DEF Plain
    <2> DEFINE rest == IF UseSelect THEN <<"use">> ELSE <<>>
    <2>2. <<"ILOGIN">> \in Seq(Plain) /\ Len(<<"ILOGIN">>) = 1
      BY <2>1
    <2>3. rest \in Seq(Plain) /\ Len(rest) \in {0, 1}
      BY <2>1
    <2> HIDE DEF rest
    <2>4. /\ <<"ILOGIN">> \o rest \in Seq(Plain)
          /\ Len(<<"ILOGIN">> \o rest) = 1 + Len(rest)
      BY <2>2, <2>3, ConcatProperties
    <2>5. LogIn = <<"ILOGIN">> \o rest
      BY Zenon DEF LogIn, rest
    <2> QED  BY <2>3, <2>4, <2>5
  <1>4. LogIn \in Seq(Line) /\ \A n \in 1 .. Len(LogIn) : LogIn[n] \in Plain
    <2> SUFFICES LogIn \in Seq(Line)
      BY <1>3, ElementOfSeq
    <2>1. Plain \subseteq Line
      OBVIOUS
    <2> HIDE DEF Plain
    <2> QED  BY <1>3, <2>1
  <1>5. <<"flushall">> \in Seq(Line) /\ <<"QUIT">> \in Seq(Line)
    BY <1>2
  <1> HIDE DEF Plain
  <1>6. /\ front \in Seq(Line) /\ Len(front) = 1 + Len(Passes)
        /\ front[1] = "flushall" /\ \A k \in 1 .. Len(Passes) : front[1 + k] = Passes[k]
    <2>1. /\ front \in Seq(Line) /\ Len(front) = 1 + Len(Passes)
          /\ \A i \in 1 .. 1 + Len(Passes) :
               front[i] = IF i <= 1 THEN <<"flushall">>[i] ELSE Passes[i - 1]
      BY <1>2, <1>5, ConcatProperties
    <2> HIDE DEF front
    <2> QED  BY <1>1, <2>1
  <1> HIDE DEF front
  <1>7. /\ Run \in Seq(Line) /\ Len(Run) = Len(Passes) + 2
        /\ \A i \in 1 .. Len(Passes) + 1 : Run[i] = front[i]
        /\ Run[Len(Passes) + 2] = "QUIT"
    <2>1. Run = front \o <<"QUIT">>
      BY DEF Run, front
    <2>2. /\ front \o <<"QUIT">> \in Seq(Line)
          /\ Len(front \o <<"QUIT">>) = Len(front) + 1
          /\ \A i \in 1 .. Len(front) + 1 :
               (front \o <<"QUIT">>)[i] = IF i <= Len(front) THEN front[i] ELSE <<"QUIT">>[i - Len(front)]
      BY <1>5, <1>6, ConcatProperties
    <2> QED  BY <1>1, <1>6, <2>1, <2>2
  <1>8. /\ RunScript \in Seq(Line) /\ Len(RunScript) = Len(LogIn) + Len(Passes) + 2
        /\ \A i \in 1 .. Len(LogIn) : RunScript[i] = LogIn[i]
        /\ \A i \in 1 .. Len(Passes) + 2 : RunScript[Len(LogIn) + i] = Run[i]
    <2>1. /\ RunScript \in Seq(Line) /\ Len(RunScript) = Len(LogIn) + Len(Run)
          /\ \A i \in 1 .. Len(LogIn) + Len(Run) :
               RunScript[i] = IF i <= Len(LogIn) THEN LogIn[i] ELSE Run[i - Len(LogIn)]
      BY <1>4, <1>7, ConcatProperties DEF RunScript
    <2>2. /\ Len(LogIn) \in Nat /\ Len(Passes) \in Nat
          /\ Len(LogIn) + Len(Run) = Len(LogIn) + Len(Passes) + 2
      BY <1>1, <1>3, <1>7
    <2>3. ASSUME NEW i \in 1 .. Len(LogIn) PROVE RunScript[i] = LogIn[i]
      BY <2>1, <2>2
    <2>4. ASSUME NEW i \in 1 .. Len(Passes) + 2 PROVE RunScript[Len(LogIn) + i] = Run[i]
      <3>1. /\ Len(LogIn) + i \in 1 .. Len(LogIn) + Len(Run) /\ ~(Len(LogIn) + i <= Len(LogIn))
            /\ (Len(LogIn) + i) - Len(LogIn) = i
        BY <2>2
      <3> QED  BY <2>1, <3>1
    <2> QED  BY <2>1, <2>2, <2>3, <2>4
  <1>9. Opening = Len(LogIn) + 1
    BY DEF Opening
  <1>10. \A n \in 1 .. Opening : RunScript[n] \in Plain
    <2>1. RunScript[Opening] = "flushall"
      BY <1>1, <1>6, <1>7, <1>8, <1>9
    <2> SUFFICES ASSUME NEW n \in 1 .. Opening PROVE RunScript[n] \in Plain
      OBVIOUS
    <2>2. CASE n = Opening
      BY <1>2, <2>1, <2>2
    <2>3. CASE n # Opening
      <3>1. n \in 1 .. Len(LogIn)
        BY <1>3, <1>9, <2>3
      <3> QED  BY <1>4, <1>8, <3>1
    <2> QED  BY <2>2, <2>3
  <1>11. \A k \in 1 .. Len(Passes) : RunScript[Opening + k] = Passes[k]
    <2> SUFFICES ASSUME NEW k \in 1 .. Len(Passes) PROVE RunScript[Opening + k] = Passes[k]
      OBVIOUS
    <2>1. 1 + k \in 1 .. Len(Passes) + 1 /\ Opening + k = Len(LogIn) + (1 + k)
      BY <1>1, <1>3, <1>9
    <2>2. RunScript[Len(LogIn) + (1 + k)] = Run[1 + k]
      BY <1>1, <1>8, <2>1
    <2> QED  BY <1>6, <1>7, <2>1, <2>2
  <1>12. RunScript[Len(RunScript)] = "QUIT"
    <2>1. Len(Passes) + 2 \in 1 .. Len(Passes) + 2 /\ Len(RunScript) = Len(LogIn) + (Len(Passes) + 2)
      BY <1>1, <1>3, <1>8
    <2> QED  BY <1>7, <1>8, <2>1
  <1>13. Opening \in Nat \ {0} /\ Len(RunScript) = Opening + Len(Passes) + 1
    BY <1>1, <1>3, <1>8, <1>9
  <1> QED  BY <1>8, <1>10, <1>11, <1>12, <1>13 DEF Plain

(***************************************************************************)
(* What Server::Initialize has queued when it enters its loop is what Link *)
(* takes for granted of its buffer (LinkAssumption).                       *)
(***************************************************************************)
THEOREM ScriptReady ==
  /\ RunScript \in Seq(Line) /\ RunScript # <<>>
  /\ RunScript[Len(RunScript)] = "QUIT"
  /\ \A i \in 1 .. Len(RunScript) - 1 : RunScript[i] \notin {"QUIT", "PONG"}
  <1> USE SuiteTests
  <1>1. Passes \in Seq(Test) /\ Len(Passes) \in Nat
    BY PassesGrouped
  <1>2. ASSUME NEW i \in 1 .. Len(RunScript) - 1
        PROVE  RunScript[i] \notin {"QUIT", "PONG"}
    <2>1. CASE i <= Opening
      BY <2>1, ScriptLines
    <2>2. CASE i > Opening
      <3>1. i - Opening \in 1 .. Len(Passes) /\ i = Opening + (i - Opening)
        BY <1>1, <2>2, ScriptLines
      <3>2. RunScript[i] \in Test
        <4>1. Passes[i - Opening] \in Test
          BY <1>1, <3>1, ElementOfSeq
        <4>2. RunScript[Opening + (i - Opening)] = Passes[i - Opening]
          BY <3>1, ScriptLines
        <4> QED  BY <3>1, <4>1, <4>2
      <3> QED  BY <3>2 DEF Test
    <2> QED  BY <2>1, <2>2, ScriptLines
  <1>3. RunScript # <<>>
    <2>1. RunScript \in Seq(Line) /\ Len(RunScript) > 0
      BY <1>1, ScriptLines
    <2> QED  BY <2>1
  <1> QED  BY <1>2, <1>3, ScriptLines

\* A test is only queued by a pass that is made, of a suite that has one.
LEMMA TestsQueued ==
  ASSUME NEW i \in 1 .. Len(RunScript) - 1
  PROVE  /\ RunScript[i] \in Line
         /\ RunScript[i] \in Test => Iterations(Times) > 0 /\ Suite # <<>>
  <1>1. /\ Passes \in Seq(Test) /\ Len(Passes) \in Nat /\ RunScript \in Seq(Line)
        /\ Opening \in Nat /\ Len(RunScript) = Opening + Len(Passes) + 1
    BY SuiteTests, PassesGrouped, ScriptLines
  <1>2. RunScript[i] \in Line
    <2>1. i \in 1 .. Len(RunScript)
      BY <1>1
    <2> QED  BY <1>1, <2>1, ElementOfSeq
  <1>3. ASSUME RunScript[i] \in Test PROVE Len(Passes) # 0
    <2>1. ~(i \in 1 .. Opening)
      BY <1>3, SuiteTests, ScriptLines
    <2> QED  BY <1>1, <2>1
  <1>4. ASSUME Len(Passes) # 0 PROVE Iterations(Times) > 0 /\ Suite # <<>>
    <2> DEFINE T == Iterations(Times)
               R == Iterations(Runs)
               L == Len(Suite)
    <2>1. T \in Nat /\ R \in Nat
      BY WorkloadAssumption, RunsAssumption DEF Iterations
    <2>2. L \in Nat
      BY SuiteTests
    <2>3. Len(Pass) = L * R /\ L * R \in Nat
      <3> HIDE DEF L, R
      <3>1. L * R \in Nat
        BY <2>1, <2>2
      <3> QED  BY <3>1 DEF Pass, L, R
    <2>4. Len(Passes) = T * Len(Pass)
      <3> HIDE DEF T
      <3>1. T * Len(Pass) \in Nat
        BY <2>1, <2>3
      <3> QED  BY <3>1 DEF Passes, T
    <2> HIDE DEF L, T, R
    <2>5. L # 0 /\ T # 0
      BY <1>4, <2>1, <2>2, <2>3, <2>4
    <2>6. L # 0 => Suite # <<>>
      BY DEF L
    <2> QED  BY <2>1, <2>5, <2>6 DEF T
  <1> QED  BY <1>2, <1>3, <1>4
=============================================================================
