---------------------------- MODULE FramingProofs ---------------------------
(***************************************************************************)
(* Theorems about Framing, for every buffer size and every byte stream.    *)
(***************************************************************************)
EXTENDS Framing, Induction, SequenceTheorems, FiniteSetTheorems

(***************************************************************************)
(* What the scan has looked at: no CRLF ends at or before index i.         *)
(***************************************************************************)
NoCRLFUpTo(n) ==
  \A k \in 1 .. n - 1 :
    k + 1 <= message_end => ~(buffered_message[k] = "cr" /\ buffered_message[k + 1] = "lf")

ScanInv ==
  /\ FramingTypeOK
  /\ pc = "read" => Room > 0 /\ NoCRLFUpTo(message_end)
  /\ pc = "scan" => NoCRLFUpTo(i)

LEMMA ScanInit == Init => ScanInv
  <1> SUFFICES ASSUME Init PROVE ScanInv
    OBVIOUS
  <1>1. coming \in Seq(Byte)
    BY FramingAssumption DEF Init
  <1>2. buffered_message = <<>> /\ message_end = 0
    BY DEF Init, message_end
  <1> QED
    BY <1>1, <1>2, FramingAssumption
    DEF Init, ScanInv, FramingTypeOK, Room, NoCRLFUpTo

\* The scan's loop invariant is inductive.
LEMMA ScanStep ==
  ASSUME ScanInv, [Next]_framingVars
  PROVE  ScanInv'
  <1> USE DEF message_end
  <1>0. /\ buffered_message \in Seq(Byte) /\ coming \in Seq(Byte)
        /\ message_end \in Nat /\ message_end <= Limit /\ i \in Nat /\ Limit \in Nat
        /\ done \in Seq(Byte) /\ frames \in Seq(Seq(Byte))
    BY FramingAssumption DEF ScanInv, FramingTypeOK
  <1>1. CASE Read
    <2>1. PICK n \in 1 .. Len(coming) :
             /\ n <= Limit - message_end
             /\ buffered_message' = buffered_message \o SubSeq(coming, 1, n)
             /\ done' = done \o SubSeq(coming, 1, n)
             /\ coming' = SubSeq(coming, n + 1, Len(coming))
      BY <1>1 DEF Read, Room
    <2>2. /\ SubSeq(coming, 1, n) \in Seq(Byte) /\ Len(SubSeq(coming, 1, n)) = n
          /\ SubSeq(coming, n + 1, Len(coming)) \in Seq(Byte)
      <3>1. \A k \in 1 .. Len(coming) : coming[k] \in Byte
        BY <1>0, ElementOfSeq
      <3>2. Len(coming) \in Nat /\ n \in Int /\ n >= 1 /\ n <= Len(coming)
        BY <1>0, <2>1
      <3>3. SubSeq(coming, 1, n) \in Seq(Byte) /\ Len(SubSeq(coming, 1, n)) = n
        BY <3>1, <3>2, SubSeqProperties
      <3>4. SubSeq(coming, n + 1, Len(coming)) \in Seq(Byte)
        BY <3>1, <3>2, SubSeqProperties
      <3> QED  BY <3>3, <3>4
    <2> DEFINE segment == SubSeq(coming, 1, n)
    <2> HIDE DEF segment
    <2>3. /\ buffered_message' \in Seq(Byte) /\ Len(buffered_message') = message_end + n
          /\ \A k \in 1 .. message_end : buffered_message'[k] = buffered_message[k]
      <3>1. segment \in Seq(Byte) /\ Len(segment) = n
        BY <2>2 DEF segment
      <3>2. buffered_message' = buffered_message \o segment
        BY <2>1 DEF segment
      <3>3. /\ buffered_message \o segment \in Seq(Byte)
            /\ Len(buffered_message \o segment) = Len(buffered_message) + Len(segment)
            /\ \A k \in 1 .. Len(buffered_message) + Len(segment) :
                 (buffered_message \o segment)[k] =
                   IF k <= Len(buffered_message) THEN buffered_message[k]
                   ELSE segment[k - Len(buffered_message)]
        BY <1>0, <3>1, ConcatProperties
      <3> QED  BY <1>0, <3>1, <3>2, <3>3
    <2>4. done' \in Seq(Byte)
      BY <1>0, <2>1, <2>2, ConcatProperties
    <2>5. FramingTypeOK'
      <3>1. Len(buffered_message') <= Limit
        BY <1>0, <2>1, <2>3
      <3>2. coming' \in Seq(Byte)
        BY <2>1, <2>2
      <3>3. pc' = "scan" /\ i' \in Nat /\ frames' \in Seq(Seq(Byte))
        BY <1>0, <1>1 DEF Read
      <3> QED  BY <2>3, <2>4, <3>1, <3>2, <3>3 DEF FramingTypeOK
    <2>6. NoCRLFUpTo(i)'
      <3>1. i' = message_end /\ NoCRLFUpTo(message_end)
        BY <1>1 DEF Read, ScanInv
      <3>2. \A k \in 1 .. message_end - 1 : k \in 1 .. message_end /\ k + 1 \in 1 .. message_end
        BY <1>0
      <3> QED  BY <1>0, <2>3, <3>1, <3>2 DEF NoCRLFUpTo
    <2> QED  BY <1>1, <2>5, <2>6 DEF Read, ScanInv
  <1>2. CASE Cut
    <2>1. /\ SubSeq(buffered_message, 1, i + 1) \in Seq(Byte)
          /\ buffered_message' \in Seq(Byte)
          /\ Len(buffered_message') <= Limit
      BY <1>0, <1>2 DEF Cut
    <2>2. FramingTypeOK'
      BY <1>0, <1>2, <2>1 DEF Cut, Resume, FramingTypeOK, ScanInv
    <2> QED  BY <1>2, <2>2 DEF Cut, Resume, NoCRLFUpTo, ScanInv
  <1>3. CASE Skip
    <2>1. FramingTypeOK'
      BY <1>0, <1>3 DEF Skip, FramingTypeOK, ScanInv
    <2>2. NoCRLFUpTo(i)'
      BY <1>0, <1>3 DEF Skip, AtCRLF, NoCRLFUpTo, ScanInv
    <2> QED  BY <1>3, <2>1, <2>2 DEF Skip, ScanInv
  <1>4. CASE ScanDone
    <2>1. CASE Full
      BY <1>0, <1>4, <2>1, FramingAssumption
      DEF ScanDone, Full, FramingTypeOK, ScanInv, Room, NoCRLFUpTo
    <2>2. CASE ~Full
      BY <1>0, <1>4, <2>2 DEF ScanDone, Full, FramingTypeOK, ScanInv, Room, NoCRLFUpTo
    <2> QED  BY <2>1, <2>2
  <1>5. CASE UNCHANGED framingVars
    BY <1>5 DEF framingVars, FramingTypeOK, ScanInv, Room, NoCRLFUpTo
  <1> QED
    BY <1>1, <1>2, <1>3, <1>4, <1>5 DEF Next, Waiting

\* A frame is cut at the first CRLF of the buffer.
LEMMA WholeStep ==
  ASSUME ScanInv, FramesWhole, [Next]_framingVars
  PROVE  FramesWhole'
  <1>0. /\ buffered_message \in Seq(Byte) /\ frames \in Seq(Seq(Byte))
        /\ Len(buffered_message) \in Nat /\ Len(buffered_message) <= Limit
        /\ i \in Nat /\ Limit \in Nat
    BY FramingAssumption DEF ScanInv, FramingTypeOK, message_end
  <1>1. CASE Cut
    <2> DEFINE frame == SubSeq(buffered_message, 1, i + 1)
    <2>1. /\ i \in 1 .. Len(buffered_message) - 1
          /\ buffered_message[i] = "cr" /\ buffered_message[i + 1] = "lf"
          /\ frames' = Append(frames, frame)
      BY <1>0, <1>1 DEF Cut, AtCRLF, message_end
    <2>2. \A k \in 1 .. Len(buffered_message) : buffered_message[k] \in Byte
      BY <1>0, ElementOfSeq
    <2>3. /\ frame \in Seq(Byte) /\ Len(frame) = i + 1
          /\ \A k \in 1 .. i + 1 : frame[k] = buffered_message[k]
      <3>1. \A k \in 1 .. i + 1 : buffered_message[k] \in Byte
        BY <1>0, <2>1, <2>2
      <3>2. i + 1 \in Int /\ 1 \in Int /\ 1 <= i + 1
        BY <1>0
      <3> QED  BY <3>1, <3>2, SubSeqProperties
    <2>4. NoCRLFUpTo(i)
      BY <1>1 DEF Cut, ScanInv
    <2>5. \A k \in 1 .. i : (frame[k] = "cr" /\ frame[k + 1] = "lf") <=> k = i
      <3> SUFFICES ASSUME NEW k \in 1 .. i
                   PROVE  (frame[k] = "cr" /\ frame[k + 1] = "lf") <=> k = i
        OBVIOUS
      <3>1. frame[k] = buffered_message[k] /\ frame[k + 1] = buffered_message[k + 1]
        BY <1>0, <2>3
      <3>2. CASE k = i
        BY <2>1, <3>1, <3>2
      <3>3. CASE k # i
        BY <1>0, <2>1, <2>4, <3>1, <3>3 DEF NoCRLFUpTo, message_end
      <3> QED  BY <3>2, <3>3
    <2> HIDE DEF frame
    <2>6. /\ DOMAIN frames' = 1 .. Len(frames) + 1
          /\ frames'[Len(frames) + 1] = frame
          /\ \A n \in 1 .. Len(frames) : frames'[n] = frames[n]
      BY <1>0, <2>1, <2>3
    <2>7. ASSUME NEW n \in DOMAIN frames'
          PROVE  /\ Len(frames'[n]) \in 2 .. Limit
                 /\ \A k \in 1 .. Len(frames'[n]) - 1 :
                      (frames'[n][k] = "cr" /\ frames'[n][k + 1] = "lf") <=> k = Len(frames'[n]) - 1
      <3>1. CASE n = Len(frames) + 1
        BY <1>0, <2>1, <2>3, <2>5, <2>6, <3>1
      <3>2. CASE n \in 1 .. Len(frames)
        <4>1. DOMAIN frames = 1 .. Len(frames)
          BY <1>0
        <4>2. frames'[n] = frames[n]
          BY <2>6, <3>2
        <4>3. /\ Len(frames[n]) \in 2 .. Limit
              /\ \A k \in 1 .. Len(frames[n]) - 1 :
                   (frames[n][k] = "cr" /\ frames[n][k + 1] = "lf") <=> k = Len(frames[n]) - 1
          BY <3>2, <4>1, Zenon DEF FramesWhole
        <4> QED  BY <4>2, <4>3, Zenon
      <3>3. Len(frames) \in Nat
        BY <1>0
      <3>4. n \in 1 .. Len(frames) + 1
        BY <2>6, <2>7, Zenon
      <3> QED  BY <3>1, <3>2, <3>3, <3>4
    <2> QED  BY <2>7, Zenon DEF FramesWhole
  <1>2. CASE ~Cut
    <2>1. UNCHANGED frames
      BY <1>2 DEF Next, Read, Skip, ScanDone, Waiting, framingVars
    <2> QED  BY <2>1 DEF FramesWhole
  <1> QED  BY <1>1, <1>2

\* HandleMessage never asks read() for zero bytes, which it would take for the
\* end of the connection, and never goes back to read() over a whole frame.
THEOREM FramingCorrect ==
  Spec => [](FramingTypeOK /\ ReadAsksForBytes /\ NothingLeftBehind)
  <1>1. Init => ScanInv
    BY ScanInit
  <1>2. ScanInv /\ [Next]_framingVars => ScanInv'
    BY ScanStep
  <1>3. ScanInv => FramingTypeOK /\ ReadAsksForBytes /\ NothingLeftBehind
    BY FramingAssumption
    DEF ScanInv, FramingTypeOK, ReadAsksForBytes, NothingLeftBehind, NoCRLFUpTo, message_end
  <1> QED  BY <1>1, <1>2, <1>3, PTL DEF Spec

\* CommandParser is given one whole message at a time, for every buffer size,
\* every stream and every way in which read() cuts it up.
THEOREM FramesAreWhole == Spec => []FramesWhole
  <1>1. Init => FramesWhole
    BY DEF Init, FramesWhole
  <1>2. ScanInv /\ FramesWhole /\ [Next]_framingVars => FramesWhole'
    BY WholeStep
  <1>3. Spec => []ScanInv
    BY ScanInit, ScanStep, PTL DEF Spec
  <1> QED  BY <1>1, <1>2, <1>3, PTL DEF Spec

-----------------------------------------------------------------------------
(***************************************************************************)
(* The messages of a stream, and which of them are lost.                   *)
(***************************************************************************)
LEMMA EndsFact ==
  ASSUME NEW s \in Seq(Byte)
  PROVE  /\ Ends(s) \subseteq 2 .. Len(s) /\ Ends(s) \subseteq Nat
         /\ IsFiniteSet(Ends(s))
         /\ \A k \in Ends(s) : k + 1 \notin Ends(s)
  <1>1. Len(s) \in Nat
    OBVIOUS
  <1>2. Ends(s) \subseteq 2 .. Len(s)
    BY DEF Ends
  <1>3. IsFiniteSet(2 .. Len(s))
    BY <1>1, FS_Interval
  <1>4. IsFiniteSet(Ends(s))
    BY <1>2, <1>3, FS_Subset
  <1>5. ASSUME NEW k \in Ends(s), k + 1 \in Ends(s) PROVE FALSE
    <2>1. s[k] = "lf" /\ s[(k + 1) - 1] = "cr" /\ (k + 1) - 1 = k
      BY <1>1, <1>2, <1>5 DEF Ends
    <2> QED  BY <2>1
  <1>6. Ends(s) \subseteq Nat
    BY <1>1, <1>2
  <1> QED  BY <1>2, <1>4, <1>5, <1>6

\* Before finds the last end, if there is one.
LEMMA BeforeFact ==
  ASSUME NEW s \in Seq(Byte), NEW k \in Nat
  PROVE  /\ Before(s, k) \in Nat
         /\ Before(s, k) = 0 \/ (Before(s, k) \in Ends(s) /\ Before(s, k) < k)
         /\ \A f \in Ends(s) : f < k => f <= Before(s, k)
         /\ k > 0 => Before(s, k) < k
  <1> DEFINE earlier == {e \in Ends(s) : e < k}
             IsLast(e) == \A f \in earlier : f <= e
  <1>0. Ends(s) \subseteq Nat
    BY EndsFact
  <1>1. CASE earlier = {}
    <2>1. Before(s, k) = 0
      BY <1>1 DEF Before
    <2> QED  BY <1>1, <2>1
  <1>2. CASE earlier # {}
    <2> DEFINE T == {k - e : e \in earlier}
    <2>1. T \subseteq Nat /\ T # {}
      BY <1>0, <1>2
    <2>2. PICK t \in T : \A u \in T : t <= u
      <3> HIDE DEF T
      <3> QED  BY <2>1, LeastNumber
    <2>3. PICK x \in earlier : t = k - x
      BY <2>2
    <2>4. ASSUME NEW f \in earlier PROVE f <= x
      <3>1. k - x <= k - f
        BY <2>2, <2>3
      <3>2. x \in Nat /\ f \in Nat
        BY <1>0
      <3> QED  BY <3>1, <3>2
    <2> HIDE DEF earlier
    <2>5. x \in earlier /\ IsLast(x)
      BY <2>4
    <2> HIDE DEF IsLast
    <2>6. (CHOOSE e \in earlier : IsLast(e)) \in earlier /\ IsLast(CHOOSE e \in earlier : IsLast(e))
      BY <2>5
    <2> USE DEF IsLast
    <2>7. Before(s, k) = CHOOSE e \in earlier : IsLast(e)
      BY <1>2 DEF Before, earlier
    <2> HIDE DEF IsLast
    <2>8. Before(s, k) \in earlier /\ IsLast(Before(s, k))
      BY <2>6, <2>7
    <2> USE DEF earlier, IsLast
    <2>9. Before(s, k) \in Ends(s) /\ Before(s, k) < k /\ \A f \in Ends(s) : f < k => f <= Before(s, k)
      BY <2>8
    <2> QED  BY <1>0, <2>9
  <1> QED  BY <1>1, <1>2

\* Up to which end there is nothing new, the last end is the same.
LEMMA BeforeSame ==
  ASSUME NEW s \in Seq(Byte), NEW c \in Nat, NEW d \in Nat, c <= d,
         \A e \in Ends(s) : e < d => e < c
  PROVE  Before(s, d) = Before(s, c)
  <1>1. {e \in Ends(s) : e < d} = {e \in Ends(s) : e < c}
    BY EndsFact
  <1> DEFINE last(S) == IF S = {} THEN 0 ELSE CHOOSE e \in S : \A f \in S : f <= e
  <1>2. \A k : Before(s, k) = last({e \in Ends(s) : e < k})
    BY DEF Before
  <1> HIDE DEF last
  <1> QED  BY <1>1, <1>2

\* The definition of LoneLF, which refers to an earlier message, has a meaning.
LEMMA LoneFact ==
  ASSUME NEW s \in Seq(Byte), NEW k \in 0 .. Len(s)
  PROVE  LoneLF(s)[k] <=>
           /\ k \in Ends(s)
           /\ Remains(k - Before(s, k) + (IF LoneLF(s)[Before(s, k)] THEN 1 ELSE 0)) = 1
  <1> DEFINE Body(f, n) ==
               IF n \notin Ends(s) THEN FALSE
               ELSE Remains(n - Before(s, n) + (IF f[Before(s, n)] THEN 1 ELSE 0)) = 1
             D == {m \in Nat : \E f : f = [n \in 0 .. m |-> Body(f, n)]}
             lone == CHOOSE f : f = [n \in 0 .. Len(s) |-> Body(f, n)]
  <1>1. 0 \notin Ends(s) /\ Len(s) \in Nat
    BY EndsFact
  <1>2. 0 \in D
    <2> DEFINE f == [n \in 0 .. 0 |-> FALSE]
    <2>1. \A n \in 0 .. 0 : Body(f, n) = FALSE
      BY <1>1
    <2>2. f = [n \in 0 .. 0 |-> Body(f, n)]
      BY <2>1
    <2> QED  BY <2>2
  <1>3. ASSUME NEW m \in Nat, m \in D PROVE m + 1 \in D
    <2>1. PICK f : f = [n \in 0 .. m |-> Body(f, n)]
      BY <1>3
    <2> DEFINE g == [n \in 0 .. m + 1 |-> IF n = m + 1 THEN Body(f, m + 1) ELSE f[n]]
    <2>0. ASSUME NEW n \in 0 .. m PROVE g[n] = f[n]
      <3>1. n \in 0 .. m + 1 /\ n # m + 1
        OBVIOUS
      <3> HIDE DEF Body
      <3> QED  BY <3>1
    <2>2. ASSUME NEW n \in 0 .. m + 1 PROVE Body(g, n) = Body(f, n)
      <3>1. CASE n \notin Ends(s)
        BY <3>1
      <3>2. CASE n \in Ends(s)
        <4>1. n > 0 /\ n \in Nat
          BY <3>2, EndsFact
        <4>2. Before(s, n) \in 0 .. m
          <5>1. Before(s, n) \in Nat /\ Before(s, n) < n
            BY <4>1, BeforeFact
          <5> QED  BY <5>1
        <4>3. g[Before(s, n)] = f[Before(s, n)]
          <5> HIDE DEF g
          <5> QED  BY <2>0, <4>2
        <4> HIDE DEF g
        <4> QED  BY <4>3
      <3> QED  BY <3>1, <3>2
    <2> HIDE DEF Body
    <2>3. ASSUME NEW n \in 0 .. m + 1 PROVE g[n] = Body(g, n)
      <3>1. CASE n = m + 1
        <4>1. g[n] = Body(f, n)
          BY <3>1
        <4> QED  BY <2>2, <4>1
      <3>2. CASE n # m + 1
        <4>1. n \in 0 .. m /\ g[n] = f[n]
          BY <3>2
        <4>2. f[n] = Body(f, n)
          BY <2>1, <4>1
        <4> QED  BY <2>2, <4>1, <4>2
      <3> QED  BY <3>1, <3>2
    <2>4. g = [n \in 0 .. m + 1 |-> Body(g, n)]
      <3>1. g = [n \in 0 .. m + 1 |-> g[n]]
        OBVIOUS
      <3> HIDE DEF g
      <3> QED  BY <2>3, <3>1
    <2> HIDE DEF g
    <2>5. m + 1 \in Nat
      OBVIOUS
    <2> QED  BY <2>4, <2>5
  <1>4. Len(s) \in D
    <2> HIDE DEF D
    <2> QED  BY <1>1, <1>2, <1>3, SetInduction
  <1>5. lone = [n \in 0 .. Len(s) |-> Body(lone, n)]
    <2>1. PICK f : f = [n \in 0 .. Len(s) |-> Body(f, n)]
      BY <1>4
    <2> HIDE DEF Body
    <2> QED  BY <2>1
  <1>6. LoneLF(s) = lone
    BY DEF LoneLF, lone
  <1> HIDE DEF lone, Body
  <1>7. LoneLF(s)[k] = Body(LoneLF(s), k)
    BY <1>5, <1>6
  <1>8. CASE k \notin Ends(s)
    BY <1>7, <1>8 DEF Body
  <1>9. CASE k \in Ends(s)
    BY <1>7, <1>9 DEF Body
  <1> QED  BY <1>8, <1>9

LEMMA RemainsFact ==
  /\ \A m \in Nat, r \in 1 .. Limit : Remains(Limit * m + r) = r
  /\ \A n \in Nat \ {0} : Remains(n) \in 1 .. n
  <1>1. Limit \in Nat \ {0}
    BY FramingAssumption
  <1>2. ASSUME NEW m \in Nat, NEW r \in 1 .. Limit PROVE Remains(Limit * m + r) = r
    <2> DEFINE a == (Limit * m + r) - 1
               q == r - 1
    <2>1. a = Limit * m + q /\ q \in 0 .. Limit - 1
      BY <1>1
    <2> HIDE DEF a, q
    <2>2. a % Limit = q
      BY <1>1, <2>1, DivModUnique, Zenon
    <2>3. q + 1 = r
      BY <1>1 DEF q
    <2>4. Remains(Limit * m + r) = (a % Limit) + 1
      BY DEF Remains, a
    <2> QED  BY <2>2, <2>3, <2>4
  <1>3. ASSUME NEW n \in Nat \ {0} PROVE Remains(n) \in 1 .. n
    <2> DEFINE a == n - 1
               p == Limit * (a \div Limit)
               r == a % Limit
    <2>1. a \in Nat
      OBVIOUS
    <2>2. Remains(n) = r + 1
      BY DEF Remains
    <2> HIDE DEF a
    <2>3. a = p + r /\ r \in 0 .. Limit - 1 /\ p \in Nat
      BY <1>1, <2>1, DivMod, Zenon
    <2> HIDE DEF p, r
    <2>4. a + 1 = n
      BY DEF a
    <2> QED  BY <1>1, <2>1, <2>2, <2>3, <2>4
  <1> QED  BY <1>2, <1>3

\* Where a message starts, with the lone LF in front of it if there is one.
First(s, k) == IF LoneLF(s)[Before(s, k)] THEN Before(s, k) - 1 ELSE Before(s, k)

LEMMA FirstFact ==
  ASSUME NEW s \in Seq(Byte), NEW k \in 1 .. Len(s) + 1
  PROVE  /\ First(s, k) \in Nat /\ First(s, k) < k
         /\ Before(s, k) \in 0 .. Len(s)
         /\ FrameAt(s, k) = SubSeq(s, k - Remains(k - First(s, k)) + 1, k)
         /\ k \in Ends(s) => (LoneLF(s)[k] <=> Remains(k - First(s, k)) = 1)
         /\ k \in Ends(s) => k \in Nat /\ k <= Len(s)
  <1> DEFINE b == Before(s, k)
             lone == LoneLF(s)[b]
  <1>1. k \in Nat /\ k > 0 /\ Len(s) \in Nat
    OBVIOUS
  <1>2. b \in Nat /\ b < k
    BY <1>1, BeforeFact
  <1>3. b \in 0 .. Len(s)
    BY <1>1, <1>2
  <1>4. lone => b >= 2
    <2>1. lone => b \in Ends(s)
      BY <1>3, LoneFact
    <2> QED  BY <1>2, <2>1, EndsFact
  <1>5. First(s, k) = IF lone THEN b - 1 ELSE b
    BY DEF First
  <1>6. FrameAt(s, k) = SubSeq(s, k - Remains(k - First(s, k)) + 1, k)
    BY DEF FrameAt, First
  <1>7. k \in Ends(s) => k <= Len(s)
    BY EndsFact
  <1>8. ASSUME k \in Ends(s) PROVE LoneLF(s)[k] <=> Remains(k - First(s, k)) = 1
    <2>1. k \in 0 .. Len(s)
      BY <1>1, <1>7, <1>8
    <2>2. LoneLF(s)[k] <=> Remains(k - b + (IF lone THEN 1 ELSE 0)) = 1
      BY <1>8, <2>1, LoneFact
    <2>3. k - b + (IF lone THEN 1 ELSE 0) = k - First(s, k)
      <3> HIDE DEF b, lone
      <3> QED  BY <1>1, <1>2, <1>5
    <2> QED  BY <2>2, <2>3
  <1>9. First(s, k) \in Nat /\ First(s, k) < k
    <2> HIDE DEF b, lone
    <2> QED  BY <1>1, <1>2, <1>4, <1>5
  <1> QED  BY <1>1, <1>3, <1>6, <1>7, <1>8, <1>9

(***************************************************************************)
(* What is said of the messages of a stream does not depend on what comes  *)
(* behind them.                                                            *)
(***************************************************************************)
LEMMA PrefixFact ==
  ASSUME NEW s \in Seq(Byte), NEW t \in Seq(Byte), Len(t) <= Len(s),
         \A k \in 1 .. Len(t) : t[k] = s[k]
  PROVE  /\ FrameEnds(t) = {k \in FrameEnds(s) : k <= Len(t)}
         /\ \A k \in FrameEnds(t) : FrameAt(t, k) = FrameAt(s, k)
  <1>1. Len(s) \in Nat /\ Len(t) \in Nat
    OBVIOUS
  <1>2. ASSUME NEW k \in 0 .. Len(t) PROVE k \in Ends(t) <=> k \in Ends(s)
    <2>1. k \in 2 .. Len(t) => k \in 2 .. Len(s) /\ t[k] = s[k] /\ t[k - 1] = s[k - 1]
      BY <1>1
    <2>2. k \in 2 .. Len(s) => k \in 2 .. Len(t)
      BY <1>1
    <2> QED  BY <2>1, <2>2 DEF Ends
  <1>3. ASSUME NEW k \in 0 .. Len(t) PROVE Before(t, k) = Before(s, k)
    <2>1. ASSUME NEW e, e < k PROVE e \in Ends(t) <=> e \in Ends(s)
      <3>1. e \in Ends(t) \/ e \in Ends(s) => e \in 0 .. Len(t)
        BY <1>1, <2>1, EndsFact
      <3> QED  BY <1>2, <3>1
    <2>2. {e \in Ends(t) : e < k} = {e \in Ends(s) : e < k}
      BY <2>1
    <2> DEFINE last(S) == IF S = {} THEN 0 ELSE CHOOSE e \in S : \A f \in S : f <= e
    <2>3. \A u : Before(u, k) = last({e \in Ends(u) : e < k})
      BY DEF Before
    <2> HIDE DEF last
    <2> QED  BY <2>2, <2>3
  <1>4. ASSUME NEW k \in 0 .. Len(t) PROVE LoneLF(t)[k] <=> LoneLF(s)[k]
    <2> DEFINE D == {m \in 0 .. Len(t) : \A n \in 0 .. m : LoneLF(t)[n] <=> LoneLF(s)[n]}
    <2>1. ASSUME NEW m \in 0 .. Len(t),
                 \A n \in 0 .. m : n # m => (LoneLF(t)[n] <=> LoneLF(s)[n])
          PROVE  LoneLF(t)[m] <=> LoneLF(s)[m]
      <3>1. m \in 0 .. Len(s) /\ m \in Nat
        BY <1>1
      <3>2. m \in Ends(t) <=> m \in Ends(s)
        BY <1>2
      <3>3. CASE m \notin Ends(t)
        BY <3>1, <3>2, <3>3, LoneFact
      <3>4. CASE m \in Ends(t)
        <4> DEFINE b == Before(t, m)
        <4>1. m > 0
          BY <3>4, EndsFact
        <4>2. b \in 0 .. m /\ b # m
          <5>1. b \in Nat /\ b < m
            BY <3>1, <4>1, BeforeFact
          <5> QED  BY <5>1
        <4>3. b = Before(s, m)
          BY <1>3
        <4>4. LoneLF(t)[b] <=> LoneLF(s)[b]
          <5> HIDE DEF b
          <5> QED  BY <2>1, <4>2
        <4>5. (LoneLF(t)[m] <=> Remains(m - b + (IF LoneLF(t)[b] THEN 1 ELSE 0)) = 1)
          BY <3>4, LoneFact
        <4>6. (LoneLF(s)[m] <=> Remains(m - b + (IF LoneLF(s)[b] THEN 1 ELSE 0)) = 1)
          BY <3>1, <3>2, <3>4, <4>3, LoneFact
        <4> HIDE DEF b
        <4>7. (IF LoneLF(t)[b] THEN 1 ELSE 0) = (IF LoneLF(s)[b] THEN 1 ELSE 0)
          BY <4>4
        <4> QED  BY <4>5, <4>6, <4>7
      <3> QED  BY <3>3, <3>4
    <2>2. 0 \in D
      <3>1. 0 \in 0 .. Len(t) /\ \A n \in 0 .. 0 : n = 0
        BY <1>1
      <3> QED  BY <2>1, <3>1
    <2>3. ASSUME NEW m \in 1 .. Len(t), m - 1 \in D PROVE m \in D
      <3>1. m \in 0 .. Len(t) /\ \A n \in 0 .. m : n # m => n \in 0 .. m - 1
        BY <1>1
      <3>2. \A n \in 0 .. m : n # m => (LoneLF(t)[n] <=> LoneLF(s)[n])
        BY <2>3, <3>1
      <3> QED  BY <2>1, <3>1, <3>2
    <2> HIDE DEF D
    <2>4. k \in D
      BY <1>1, <2>2, <2>3, BoundedInduction
    <2> USE DEF D
    <2>5. k \in 0 .. k
      OBVIOUS
    <2> QED  BY <2>4, <2>5
  <1>5. FrameEnds(t) = {k \in FrameEnds(s) : k <= Len(t)}
    <2>1. ASSUME NEW k PROVE k \in FrameEnds(t) <=> k \in FrameEnds(s) /\ k <= Len(t)
      <3>1. k \in Ends(t) \/ (k \in Ends(s) /\ k <= Len(t)) => k \in 0 .. Len(t)
        BY <1>1, EndsFact
      <3> QED  BY <1>2, <1>4, <3>1 DEF FrameEnds
    <2> QED  BY <2>1
  <1>6. ASSUME NEW k \in FrameEnds(t) PROVE FrameAt(t, k) = FrameAt(s, k)
    <2> DEFINE n == k - First(t, k)
               m == k - Remains(n) + 1
    <2>1. k \in Ends(t) /\ k \in 1 .. Len(t) /\ k \in 1 .. Len(t) + 1 /\ k \in 1 .. Len(s) + 1
      <3>1. k \in Ends(t)
        BY DEF FrameEnds
      <3> QED  BY <1>1, <3>1, EndsFact
    <2>2. First(t, k) = First(s, k)
      <3>1. Before(t, k) = Before(s, k) /\ Before(t, k) \in 0 .. Len(t)
        BY <1>3, <2>1, FirstFact
      <3> QED  BY <1>4, <3>1 DEF First
    <2>3. FrameAt(t, k) = SubSeq(t, m, k) /\ FrameAt(s, k) = SubSeq(s, m, k)
      BY <2>1, <2>2, FirstFact
    <2>4. First(t, k) \in Nat /\ First(t, k) < k
      BY <2>1, FirstFact
    <2>5. n \in Nat \ {0} /\ n <= k
      BY <2>1, <2>4
    <2> HIDE DEF n
    <2>6. Remains(n) \in 1 .. n
      BY <2>5, RemainsFact
    <2>7. m \in 1 .. k
      BY <2>1, <2>5, <2>6
    <2> HIDE DEF m
    <2>8. SubSeq(t, m, k) = SubSeq(s, m, k)
      BY <1>1, <2>1, <2>7
    <2> QED  BY <2>3, <2>8
  <1> QED  BY <1>5, <1>6

-----------------------------------------------------------------------------
(***************************************************************************)
(* How far a stream has been cut up: the buffer starts behind byte b, what *)
(* ends at byte c or before it has been looked at, and fr are the frames.  *)
(***************************************************************************)
Count(s, c) == Cardinality({e \in FrameEnds(s) : e <= c})

KeptAt(s, b, c, fr) ==
  /\ \E m \in Nat : b = First(s, c + 1) + Limit * m
  /\ Len(fr) = Count(s, c)
  /\ \A k \in FrameEnds(s) : k <= c => fr[Count(s, k)] = FrameAt(s, k)

LEMMA CountFact ==
  ASSUME NEW s \in Seq(Byte), NEW c \in Nat
  PROVE  /\ Count(s, c) \in Nat
         /\ c + 1 \in FrameEnds(s) => Count(s, c + 1) = Count(s, c) + 1
         /\ \A k \in FrameEnds(s) : k <= c => Count(s, k) \in 1 .. Count(s, c)
  <1> DEFINE upto(d) == {e \in FrameEnds(s) : e <= d}
  <1>1. FrameEnds(s) \subseteq Nat /\ IsFiniteSet(FrameEnds(s))
    <2>1. FrameEnds(s) \subseteq Ends(s)
      BY DEF FrameEnds
    <2> QED  BY <2>1, EndsFact, FS_Subset
  <1>2. ASSUME NEW d PROVE IsFiniteSet(upto(d)) /\ Count(s, d) = Cardinality(upto(d)) /\ Count(s, d) \in Nat
    <2>1. upto(d) \subseteq FrameEnds(s)
      OBVIOUS
    <2>2. IsFiniteSet(upto(d))
      <3> HIDE DEF upto
      <3> QED  BY <1>1, <2>1, FS_Subset
    <2>3. Count(s, d) = Cardinality(upto(d))
      BY DEF Count
    <2> HIDE DEF upto
    <2> QED  BY <2>2, <2>3, FS_CardinalityType
  <1>3. ASSUME c + 1 \in FrameEnds(s) PROVE Count(s, c + 1) = Count(s, c) + 1
    <2>1. upto(c + 1) = upto(c) \cup {c + 1} /\ c + 1 \notin upto(c)
      BY <1>1, <1>3
    <2> HIDE DEF upto
    <2>2. Cardinality(upto(c) \cup {c + 1}) = Cardinality(upto(c)) + 1
      BY <1>2, <2>1, FS_AddElement
    <2> QED  BY <1>2, <2>1, <2>2
  <1>4. ASSUME NEW k \in FrameEnds(s), k <= c PROVE Count(s, k) \in 1 .. Count(s, c)
    <2>1. upto(k) \subseteq upto(c) /\ k \in upto(k)
      BY <1>1, <1>4
    <2> HIDE DEF upto
    <2>2. Cardinality(upto(k)) <= Cardinality(upto(c))
      BY <1>2, <2>1, FS_Subset
    <2>3. Cardinality(upto(k)) # 0
      BY <1>2, <2>1, FS_EmptySet
    <2> QED  BY <1>2, <2>2, <2>3
  <1> QED  BY <1>2, <1>3, <1>4

\* Bytes that end no message change nothing.
LEMMA KeptSame ==
  ASSUME NEW s \in Seq(Byte), NEW b, NEW c \in Nat, NEW d \in Nat, NEW fr, c <= d,
         KeptAt(s, b, c, fr), \A e \in Ends(s) : e <= d => e <= c
  PROVE  KeptAt(s, b, d, fr)
  <1>1. First(s, d + 1) = First(s, c + 1)
    <2>1. \A e \in Ends(s) : e < d + 1 => e < c + 1
      BY EndsFact
    <2>2. Before(s, d + 1) = Before(s, c + 1)
      <3>1. c + 1 \in Nat /\ d + 1 \in Nat /\ c + 1 <= d + 1
        OBVIOUS
      <3> QED  BY <2>1, <3>1, BeforeSame
    <2> QED  BY <2>2 DEF First
  <1>2. \A k \in FrameEnds(s) : k <= d <=> k <= c
    BY EndsFact DEF FrameEnds
  <1>3. Count(s, d) = Count(s, c)
    <2>1. {e \in FrameEnds(s) : e <= d} = {e \in FrameEnds(s) : e <= c}
      BY <1>2
    <2> QED  BY <2>1 DEF Count
  <1> QED  BY <1>1, <1>2, <1>3 DEF KeptAt

\* A full buffer is thrown away.
LEMMA KeptBlock ==
  ASSUME NEW s \in Seq(Byte), NEW b, NEW c \in 0 .. Len(s), NEW fr, KeptAt(s, b, c, fr)
  PROVE  KeptAt(s, b + Limit, c, fr)
  <1>1. PICK m \in Nat : b = First(s, c + 1) + Limit * m
    BY DEF KeptAt
  <1>2. c + 1 \in 1 .. Len(s) + 1
    OBVIOUS
  <1>3. First(s, c + 1) \in Nat /\ Limit \in Nat
    BY <1>2, FirstFact, FramingAssumption
  <1>4. b + Limit = First(s, c + 1) + Limit * (m + 1) /\ m + 1 \in Nat
    BY <1>1, <1>3
  <1> QED  BY <1>4 DEF KeptAt

\* The LF that is left of a message is no frame: it starts the next one.
LEMMA KeptLone ==
  ASSUME NEW s \in Seq(Byte), NEW b \in Nat, NEW fr, KeptAt(s, b, b, fr), b + 1 \in Ends(s)
  PROVE  KeptAt(s, b, b + 1, fr)
  <1> DEFINE first == First(s, b + 1)
  <1>1. b + 1 \in 1 .. Len(s) + 1 /\ Len(s) \in Nat /\ b + 1 \in 0 .. Len(s)
    BY EndsFact
  <1>2. PICK m \in Nat : b = first + Limit * m
    BY DEF KeptAt
  <1>3. first \in Nat /\ first < b + 1 /\ Limit \in Nat \ {0}
    BY <1>1, FirstFact, FramingAssumption
  <1>4. b + 1 - first = Limit * m + 1
    <2> HIDE DEF first
    <2>1. Limit * m \in Nat
      BY <1>3
    <2> QED  BY <1>2, <1>3, <2>1
  <1>5. Remains(b + 1 - first) = 1
    <2>1. 1 \in 1 .. Limit
      BY <1>3
    <2> QED  BY <1>4, <2>1, RemainsFact
  <1>6. LoneLF(s)[b + 1]
    BY <1>1, <1>5, FirstFact
  <1>7. Before(s, b + 2) = b + 1
    <2>1. b + 2 \in Nat /\ b + 1 < b + 2 /\ b + 2 > 0
      OBVIOUS
    <2>2. b + 1 <= Before(s, b + 2) /\ Before(s, b + 2) < b + 2 /\ Before(s, b + 2) \in Nat
      BY <2>1, BeforeFact
    <2> QED  BY <2>2
  <1>8. First(s, (b + 1) + 1) = b
    <2>1. (b + 1) + 1 = b + 2 /\ (b + 1) - 1 = b
      OBVIOUS
    <2> QED  BY <1>6, <1>7, <2>1 DEF First
  <1>9. b = First(s, (b + 1) + 1) + Limit * 0
    BY <1>3, <1>8
  <1>10. \A k \in FrameEnds(s) : k <= b + 1 <=> k <= b
    <2>1. b + 1 \notin FrameEnds(s)
      BY <1>6 DEF FrameEnds
    <2>2. FrameEnds(s) \subseteq Nat
      BY EndsFact DEF FrameEnds
    <2> QED  BY <2>1, <2>2
  <1>11. Count(s, b + 1) = Count(s, b)
    <2>1. {e \in FrameEnds(s) : e <= b + 1} = {e \in FrameEnds(s) : e <= b}
      BY <1>10
    <2> QED  BY <2>1 DEF Count
  <1> QED  BY <1>9, <1>10, <1>11 DEF KeptAt

\* A frame is cut: what is left of its message is all that is in the buffer.
LEMMA KeptCut ==
  ASSUME NEW s \in Seq(Byte), NEW b \in Nat, NEW j \in 1 .. Limit - 1, NEW fr \in Seq(Seq(Byte)),
         KeptAt(s, b, b + j, fr), b + j + 1 \in Ends(s)
  PROVE  KeptAt(s, b + j + 1, b + j + 1, Append(fr, SubSeq(s, b + 1, b + j + 1)))
  <1> DEFINE x == b + j + 1
             first == First(s, x)
             frame == SubSeq(s, b + 1, x)
  <1>0. Limit \in Nat \ {0} /\ j \in Nat /\ b + j \in Nat
    BY FramingAssumption
  <1>1. x \in 1 .. Len(s) + 1 /\ Len(s) \in Nat /\ x \in 0 .. Len(s) /\ x \in Nat
    BY <1>0, EndsFact
  <1>2. PICK m \in Nat : b = first + Limit * m
    BY <1>0 DEF KeptAt
  <1>3. first \in Nat /\ first < x
    BY <1>1, FirstFact
  <1>4. x - first = Limit * m + (j + 1)
    <2> HIDE DEF first
    <2>1. Limit * m \in Nat
      BY <1>0
    <2> QED  BY <1>0, <1>2, <1>3, <2>1
  <1>5. Remains(x - first) = j + 1
    <2>1. j + 1 \in 1 .. Limit
      BY <1>0
    <2> HIDE DEF x, first
    <2> QED  BY <1>4, <2>1, RemainsFact
  <1>6. ~LoneLF(s)[x] /\ x \in FrameEnds(s)
    <2>1. j + 1 # 1
      BY <1>0
    <2>2. ~LoneLF(s)[x]
      BY <1>1, <1>5, <2>1, FirstFact
    <2> QED  BY <2>2 DEF FrameEnds
  <1>7. FrameAt(s, x) = frame
    <2>1. FrameAt(s, x) = SubSeq(s, x - (j + 1) + 1, x)
      BY <1>1, <1>5, FirstFact
    <2>2. x - (j + 1) + 1 = b + 1
      BY <1>0
    <2> QED  BY <2>1, <2>2
  <1>8. Before(s, x + 1) = x
    <2>1. x + 1 \in Nat /\ x < x + 1 /\ x + 1 > 0
      BY <1>1
    <2>2. x <= Before(s, x + 1) /\ Before(s, x + 1) < x + 1 /\ Before(s, x + 1) \in Nat
      BY <2>1, BeforeFact
    <2> DEFINE last == Before(s, x + 1)
    <2> HIDE DEF x, last
    <2>3. last = x
      BY <1>1, <2>2 DEF last
    <2> QED  BY <2>3 DEF last
  <1>9. x = First(s, x + 1) + Limit * 0
    <2>1. First(s, x + 1) = x
      BY <1>6, <1>8 DEF First
    <2> QED  BY <1>0, <1>1, <2>1
  <1>10. Count(s, b + j) \in Nat /\ Count(s, x) = Count(s, b + j) + 1 /\ Len(fr) = Count(s, b + j)
    BY <1>0, <1>6, CountFact DEF KeptAt
  <1>11. Len(Append(fr, frame)) = Count(s, x)
    <2> HIDE DEF frame, x
    <2> QED  BY <1>10
  <1>12. ASSUME NEW k \in FrameEnds(s), k <= x
         PROVE  Append(fr, frame)[Count(s, k)] = FrameAt(s, k)
    <2>1. CASE k = x
      <3> HIDE DEF frame, x
      <3> QED  BY <1>7, <1>10, <2>1
    <2>2. CASE k # x
      <3>1. k \in Nat
        BY EndsFact DEF FrameEnds
      <3>2. k <= b + j
        BY <1>0, <1>12, <2>2, <3>1
      <3>3. Count(s, k) \in 1 .. Count(s, b + j) /\ fr[Count(s, k)] = FrameAt(s, k)
        BY <1>0, <3>2, CountFact DEF KeptAt
      <3> HIDE DEF frame
      <3> QED  BY <1>10, <3>3
    <2> QED  BY <2>1, <2>2
  <1> QED  BY <1>9, <1>11, <1>12 DEF KeptAt

-----------------------------------------------------------------------------
(***************************************************************************)
(* The invariant: the buffer is what is left of the stream behind base,    *)
(* and the frames are those of what has been looked at.                    *)
(***************************************************************************)
whole == done \o coming
base  == Len(done) - message_end
Seen  == IF pc = "read" \/ i > message_end THEN Len(done) ELSE base + i

ExactInv ==
  /\ base \in Nat
  /\ \A k \in 1 .. message_end : buffered_message[k] = whole[base + k]
  /\ KeptAt(whole, base, Seen, frames)

LEMMA ExactInit == Init => ExactInv
  <1> SUFFICES ASSUME Init PROVE ExactInv
    OBVIOUS
  <1>1. /\ coming \in Seq(Byte) /\ done = <<>> /\ message_end = 0 /\ pc = "read" /\ frames = <<>>
        /\ Limit \in Nat
    BY FramingAssumption DEF Init, message_end
  <1>2. whole = coming /\ base = 0 /\ Seen = 0
    <2>1. Len(done) = 0
      BY <1>1
    <2>2. <<>> \o coming = coming
      BY <1>1
    <2> QED  BY <1>1, <2>1, <2>2 DEF whole, base, Seen
  <1>3. \A k \in Ends(coming) : k \in Nat /\ k >= 2
    BY <1>1, EndsFact
  <1>4. Before(coming, 1) = 0
    <2>1. \/ Before(coming, 1) = 0
          \/ Before(coming, 1) \in Ends(coming) /\ Before(coming, 1) < 1
      BY <1>1, BeforeFact
    <2> QED  BY <1>3, <2>1
  <1>5. First(coming, 0 + 1) = 0
    <2>1. 0 \in 0 .. Len(coming) /\ 0 \notin Ends(coming)
      BY <1>1, <1>3
    <2>2. ~LoneLF(coming)[0]
      BY <1>1, <2>1, LoneFact
    <2> QED  BY <1>4, <2>2 DEF First
  <1>6. 0 = First(coming, 0 + 1) + Limit * 0
    BY <1>1, <1>5
  <1>7. \A k \in FrameEnds(coming) : ~(k <= 0)
    BY <1>3 DEF FrameEnds
  <1>8. Count(coming, 0) = 0
    <2>1. {e \in FrameEnds(coming) : e <= 0} = {}
      BY <1>7
    <2> QED  BY <2>1, FS_EmptySet DEF Count
  <1>9. Len(frames) = 0
    BY <1>1
  <1>10. KeptAt(coming, 0, 0, frames)
    BY <1>6, <1>7, <1>8, <1>9 DEF KeptAt
  <1> QED  BY <1>1, <1>2, <1>10 DEF ExactInv

LEMMA ExactStep ==
  ASSUME ScanInv, ExactInv, [Next]_framingVars
  PROVE  ExactInv'
  <1>0. /\ buffered_message \in Seq(Byte) /\ coming \in Seq(Byte) /\ done \in Seq(Byte)
        /\ message_end \in Nat /\ message_end <= Limit /\ i \in Nat
        /\ Limit \in Nat /\ Limit >= 2 /\ frames \in Seq(Seq(Byte))
        /\ pc \in {"read", "scan"} /\ Len(coming) \in Nat /\ Len(done) \in Nat
    BY FramingAssumption DEF ScanInv, FramingTypeOK, message_end
  <1>1. /\ whole \in Seq(Byte) /\ Len(whole) = Len(done) + Len(coming)
        /\ \A k \in 1 .. Len(coming) : whole[Len(done) + k] = coming[k]
    BY <1>0 DEF whole
  <1>2. /\ base \in Nat /\ base + message_end = Len(done) /\ KeptAt(whole, base, Seen, frames)
        /\ \A k \in 1 .. message_end : buffered_message[k] = whole[base + k]
    BY <1>0 DEF base, ExactInv
  <1>3. UNCHANGED <<done, coming>> => whole' = whole
    BY DEF whole
  <1>4. CASE Read
    <2>1. PICK n \in 1 .. Len(coming) :
             /\ buffered_message' = buffered_message \o SubSeq(coming, 1, n)
             /\ done' = done \o SubSeq(coming, 1, n)
             /\ coming' = SubSeq(coming, n + 1, Len(coming))
             /\ i' = message_end /\ pc = "read" /\ pc' = "scan" /\ frames' = frames
      BY <1>4 DEF Read
    <2> DEFINE t == SubSeq(coming, 1, n)
               u == SubSeq(coming, n + 1, Len(coming))
    <2>2. /\ t \in Seq(Byte) /\ Len(t) = n /\ \A k \in 1 .. n : t[k] = coming[k]
          /\ u \in Seq(Byte)
      BY <1>0
    <2>3. t \o u = coming
      <3>1. 1 \in 1 .. Len(coming) + 1 /\ n \in 1 - 1 .. Len(coming) /\ Len(coming) \in n .. Len(coming)
        BY <1>0
      <3>2. t \o u = SubSeq(coming, 1, Len(coming))
        BY <1>0, <3>1, ConcatAdjacentSubSeq
      <3> QED  BY <1>0, <3>2, SubSeqFull
    <2> HIDE DEF t, u
    <2>4. whole' = whole
      <3>1. whole' = (done \o t) \o u
        BY <2>1 DEF whole, t, u
      <3>2. (done \o t) \o u = done \o (t \o u)
        <4>1. done \in Seq(Byte) /\ t \in Seq(Byte) /\ u \in Seq(Byte)
          BY <1>0, <2>2
        <4> QED  BY <4>1, ConcatAssociative
      <3> QED  BY <2>3, <3>1, <3>2 DEF whole
    <2>5. Len(done') = Len(done) + n /\ message_end' = message_end + n
      <3>1. Len(done \o t) = Len(done) + Len(t)
        BY <1>0, <2>2, ConcatProperties
      <3>2. Len(buffered_message \o t) = Len(buffered_message) + Len(t)
        BY <1>0, <2>2, ConcatProperties
      <3> QED  BY <2>1, <2>2, <3>1, <3>2 DEF message_end, t
    <2>6. base' = base
      BY <1>0, <2>5 DEF base
    <2>7. Seen' = Seen
      <3>1. ~(i' > message_end')
        BY <1>0, <2>1, <2>5
      <3>2. Seen' = base' + i'
        BY <2>1, <3>1 DEF Seen
      <3>3. Seen = Len(done)
        BY <2>1 DEF Seen
      <3> QED  BY <1>2, <2>1, <2>6, <3>2, <3>3
    <2>8. ASSUME NEW k \in 1 .. message_end' PROVE buffered_message'[k] = whole'[base' + k]
      <3>1. buffered_message'[k] = IF k <= Len(buffered_message) THEN buffered_message[k]
                                   ELSE t[k - Len(buffered_message)]
        <4>1. k \in 1 .. Len(buffered_message) + Len(t)
          BY <2>2, <2>5 DEF message_end
        <4> QED  BY <1>0, <2>1, <2>2, <4>1, ConcatProperties DEF t
      <3>2. CASE k <= message_end
        BY <1>0, <1>2, <2>4, <2>5, <2>6, <3>1, <3>2 DEF message_end
      <3>3. CASE ~(k <= message_end)
        <4>1. k - message_end \in 1 .. n /\ k - message_end \in 1 .. Len(coming)
              /\ Len(done) + (k - message_end) = base + k
          BY <1>0, <1>2, <2>5, <3>3, SMTT(30)
        <4>2. buffered_message'[k] = coming[k - message_end]
          BY <2>2, <3>1, <3>3, <4>1 DEF message_end
        <4> QED  BY <1>1, <2>4, <2>6, <4>1, <4>2
      <3> QED  BY <3>2, <3>3
    <2> QED  BY <1>2, <2>1, <2>4, <2>6, <2>7, <2>8 DEF ExactInv
  <1>5. CASE Cut
    <2> DEFINE frame == SubSeq(buffered_message, 1, i + 1)
               b == base + i + 1
    <2>1. /\ pc = "scan" /\ pc' = "scan" /\ i < message_end /\ i \in 1 .. Limit - 1
          /\ buffered_message[i] = "cr" /\ buffered_message[i + 1] = "lf"
          /\ frames' = Append(frames, frame)
          /\ buffered_message' = SubSeq(buffered_message, i + 2, message_end)
          /\ i' = 1 /\ done' = done /\ coming' = coming
      BY <1>0, <1>5 DEF Cut, AtCRLF, Resume
    <2>2. Seen = base + i
      BY <1>0, <2>1 DEF Seen
    <2>3. b \in Ends(whole)
      <3>1. b \in 2 .. Len(whole) /\ b - 1 = base + i /\ b = base + (i + 1)
        BY <1>0, <1>1, <1>2, <2>1
      <3>2. whole[b - 1] = "cr" /\ whole[b] = "lf"
        <4>1. i \in 1 .. message_end /\ i + 1 \in 1 .. message_end
          BY <1>0, <2>1
        <4> QED  BY <1>2, <2>1, <3>1, <4>1
      <3> HIDE DEF b
      <3> QED  BY <3>1, <3>2 DEF Ends
    <2>4. frame = SubSeq(whole, base + 1, base + i + 1)
      <3> DEFINE g == SubSeq(whole, base + 1, base + i + 1)
      <3>1. frame \in Seq(Byte) /\ Len(frame) = i + 1 /\ \A k \in 1 .. i + 1 : frame[k] = buffered_message[k]
        BY <1>0, <2>1 DEF message_end
      <3>2. g \in Seq(Byte) /\ Len(g) = i + 1 /\ \A k \in 1 .. i + 1 : g[k] = whole[base + k]
        BY <1>0, <1>1, <1>2, <2>1
      <3>3. ASSUME NEW k \in 1 .. i + 1 PROVE buffered_message[k] = whole[base + k]
        BY <1>0, <1>2, <2>1
      <3> HIDE DEF frame, g
      <3>4. frame = g
        BY <3>1, <3>2, <3>3, SeqEqual
      <3> QED  BY <3>4 DEF g
    <2>5. KeptAt(whole, b, b, frames')
      <3> HIDE DEF frame
      <3>1. KeptAt(whole, base, base + i, frames)
        BY <1>2, <2>2
      <3> QED  BY <1>0, <1>1, <1>2, <2>1, <2>3, <2>4, <3>1, KeptCut
    <2>6. /\ Len(buffered_message') = message_end - i - 1
          /\ \A k \in 1 .. message_end - i - 1 : buffered_message'[k] = buffered_message[i + 1 + k]
      BY <1>0, <2>1 DEF message_end
    <2>7. base' = b /\ message_end' = message_end - i - 1
      <3>1. message_end' = message_end - i - 1
        BY <2>6 DEF message_end
      <3>2. base' = Len(done) - (message_end - i - 1)
        BY <2>1, <3>1 DEF base
      <3>3. Len(done) - (message_end - i - 1) = base + i + 1
        <4>1. base \in Nat /\ message_end \in Nat /\ i \in Nat /\ Len(done) = base + message_end
          BY <1>0, <1>2
        <4> QED  BY <4>1
      <3> QED  BY <3>1, <3>2, <3>3
    <2>8. ASSUME NEW k \in 1 .. message_end' PROVE buffered_message'[k] = whole'[base' + k]
      <3>1. i + 1 + k \in 1 .. message_end /\ base + (i + 1 + k) = b + k /\ k \in 1 .. message_end - i - 1
        BY <1>0, <1>2, <2>1, <2>7
      <3> QED  BY <1>2, <1>3, <2>1, <2>6, <2>7, <3>1
    <2>9. KeptAt(whole, b, Seen', frames')
      <3>1. CASE message_end' = 0
        <4>1. Seen' = Len(done) /\ Len(done) = b
          BY <1>0, <1>2, <2>1, <2>7, <3>1 DEF Seen
        <4> QED  BY <2>5, <4>1
      <3>2. CASE message_end' # 0
        <4>1. Seen' = b + 1
          <5>1. ~(i' > message_end') /\ pc' # "read"
            BY <1>0, <2>1, <2>7, <3>2
          <5> QED  BY <2>1, <2>7, <5>1 DEF Seen
        <4>2. b + 1 \notin Ends(whole)
          BY <1>1, <2>3, EndsFact
        <4>3. b \in Nat /\ b + 1 \in Nat /\ b <= b + 1
          BY <1>0, <1>2
        <4> HIDE DEF b
        <4>4. \A e \in Ends(whole) : e <= b + 1 => e <= b
          BY <1>1, <4>2, <4>3, EndsFact
        <4> QED  BY <1>1, <2>5, <4>1, <4>3, <4>4, KeptSame
      <3> QED  BY <3>1, <3>2
    <2>10. b \in Nat
      BY <1>0, <1>2
    <2> HIDE DEF b
    <2> QED  BY <1>3, <2>1, <2>7, <2>8, <2>9, <2>10 DEF ExactInv
  <1>6. CASE Skip
    <2>1. /\ pc = "scan" /\ pc' = "scan" /\ i < message_end /\ ~AtCRLF /\ i' = i + 1
          /\ UNCHANGED <<coming, buffered_message, frames, done>>
      BY <1>6 DEF Skip
    <2>2. message_end' = message_end /\ base' = base /\ whole' = whole
      BY <1>3, <2>1 DEF base, message_end
    <2>3. Seen = base + i /\ Seen' = base + i + 1 /\ base + i \in Nat /\ base + i + 1 \in Nat
      BY <1>0, <1>2, <2>1, <2>2 DEF Seen
    <2>4. KeptAt(whole, base, base + i + 1, frames)
      <3>1. CASE base + i + 1 \notin Ends(whole)
        <4> DEFINE c == base + i
        <4>1. c \in Nat /\ c + 1 \in Nat /\ c <= c + 1 /\ c + 1 \notin Ends(whole)
              /\ KeptAt(whole, base, c, frames)
          BY <1>2, <2>3, <3>1
        <4> HIDE DEF c
        <4>2. \A e \in Ends(whole) : e <= c + 1 => e <= c
          BY <1>1, <4>1, EndsFact
        <4>3. KeptAt(whole, base, c + 1, frames)
          BY <1>1, <4>1, <4>2, KeptSame
        <4> QED  BY <4>3 DEF c
      <3>2. CASE base + i + 1 \in Ends(whole)
        <4>1. whole[base + i] = "cr" /\ whole[base + i + 1] = "lf"
          <5>1. (base + i + 1) - 1 = base + i
            BY <1>0, <1>2
          <5> QED  BY <3>2, <5>1 DEF Ends
        <4>2. ASSUME i # 0 PROVE FALSE
          <5>1. i \in 1 .. message_end /\ i + 1 \in 1 .. message_end /\ base + (i + 1) = base + i + 1
            BY <1>0, <1>2, <2>1, <4>2
          <5>2. buffered_message[i] = "cr" /\ buffered_message[i + 1] = "lf"
            BY <1>2, <4>1, <5>1
          <5> QED  BY <2>1, <4>2, <5>2 DEF AtCRLF
        <4>3. i = 0 /\ base + i = base /\ base + i + 1 = base + 1
          BY <1>2, <4>2
        <4>4. KeptAt(whole, base, base, frames)
          BY <1>2, <2>3, <4>3
        <4> QED  BY <1>1, <1>2, <3>2, <4>3, <4>4, KeptLone
      <3> QED  BY <3>1, <3>2
    <2> QED  BY <1>2, <2>1, <2>2, <2>3, <2>4 DEF ExactInv
  <1>7. CASE ScanDone
    <2>1. /\ pc = "scan" /\ pc' = "read" /\ i >= message_end
          /\ buffered_message' = IF Full THEN <<>> ELSE buffered_message
          /\ UNCHANGED <<coming, frames, done>>
      BY <1>7 DEF ScanDone
    <2>2. Seen = Len(done) /\ Seen' = Len(done)
      BY <1>0, <1>2, <2>1 DEF Seen
    <2>3. CASE Full
      <3>1. message_end' = 0 /\ base' = Len(done) /\ Len(done) = base + Limit
        BY <1>0, <1>2, <2>1, <2>3 DEF base, message_end, Full
      <3>2. Len(done) \in 0 .. Len(whole)
        BY <1>0, <1>1
      <3>3. KeptAt(whole, base + Limit, Len(done), frames)
        BY <1>1, <1>2, <2>2, <3>2, KeptBlock
      <3> QED  BY <1>0, <1>3, <2>1, <2>2, <3>1, <3>3 DEF ExactInv
    <2>4. CASE ~Full
      <3>1. buffered_message' = buffered_message /\ message_end' = message_end /\ base' = base
        BY <2>1, <2>4 DEF base, message_end
      <3> QED  BY <1>2, <1>3, <2>1, <2>2, <3>1 DEF ExactInv
    <2> QED  BY <2>3, <2>4
  <1>8. CASE UNCHANGED framingVars
    <2>1. UNCHANGED <<message_end, base, Seen, whole>>
      BY <1>8 DEF framingVars, message_end, base, Seen, whole
    <2> QED  BY <1>8, <2>1 DEF framingVars, ExactInv
  <1> QED
    BY <1>4, <1>5, <1>6, <1>7, <1>8 DEF Next, Waiting

LEMMA ExactRead ==
  ASSUME ScanInv, ExactInv
  PROVE  FramesExact
  <1> SUFFICES ASSUME pc = "read" PROVE FramesExact
    BY DEF FramesExact
  <1>1. done \in Seq(Byte) /\ coming \in Seq(Byte) /\ Len(done) \in Nat
    BY DEF ScanInv, FramingTypeOK
  <1>2. /\ whole \in Seq(Byte) /\ Len(done) <= Len(whole)
        /\ \A k \in 1 .. Len(done) : done[k] = whole[k]
    BY <1>1 DEF whole
  <1>3. KeptAt(whole, base, Len(done), frames)
    BY DEF ExactInv, Seen
  <1>4. /\ FrameEnds(done) = {k \in FrameEnds(whole) : k <= Len(done)}
        /\ \A k \in FrameEnds(done) : FrameAt(done, k) = FrameAt(whole, k)
    BY <1>1, <1>2, PrefixFact
  <1>5. Len(frames) = Cardinality(FrameEnds(done))
    BY <1>3, <1>4 DEF KeptAt, Count
  <1>6. ASSUME NEW k \in FrameEnds(done)
        PROVE  frames[Cardinality({e \in FrameEnds(done) : e <= k})] = FrameAt(done, k)
    <2>1. k \in FrameEnds(whole) /\ k <= Len(done) /\ k \in Nat
      BY <1>1, <1>4, EndsFact DEF FrameEnds
    <2>2. {e \in FrameEnds(done) : e <= k} = {e \in FrameEnds(whole) : e <= k}
      <3>1. \A e \in FrameEnds(whole) : e \in Nat
        BY <1>2, EndsFact DEF FrameEnds
      <3>2. ASSUME NEW e \in FrameEnds(whole), e <= k PROVE e <= Len(done)
        BY <1>1, <2>1, <3>1, <3>2
      <3>3. \A e : e \in FrameEnds(done) <=> e \in FrameEnds(whole) /\ e <= Len(done)
        BY <1>4
      <3> QED  BY <3>2, <3>3
    <2>3. frames[Count(whole, k)] = FrameAt(whole, k)
      BY <1>3, <2>1 DEF KeptAt
    <2> QED  BY <1>4, <2>2, <2>3 DEF Count
  <1> QED  BY <1>5, <1>6 DEF FramesExact

(***************************************************************************)
(* The frames are what one pass over the whole stream gives, for every     *)
(* buffer size, every stream and every way in which read() cuts it up.     *)
(***************************************************************************)
THEOREM FramesAreExact == Spec => []FramesExact
  <1>1. ScanInv /\ ExactInv /\ [Next]_framingVars => ExactInv'
    BY ExactStep
  <1>2. ScanInv /\ ExactInv => FramesExact
    BY ExactRead
  <1> QED  BY <1>1, <1>2, ScanInit, ExactInit, ScanStep, PTL DEF Spec
=============================================================================
