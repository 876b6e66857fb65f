--------------------------- MODULE BenchmarkProofs --------------------------
(***************************************************************************)
(* Theorems about Benchmark, for every script, every peer and every value  *)
(* of the other constants that the assumptions of the modules allow.       *)
(***************************************************************************)
EXTENDS MCBenchmark, ScriptProofs, SequenceTheorems, FiniteSetTheorems, TLAPS

USE DEF Line, Code, ExitCode, NoticeCode, None, Garbled

-----------------------------------------------------------------------------
(***************************************************************************)
(* Type correctness.                                                       *)
(***************************************************************************)

\* Each answer of the peer, cut into pieces, is a sequence of pieces.
LEMMA PiecesType ==
  ASSUME NEW k \in Line \cup {Garbled}, NEW a \in Answers[k]
  PROVE  PiecesOf(a, k) \in Seq(Piece) /\ Len(PiecesOf(a, k)) = Len(a)
  <1>1. a \in Seq(Code)
    BY PeerAssumption
  <1>2. \A i \in 1 .. Len(a) : a[i] \in Code
    BY <1>1, ElementOfSeq
  <1> QED  BY <1>1, <1>2 DEF PiecesOf, Piece

\* A step of the peer keeps its types.
LEMMA PeerType ==
  ASSUME PeerTypeOK, PeerNext
  PROVE  PeerTypeOK'
  <1>1. CASE Receive
    <2>1. wire' \in Seq(WireItem) /\ Head(wire) \in WireItem
      BY <1>1 DEF PeerTypeOK, Receive
    <2>2. partial' \in BOOLEAN
      BY <1>1, <2>1 DEF Receive, WireItem
    <2>3. outq' \in Seq(Piece)
      <3> DEFINE kind == IF partial THEN Garbled ELSE Head(wire).kind
      <3>1. kind \in Line \cup {Garbled}
        BY <2>1 DEF WireItem
      <3>2. CASE Head(wire).whole
        <4>1. PICK a \in Answers[kind] : outq' = outq \o PiecesOf(a, kind)
          BY <1>1, <3>2 DEF Receive
        <4>2. PiecesOf(a, kind) \in Seq(Piece)
          BY <3>1, PiecesType
        <4> QED  BY <4>1, <4>2 DEF PeerTypeOK
      <3>3. CASE ~Head(wire).whole
        BY <1>1, <3>3 DEF Receive, PeerTypeOK
      <3> QED  BY <3>2, <3>3
    <2> QED  BY <1>1, <2>1, <2>2, <2>3 DEF PeerTypeOK, Receive
  <1>2. CASE Arrive
    <2>1. PICK n \in 1 .. Len(outq) :
             /\ inbox' = inbox \o SubSeq(outq, 1, n)
             /\ outq' = SubSeq(outq, n + 1, Len(outq))
      BY <1>2 DEF Arrive
    <2>2. SubSeq(outq, 1, n) \in Seq(Piece) /\ SubSeq(outq, n + 1, Len(outq)) \in Seq(Piece)
      BY <2>1 DEF PeerTypeOK
    <2> QED  BY <1>2, <2>1, <2>2 DEF PeerTypeOK, Arrive
  <1>3. CASE Ping
    BY <1>3 DEF PeerTypeOK, Ping, Piece
  <1>4. CASE Close
    BY <1>4 DEF PeerTypeOK, Close
  <1> QED  BY <1>1, <1>2, <1>3, <1>4 DEF PeerNext

\* Deliver keeps the types of the counters and prints a well-formed row.
LEMMA DeliverType ==
  ASSUME LinkTypeOK, StopwatchStarted, NEW t \in Test, NEW re, Deliver(t, re)
  PROVE  /\ total' \in [Test -> Nat]
         /\ own' \in [Test -> Nat]
         /\ begin' \in Test
         /\ rows' \in Seq(Row)
  <1> DEFINE mine == own[t] + (IF re = t THEN 1 ELSE 0)
  <1>1. total[t] \in Nat /\ own[t] \in Nat /\ mine \in Nat
    BY DEF LinkTypeOK
  <1>2. Started(t) \in Test
    BY <1>1 DEF LinkTypeOK, StopwatchStarted, Started
  <1>3. CASE ~RowDone(t)
    <2>1. /\ total' = [total EXCEPT ![t] = total[t] + 1]
          /\ own' = [own EXCEPT ![t] = mine]
          /\ begin' = Started(t)
          /\ rows' = rows
      BY <1>3 DEF Deliver, Tally
    <2> HIDE DEF mine
    <2> QED  BY <1>1, <1>2, <2>1 DEF LinkTypeOK
  <1>4. CASE RowDone(t)
    <2> DEFINE row == [test |-> t, begin |-> Started(t), own |-> mine]
    <2>1. rows' = Append(rows, row) /\ row \in Row
      BY <1>1, <1>2, <1>4 DEF Deliver, Row
    <2>2. rows' \in Seq(Row)
      BY <2>1 DEF LinkTypeOK
    <2>3. /\ total' = [total EXCEPT ![t] = 0]
          /\ own' = [own EXCEPT ![t] = 0]
          /\ begin' = Started(t)
      BY <1>4 DEF Deliver, Tally
    <2> HIDE DEF row
    <2> QED  BY <1>2, <2>2, <2>3 DEF LinkTypeOK
  <1> QED  BY <1>3, <1>4

\* The variables of UNCHANGED, for the frame of every action.
LEMMA FrameType ==
  ASSUME LinkTypeOK, StopwatchStarted, UNCHANGED <<linkVars, outsideVars>>
  PROVE  LinkTypeOK' /\ StopwatchStarted'
  BY DEF LinkTypeOK, StopwatchStarted, linkVars, outsideVars, serverVars, reportVars

\* What Flush may do to the types, the variables of the peer included.
LEMMA FlushType ==
  ASSUME TypeOK, StopwatchStarted, Flush
  PROVE  TypeOK' /\ StopwatchStarted'
  <1> USE DEF TypeOK, LinkTypeOK, PeerTypeOK, StopwatchStarted, Stop, Exit,
              outsideVars, serverVars, reportVars, peerVars
  <1>1. CASE buffer = <<>>
    BY <1>1 DEF Flush
  <1>2. CASE buffer # <<>> /\ Head(buffer) = "QUIT"
    BY <1>2 DEF Flush, FlushQuit
  <1>3. CASE buffer # <<>> /\ Head(buffer) # "QUIT"
    <2> DEFINE line == Head(buffer)
    <2>1. FlushLine(line) /\ UNCHANGED outsideVars
      BY <1>3 DEF Flush
    <2>2. line \in Line /\ Tail(buffer) \in Seq(Line)
      BY <1>3
    <2> HIDE DEF line
    <2>3. wire' \in Seq(WireItem)
      <3>1. /\ [kind |-> line, whole |-> line \in Fitting] \in WireItem
            /\ [kind |-> line, whole |-> FALSE] \in WireItem
        BY <2>2 DEF WireItem
      <3>2. wire' = wire \/ \E item \in WireItem : wire' = Append(wire, item)
        BY <2>1, <3>1 DEF FlushLine, Accepted
      <3>3. wire \in Seq(WireItem)
        OBVIOUS
      <3> HIDE DEF TypeOK, LinkTypeOK, PeerTypeOK
      <3> QED  BY <3>2, <3>3, AppendProperties
    <2>4. sent' \in Seq(Line)
      <3>1. sent' = sent \/ sent' = Append(sent, line)
        BY <2>1 DEF FlushLine
      <3>2. sent \in Seq(Line)
        OBVIOUS
      <3> HIDE DEF TypeOK, LinkTypeOK, PeerTypeOK, Flush, StopwatchStarted
      <3> QED  BY <2>2, <3>1, <3>2, AppendProperties
    <2>5. late' \in Nat
      BY <2>1 DEF FlushLine
    <2>6. pc' \in {"poll", "exited"} /\ exit' \in Exit
      BY <2>1 DEF FlushLine
    <2>7. current' \in Test \cup {None}
      BY <2>1 DEF FlushLine
    <2>8. buffer' \in Seq(Line)
      BY <2>1, <2>2 DEF FlushLine
    <2>9. UNCHANGED <<event, Connected, total, begin, rows, own, s_signal, typed,
                      partial, outq, inbox, closed, pings>>
      BY <2>1 DEF FlushLine
    <2> HIDE DEF Exit
    <2>10. LinkTypeOK'
      BY <2>4, <2>5, <2>6, <2>7, <2>8, <2>9
    <2>11. PeerTypeOK'
      BY <2>3, <2>9
    <2> QED  BY <2>9, <2>10, <2>11
  <1> QED  BY <1>1, <1>2, <1>3

\* What CommandParser may do to the types.
LEMMA ReadPieceType ==
  ASSUME TypeOK, StopwatchStarted, ReadPiece
  PROVE  TypeOK' /\ StopwatchStarted'
  <1> DEFINE piece == Head(inbox)
  <1>1. piece \in Piece /\ inbox' \in Seq(Piece)
    BY DEF ReadPiece, TypeOK, PeerTypeOK
  <1>2. buffer' \in Seq(Line)
    BY DEF ReadPiece, Write, TypeOK, LinkTypeOK
  <1>3. /\ total' \in [Test -> Nat] /\ own' \in [Test -> Nat]
        /\ begin' \in Test \cup {None} /\ rows' \in Seq(Row)
        /\ StopwatchStarted'
    <2>1. CASE piece.code = "data" /\ current # None
      <3>1. current \in Test
        BY <2>1 DEF TypeOK, LinkTypeOK
      <3>2. Deliver(current, piece.re)
        BY <2>1 DEF ReadPiece, UnknownMessage
      <3>3. begin' \in Test
        BY <3>1, <3>2, DeliverType DEF TypeOK
      <3> QED  BY <3>1, <3>2, <3>3, DeliverType DEF TypeOK, StopwatchStarted, Test
    <2>2. CASE ~(piece.code = "data" /\ current # None)
      BY <2>2 DEF ReadPiece, UnknownMessage, reportVars, TypeOK, LinkTypeOK, StopwatchStarted
    <2> QED  BY <2>1, <2>2
  <1>4. pc' \in {"read", "exited"} /\ exit' \in Exit /\ Connected' \in BOOLEAN
    BY DEF ReadPiece, Stop, Exit, TypeOK, LinkTypeOK
  <1> QED
    BY <1>1, <1>2, <1>3, <1>4 DEF ReadPiece, TypeOK, LinkTypeOK, PeerTypeOK, outsideVars

\* The type invariant and the stopwatch are inductive together.
LEMMA TypeStep ==
  ASSUME TypeOK, StopwatchStarted, [Next]_vars
  PROVE  TypeOK' /\ StopwatchStarted'
  <1> USE DEF TypeOK
  <1>1. CASE Flush
    BY <1>1, FlushType
  <1>2. CASE Poll
    BY <1>2 DEF Poll, LinkTypeOK, PeerTypeOK, StopwatchStarted, Event,
       serverVars, reportVars, outsideVars, peerVars
  <1>3. CASE PollError
    <2>1. event' \in Event
      BY <1>3, LinkAssumption DEF PollError, Event
    <2> QED
      BY <1>3, <2>1 DEF PollError, LinkTypeOK, PeerTypeOK, StopwatchStarted,
         serverVars, reportVars, outsideVars, peerVars
  <1>4. CASE Check
    <2>1. pc' \in {"read", "flush", "exited"} /\ exit' \in Exit
      BY <1>4 DEF Check, Stop, LinkTypeOK, Event, Exit
    <2> QED
      BY <1>4, <2>1 DEF Check, LinkTypeOK, PeerTypeOK, StopwatchStarted, Event,
         serverVars, reportVars, outsideVars, peerVars
  <1>5. CASE ReadPiece
    BY <1>5, ReadPieceType
  <1>6. CASE ReadAgain
    BY <1>6 DEF ReadAgain, LinkTypeOK, PeerTypeOK, StopwatchStarted,
       serverVars, reportVars, outsideVars, peerVars
  <1>7. CASE ReadEnd
    BY <1>7 DEF ReadEnd, Stop, Exit, LinkTypeOK, PeerTypeOK, StopwatchStarted,
       serverVars, reportVars, outsideVars, peerVars
  <1>8. CASE PeerStep
    BY <1>8, PeerType, FrameType DEF PeerStep
  <1>9. CASE TypeAhead
    BY <1>9 DEF TypeAhead, LinkTypeOK, PeerTypeOK, StopwatchStarted, linkVars,
       serverVars, reportVars, peerVars
  <1>10. ASSUME NEW signal \in Signals, Signalizer(signal)
         PROVE  TypeOK' /\ StopwatchStarted'
    <2>1. signal \in {"SIGINT", "SIGTERM"}
      BY BenchmarkAssumption
    <2>2. pc' \in {"flush", "poll", "check", "read", "exited"} /\ event' \in Event
      BY <1>10 DEF Signalizer, LinkTypeOK, Event
    <2> QED
      BY <1>10, <2>1, <2>2 DEF Signalizer, LinkTypeOK, PeerTypeOK, StopwatchStarted,
         serverVars, reportVars, peerVars
  <1>11. CASE UNCHANGED vars
    BY <1>11, FrameType DEF vars, peerVars, PeerTypeOK
  <1> QED
    BY <1>1, <1>2, <1>3, <1>4, <1>5, <1>6, <1>7, <1>8, <1>9, <1>10, <1>11
    DEF Next, LinkNext, LinkStep, Outside, Terminated

\* Every variable keeps its type, and no row is ever timed from a
\* stopwatch that nothing has set (Deliver, UnknownMessage, Flush).
THEOREM TypeCorrect == Spec => [](TypeOK /\ StopwatchStarted)
  <1>1. Init => TypeOK /\ StopwatchStarted
    <2> SUFFICES ASSUME Init PROVE TypeOK /\ StopwatchStarted
      OBVIOUS
    <2>1. LinkTypeOK
      <3>1. Script \in Seq(Line) /\ <<>> \in Seq(Row) /\ <<>> \in Seq(Line)
        BY LinkAssumption
      <3> QED  BY <3>1 DEF Init, LinkInit, LinkTypeOK, Event, Exit
    <2>2. PeerTypeOK
      <3>1. <<>> \in Seq(WireItem) /\ <<>> \in Seq(Piece)
        OBVIOUS
      <3> QED  BY <3>1 DEF Init, PeerInit, PeerTypeOK
    <2>3. StopwatchStarted
      BY DEF Init, LinkInit, StopwatchStarted
    <2> QED  BY <2>1, <2>2, <2>3 DEF TypeOK
  <1>2. TypeOK /\ StopwatchStarted /\ [Next]_vars => (TypeOK /\ StopwatchStarted)'
    BY TypeStep
  <1> QED  BY <1>1, <1>2, PTL DEF Spec

-----------------------------------------------------------------------------
(***************************************************************************)
(* The queue.  QueueOrder is inductive once it is known that the process   *)
(* has an exit cause exactly when it has exited: then every step that      *)
(* touches the buffer starts from a state in which no popped line is lost. *)
(***************************************************************************)
ExitCause == pc = "exited" <=> exit # None

QueueInv == ExitCause /\ QueueOrder

\* Moving the first element of b to the end of s leaves their concatenation.
LEMMA MoveHead ==
  ASSUME NEW S, NEW s \in Seq(S), NEW b \in Seq(S), b # <<>>
  PROVE  Append(s, Head(b)) \o Tail(b) = s \o b
  <1>1. Head(b) \in S /\ Tail(b) \in Seq(S) /\ b = <<Head(b)>> \o Tail(b)
    BY HeadTailProperties
  <1>2. Append(s, Head(b)) = s \o <<Head(b)>>
    BY <1>1, AppendIsConcat
  <1>3. <<Head(b)>> \in Seq(S)
    BY <1>1
  <1> QED  BY <1>1, <1>2, <1>3, ConcatAssociative

\* Appending to the second of two sequences appends to their concatenation.
LEMMA AppendConcat ==
  ASSUME NEW S, NEW s \in Seq(S), NEW b \in Seq(S), NEW e \in S
  PROVE  s \o Append(b, e) = Append(s \o b, e)
  <1>1. Append(b, e) = b \o <<e>> /\ <<e>> \in Seq(S)
    BY AppendIsConcat
  <1>2. s \o b \in Seq(S)
    BY ConcatProperties
  <1>3. Append(s \o b, e) = (s \o b) \o <<e>>
    BY <1>2, AppendIsConcat
  <1> QED  BY <1>1, <1>3, ConcatAssociative

\* One more PONG at the end of n of them.
LEMMA PongsGrow ==
  ASSUME NEW n \in Nat
  PROVE  /\ Pongs(n) \in Seq(Line)
         /\ Len(Pongs(n)) = n
         /\ Append(Pongs(n), "PONG") = Pongs(n + 1)
  <1>1. \A m \in Nat : Pongs(m) \in Seq(Line) /\ Len(Pongs(m)) = m
    BY DEF Pongs
  <1>2. Append(Pongs(n), "PONG") \in Seq(Line) /\ Len(Append(Pongs(n), "PONG")) = n + 1
    BY <1>1, AppendProperties
  <1>3. \A i \in 1 .. n + 1 : Append(Pongs(n), "PONG")[i] = Pongs(n + 1)[i]
    BY <1>1, AppendProperties DEF Pongs
  <1>4. n + 1 \in Nat
    OBVIOUS
  <1> QED  BY <1>1, <1>2, <1>3, <1>4, SeqEqual

\* Writing the first line of the buffer: it cannot be the last of the script.
LEMMA QueueWrite ==
  ASSUME TypeOK, QueueOrder, exit # "write", buffer # <<>>, Head(buffer) # "QUIT",
         sent' = Append(sent, Head(buffer)), buffer' = Tail(buffer)
  PROVE  QueueOrder'
  <1> DEFINE n == Len(sent) + Len(buffer) - Len(Script)
  <1>1. sent \in Seq(Line) /\ buffer \in Seq(Line) /\ Script \in Seq(Line)
    BY LinkAssumption DEF TypeOK, LinkTypeOK
  <1>2. /\ Len(sent) \in Nat /\ Len(buffer) \in Nat /\ Len(Script) \in Nat
        /\ Len(buffer) > 0 /\ Len(Script) > 0
    BY <1>1, LinkAssumption
  <1>3. n \in Nat /\ sent \o buffer = Script \o Pongs(n) /\ Len(sent) < Len(Script)
    <2>1. /\ Len(sent) + Len(buffer) >= Len(Script)
          /\ sent \o buffer = Script \o Pongs(n)
          /\ Len(sent) < Len(Script)
      BY Zenon DEF QueueOrder
    <2>2. n \in Nat
      BY <1>2, <2>1
    <2> QED  BY <2>1, <2>2
  <1>4. Len(sent') = Len(sent) + 1 /\ Len(buffer') = Len(buffer) - 1
    BY <1>1, <1>2
  <1>5. sent' \o buffer' = sent \o buffer
    BY <1>1, MoveHead
  <1>6. Len(sent) + 1 # Len(Script)
    <2> SUFFICES ASSUME Len(sent) + 1 = Len(Script) PROVE FALSE
      OBVIOUS
    <2>1. (sent \o buffer)[Len(sent) + 1] = buffer[1]
      BY <1>1, <1>2, ConcatProperties
    <2>2. Pongs(n) \in Seq(Line)
      BY <1>3, PongsGrow
    <2>3. (Script \o Pongs(n))[Len(Script)] = Script[Len(Script)]
      BY <1>1, <1>2, <2>2, ConcatProperties
    <2>4. buffer[1] = "QUIT"
      BY <1>3, <2>1, <2>3, LinkAssumption
    <2> QED  BY <1>1, <2>4
  <1>7. /\ Len(sent') + Len(buffer') - Len(Script) = n
        /\ Len(sent') + Len(buffer') >= Len(Script)
    BY <1>2, <1>3, <1>4
  <1>8. Len(sent') < Len(Script)
    BY <1>2, <1>3, <1>4, <1>6
  <1> HIDE DEF n
  <1> QED  BY <1>3, <1>5, <1>7, <1>8 DEF QueueOrder

\* Queueing a PONG, or nothing, behind what is there.
LEMMA QueuePong ==
  ASSUME TypeOK, QueueOrder, exit # "write", UNCHANGED sent,
         buffer' = buffer \/ buffer' = Append(buffer, "PONG")
  PROVE  QueueOrder'
  <1> DEFINE n == Len(sent) + Len(buffer) - Len(Script)
  <1>1. sent \in Seq(Line) /\ buffer \in Seq(Line) /\ Script \in Seq(Line) /\ "PONG" \in Line
    BY LinkAssumption DEF TypeOK, LinkTypeOK
  <1>2. Len(sent) \in Nat /\ Len(buffer) \in Nat /\ Len(Script) \in Nat
    BY <1>1
  <1>3. n \in Nat /\ sent \o buffer = Script \o Pongs(n) /\ Len(sent) < Len(Script)
    <2>1. /\ Len(sent) + Len(buffer) >= Len(Script)
          /\ sent \o buffer = Script \o Pongs(n)
          /\ Len(sent) < Len(Script)
      BY Zenon DEF QueueOrder
    <2>2. n \in Nat
      BY <1>2, <2>1
    <2> QED  BY <2>1, <2>2
  <1>4. CASE buffer' = buffer
    BY <1>2, <1>3, <1>4 DEF QueueOrder
  <1>5. CASE buffer' = Append(buffer, "PONG")
    <2>1. Len(buffer') = Len(buffer) + 1
      BY <1>1, <1>5
    <2>2. /\ Len(sent) + Len(buffer') - Len(Script) = n + 1
          /\ Len(sent) + Len(buffer') >= Len(Script)
      BY <1>2, <1>3, <2>1
    <2> HIDE DEF n
    <2>3. Pongs(n) \in Seq(Line) /\ Append(Pongs(n), "PONG") = Pongs(n + 1)
      BY <1>3, PongsGrow
    <2>4. sent \o buffer' = Append(sent \o buffer, "PONG")
      BY <1>1, <1>5, AppendConcat
    <2>5. Script \o Append(Pongs(n), "PONG") = Append(Script \o Pongs(n), "PONG")
      BY <1>1, <2>3, AppendConcat
    <2> QED  BY <1>3, <2>2, <2>3, <2>4, <2>5 DEF QueueOrder
  <1> QED  BY <1>4, <1>5

\* Only Flush and CommandParser touch the buffer.
LEMMA QueueStep ==
  ASSUME TypeOK, QueueInv, [Next]_vars
  PROVE  QueueInv'
  <1>1. CASE Flush
    <2>1. exit = None
      BY <1>1 DEF Flush, QueueInv, ExitCause
    <2>2. CASE buffer = <<>> \/ Head(buffer) = "QUIT"
      BY <1>1, <2>1, <2>2, QueuePong DEF Flush, FlushQuit, Stop, serverVars, QueueInv, ExitCause
    <2>3. CASE buffer # <<>> /\ Head(buffer) # "QUIT"
      <3>1. FlushLine(Head(buffer))
        BY <1>1, <2>3 DEF Flush
      <3>2. CASE sent' = Append(sent, Head(buffer)) /\ pc' = "poll" /\ UNCHANGED exit
        BY <2>1, <2>3, <3>1, <3>2, QueueWrite DEF FlushLine, QueueInv, ExitCause
      <3>3. CASE Stop("write")
        BY <3>3 DEF Stop, QueueInv, ExitCause, QueueOrder
      <3> QED  BY <3>1, <3>2, <3>3 DEF FlushLine
    <2> QED  BY <2>2, <2>3
  <1>2. CASE Poll \/ PollError
    BY <1>2 DEF Poll, PollError, serverVars, QueueInv, ExitCause, QueueOrder
  <1>3. CASE Check
    <2>1. exit = None /\ UNCHANGED <<sent, buffer>>
      BY <1>3 DEF Check, QueueInv, ExitCause, serverVars
    <2>2. ExitCause'
      BY <1>3, <2>1 DEF Check, Stop, ExitCause
    <2> QED  BY <2>1, <2>2, QueuePong DEF QueueInv
  <1>4. CASE ReadPiece
    <2>1. exit = None /\ UNCHANGED sent
      BY <1>4 DEF ReadPiece, QueueInv, ExitCause
    <2>2. buffer' = buffer \/ buffer' = Append(buffer, "PONG")
      BY <1>4 DEF ReadPiece, Write
    <2>3. ExitCause'
      BY <1>4, <2>1 DEF ReadPiece, Stop, ExitCause
    <2> QED  BY <2>1, <2>2, <2>3, QueuePong DEF QueueInv
  <1>5. CASE ReadAgain
    BY <1>5 DEF ReadAgain, serverVars, QueueInv, ExitCause, QueueOrder
  <1>6. CASE ReadEnd
    <2>1. exit = None /\ UNCHANGED <<sent, buffer>>
      BY <1>6 DEF ReadEnd, QueueInv, ExitCause, serverVars
    <2>2. ExitCause'
      BY <1>6 DEF ReadEnd, Stop, ExitCause
    <2> QED  BY <2>1, <2>2, QueuePong DEF QueueInv
  <1>7. CASE Running /\ (PeerStep \/ Outside)
    BY <1>7 DEF Running, PeerStep, Outside, TypeAhead, Signalizer, linkVars, serverVars,
       QueueInv, ExitCause, QueueOrder
  <1>8. CASE UNCHANGED vars
    BY <1>8 DEF vars, linkVars, serverVars, QueueInv, ExitCause, QueueOrder
  <1> QED
    BY <1>1, <1>2, <1>3, <1>4, <1>5, <1>6, <1>7, <1>8 DEF Next, LinkNext, LinkStep, Terminated

\* Initially nothing is written and the buffer is the script.
LEMMA QueueInit == Init => QueueInv
  <1> SUFFICES ASSUME Init PROVE QueueInv
    OBVIOUS
  <1>1. Script \in Seq(Line) /\ Len(Script) > 0 /\ Len(Script) \in Nat
    BY LinkAssumption
  <1>2. <<>> \o Script = Script /\ Script \o <<>> = Script
    BY <1>1, ConcatEmptySeq
  <1>3. Pongs(0) = <<>>
    BY DEF Pongs
  <1>4. sent = <<>> /\ buffer = Script /\ pc = "flush" /\ exit = None
    BY DEF Init, LinkInit
  <1> QED  BY <1>1, <1>2, <1>3, <1>4 DEF QueueInv, QueueOrder, ExitCause

\* Whatever CommandParser queues and whenever, Flush writes the script in its
\* order, each line once, and never QUIT nor anything behind it.
THEOREM QueueCorrect == Spec => []QueueOrder
  <1>1. Init => QueueInv
    BY QueueInit
  <1>2. TypeOK /\ QueueInv /\ [Next]_vars => QueueInv'
    BY QueueStep
  <1>3. QueueInv => QueueOrder
    BY DEF QueueInv
  <1> QED  BY <1>1, <1>2, <1>3, TypeCorrect, PTL DEF Spec

-----------------------------------------------------------------------------
(***************************************************************************)
(* Client and server.  The loop blocks only after it has written a line,   *)
(* which QueueOrder makes sure there is; from then on what is on its way   *)
(* changes place, and is never lost but to the unfinished line the peer    *)
(* holds.                                                                  *)
(***************************************************************************)

\* While the loop runs there is a line to write, at least QUIT.
LEMMA BufferNeverEmpty ==
  ASSUME TypeOK, QueueInv, pc # "exited"
  PROVE  buffer # <<>>
  <1>1. sent \in Seq(Line) /\ Len(Script) \in Nat /\ Len(sent) \in Nat
    BY LinkAssumption DEF TypeOK, LinkTypeOK
  <1>2. Len(sent) + Len(buffer) >= Len(Script) /\ Len(sent) < Len(Script)
    BY DEF QueueInv, ExitCause, QueueOrder
  <1> QED  BY <1>1, <1>2

\* A peer that answers keeps something on its way, or holds part of a line.
LEMMA PeerKeepsWaking ==
  ASSUME TypeOK, Answering, OnItsWay \/ partial, PeerNext
  PROVE  (OnItsWay \/ partial)'
  <1> USE DEF OnItsWay
  <1>1. CASE Receive
    <2>1. CASE ~Head(wire).whole
      BY <1>1, <2>1 DEF Receive
    <2>2. CASE Head(wire).whole
      <3> DEFINE kind == IF partial THEN Garbled ELSE Head(wire).kind
      <3> Head(wire) \in WireItem
        BY <1>1, HeadTailProperties DEF Receive, TypeOK, PeerTypeOK
      <3>1. kind \in Line \cup {Garbled}
        BY DEF WireItem
      <3>2. PICK a \in Answers[kind] : outq' = outq \o PiecesOf(a, kind)
        BY <1>1, <2>2 DEF Receive
      <3>3. a # <<>> /\ a \in Seq(Code)
        BY <3>1, PeerAssumption DEF Answering
      <3>4. PiecesOf(a, kind) \in Seq(Piece) /\ Len(PiecesOf(a, kind)) > 0
        BY <3>1, <3>3, PiecesType
      <3> HIDE DEF kind
      <3>5. Len(outq') > 0
        BY <3>2, <3>4, ConcatProperties DEF TypeOK, PeerTypeOK
      <3> QED  BY <3>5
    <2> QED  BY <2>1, <2>2
  <1>2. CASE Arrive
    <2>1. PICK n \in 1 .. Len(outq) : inbox' = inbox \o SubSeq(outq, 1, n)
      BY <1>2 DEF Arrive
    <2>2. Len(SubSeq(outq, 1, n)) = n /\ SubSeq(outq, 1, n) \in Seq(Piece)
      BY <2>1 DEF TypeOK, PeerTypeOK
    <2>3. Len(inbox') > 0
      BY <2>1, <2>2, ConcatProperties DEF TypeOK, PeerTypeOK
    <2> QED  BY <2>3
  <1>3. CASE Ping
    BY <1>3 DEF Ping, TypeOK, PeerTypeOK
  <1>4. CASE Close
    BY <1>4 DEF Close
  <1> QED  BY <1>1, <1>2, <1>3, <1>4 DEF PeerNext

\* Each way out of poll() leads back to it through a write.
LEMMA WaitStep ==
  ASSUME TypeOK, QueueInv, Answering, NoMutualWait, [Next]_vars
  PROVE  NoMutualWait'
  <1> USE DEF NoMutualWait, OnItsWay
  <1>1. CASE Flush
    <2>1. buffer # <<>>
      BY <1>1, BufferNeverEmpty DEF Flush
    <2>2. CASE Head(buffer) = "QUIT"
      BY <1>1, <2>1, <2>2 DEF Flush, FlushQuit, Stop
    <2>3. CASE Head(buffer) # "QUIT"
      <3>1. FlushLine(Head(buffer))
        BY <1>1, <2>1, <2>3 DEF Flush
      <3>2. CASE Accepted(Head(buffer))
        BY <3>2 DEF Accepted, TypeOK, PeerTypeOK
      <3>3. CASE Stop("write")
        BY <3>3 DEF Stop
      <3> QED  BY <3>1, <3>2, <3>3 DEF FlushLine
    <2> QED  BY <2>2, <2>3
  <1>2. CASE Poll \/ PollError \/ Check \/ ReadPiece \/ ReadAgain \/ ReadEnd
    <2>1. pc' # "poll"
      BY <1>2 DEF Poll, PollError, Check, ReadPiece, ReadAgain, ReadEnd, Stop
    <2> QED  BY <2>1
  <1>3. CASE PeerStep
    BY <1>3, PeerKeepsWaking DEF PeerStep, linkVars
  <1>4. CASE Outside
    BY <1>4 DEF Outside, TypeAhead, Signalizer, linkVars, peerVars
  <1>5. CASE UNCHANGED vars
    BY <1>5 DEF vars, linkVars, peerVars
  <1> QED
    BY <1>1, <1>2, <1>3, <1>4, <1>5 DEF Next, LinkNext, LinkStep, Terminated

\* With a peer that gives every line some answer, the only way for the client
\* (poll() without a timeout) and the server to wait for each other is a line
\* that lost its end.
THEOREM MutualWait == ASSUME Answering PROVE Spec => []NoMutualWait
  <1>1. Init => QueueInv /\ NoMutualWait
    BY QueueInit DEF Init, LinkInit, NoMutualWait
  <1>2. TypeOK /\ QueueInv /\ NoMutualWait /\ [Next]_vars => (QueueInv /\ NoMutualWait)'
    BY QueueStep, WaitStep
  <1> QED  BY <1>1, <1>2, TypeCorrect, PTL DEF Spec

-----------------------------------------------------------------------------
(***************************************************************************)
(* Signals.  A line written with a signal pending takes the loop to        *)
(* poll(), and from there only to Check, where the signal is seen.         *)
(***************************************************************************)
SignalInv ==
  /\ late \in {0, 1}
  /\ late = 1 => pc \in {"poll", "check", "exited"} /\ s_signal # None

\* The loop of Initialize looks at s_signal after every poll(), whatever
\* woke it: at most one line is written between a signal and the exit.
THEOREM SignalHeeded == Spec => []SignalPrompt
  <1>1. Init => SignalInv
    BY DEF Init, LinkInit, SignalInv
  <1>2. ASSUME TypeOK, SignalInv, [Next]_vars
        PROVE  SignalInv'
    <2> USE DEF SignalInv, Stop, serverVars, outsideVars
    <2>1. CASE Flush
      BY <1>2, <2>1 DEF Flush, FlushQuit, FlushLine
    <2>2. CASE Poll \/ PollError
      BY <1>2, <2>2 DEF Poll, PollError
    <2>3. CASE Check
      BY <1>2, <2>3 DEF Check, SignalSeen
    <2>4. CASE ReadPiece \/ ReadAgain \/ ReadEnd
      BY <1>2, <2>4 DEF ReadPiece, ReadAgain, ReadEnd
    <2>5. CASE PeerStep
      BY <1>2, <2>5 DEF PeerStep, linkVars
    <2>6. CASE TypeAhead
      BY <1>2, <2>6 DEF TypeAhead, linkVars
    <2>7. ASSUME NEW signal \in Signals, Signalizer(signal) PROVE SignalInv'
      BY <1>2, <2>7, BenchmarkAssumption DEF Signalizer
    <2>8. CASE UNCHANGED vars
      BY <1>2, <2>8 DEF vars, linkVars
    <2> QED
      BY <1>2, <2>1, <2>2, <2>3, <2>4, <2>5, <2>6, <2>7, <2>8
      DEF Next, LinkNext, LinkStep, Outside, Terminated
  <1>3. SignalInv => SignalPrompt
    BY DEF SignalInv, SignalPrompt
  <1> QED  BY <1>1, <1>2, <1>3, TypeCorrect, PTL DEF Spec

-----------------------------------------------------------------------------
(***************************************************************************)
(* Strict alternation.  One line, then its answer, is in exactly one place *)
(* at a time: unread on the wire, in flight, or in the socket; and the     *)
(* loop leaves poll() only when it is in the socket.                       *)
(***************************************************************************)
Quiet == wire = <<>> /\ outq = <<>>

AltInv ==
  /\ ~typed
  /\ ~partial
  /\ Len(wire) <= 1
  /\ wire # <<>> => outq = <<>> /\ inbox = <<>> /\ Head(wire).whole
  /\ outq # <<>> => inbox = <<>>
  /\ pc = "flush" => Quiet /\ inbox = <<>>
  /\ pc = "check" => event \in {"conn", "intr"} /\ (event = "conn" => closed \/ Quiet)
  /\ pc = "read" => closed \/ Quiet

\* A sequence of one element.
LEMMA OneElement ==
  ASSUME NEW S, NEW s \in Seq(S), s # <<>>, Len(s) <= 1
  PROVE  Len(s) = 1 /\ Tail(s) = <<>>
  <1>1. Len(s) = 1
    <2>1. Len(s) \in Nat \ {0}
      BY EmptySeq
    <2> QED  BY <2>1
  <1>2. Tail(s) \in Seq(S) /\ Len(Tail(s)) = 0
    BY <1>1, HeadTailProperties
  <1> QED  BY <1>1, <1>2, EmptySeq

\* Writing the one line that may be on its way.
LEMMA AltWrite ==
  ASSUME Alternating, TypeOK, AltInv, NEW line \in Line,
         pc = "flush", FlushLine(line), UNCHANGED outsideVars
  PROVE  AltInv'
  <1>1. wire = <<>> /\ outq = <<>> /\ inbox = <<>> /\ Len(wire) = 0
    BY DEF AltInv, Quiet
  <1>2. CASE Stop("write") /\ UNCHANGED wire
    BY <1>2 DEF FlushLine, Stop, AltInv, outsideVars
  <1>3. CASE Accepted(line) /\ pc' = "poll"
    <2>1. wire' = Append(wire, [kind |-> line, whole |-> line \in Fitting])
      BY <1>1, <1>3 DEF Accepted, Alternating
    <2> DEFINE item == [kind |-> line, whole |-> line \in Fitting]
    <2>2. item \in WireItem /\ item.whole
      BY DEF WireItem, Alternating
    <2> HIDE DEF item
    <2>3. Len(wire') = 1 /\ Head(wire').whole
      BY <1>1, <2>1, <2>2 DEF item, TypeOK, PeerTypeOK
    <2>4. UNCHANGED <<typed, partial, outq, inbox>>
      BY DEF FlushLine, outsideVars
    <2>5. ~typed /\ ~partial
      BY DEF AltInv
    <2> QED
      BY <1>1, <1>3, <2>3, <2>4, <2>5 DEF AltInv
  <1> QED  BY <1>2, <1>3 DEF FlushLine

\* The peer passes the line on, whole, as one answer in one segment.
LEMMA AltPeer ==
  ASSUME Alternating, TypeOK, AltInv, PeerNext, UNCHANGED <<linkVars, outsideVars>>
  PROVE  AltInv'
  <1> USE DEF AltInv, Quiet, linkVars, outsideVars, Alternating
  <1>1. CASE Receive
    <2>1. wire' = <<>> /\ ~partial'
      <3>1. Head(wire).whole
        BY <1>1 DEF Receive
      <3>2. Tail(wire) = <<>>
        BY <1>1, OneElement DEF Receive, TypeOK, PeerTypeOK
      <3> QED  BY <1>1, <3>1, <3>2 DEF Receive
    <2>2. inbox' = <<>> /\ UNCHANGED closed
      BY <1>1 DEF Receive
    <2>3. ~closed /\ wire # <<>>
      BY <1>1 DEF Receive
    <2> QED  BY <2>1, <2>2, <2>3
  <1>2. CASE Arrive
    <2>1. outq # <<>> /\ wire = <<>>
      BY <1>2 DEF Arrive, TypeOK, PeerTypeOK
    <2>2. outq' = <<>>
      BY <1>2 DEF Arrive, TypeOK, PeerTypeOK
    <2> QED  BY <1>2, <2>1, <2>2 DEF Arrive
  <1>3. CASE Ping
    BY <1>3 DEF Ping, TypeOK, PeerTypeOK
  <1>4. CASE Close
    BY <1>4 DEF Close
  <1> QED  BY <1>1, <1>2, <1>3, <1>4 DEF PeerNext

\* Alternation is inductive.
LEMMA AltStep ==
  ASSUME Alternating, TypeOK, QueueInv, AltInv, [Next]_vars
  PROVE  AltInv'
  <1>1. CASE Flush
    <2>1. buffer # <<>> /\ pc = "flush"
      BY <1>1, BufferNeverEmpty DEF Flush
    <2>2. CASE Head(buffer) = "QUIT"
      BY <1>1, <2>1, <2>2 DEF Flush, FlushQuit, Stop, AltInv, Quiet, outsideVars, peerVars
    <2>3. CASE Head(buffer) # "QUIT"
      <3>1. Head(buffer) \in Line
        BY <2>1, HeadTailProperties DEF TypeOK, LinkTypeOK
      <3> QED  BY <1>1, <2>1, <2>3, <3>1, AltWrite DEF Flush
    <2> QED  BY <2>2, <2>3
  <1> USE DEF AltInv, Quiet, outsideVars, peerVars
  <1>2. CASE Poll
    BY <1>2 DEF Poll, Readable
  <1>3. CASE PollError
    BY <1>3 DEF PollError, Alternating
  <1>4. CASE Check
    BY <1>4 DEF Check, Stop
  <1>5. CASE ReadPiece
    <2>1. closed \/ Quiet
      BY <1>5 DEF ReadPiece
    <2>2. inbox # <<>> /\ pc' \in {"read", "exited"}
      BY <1>5 DEF ReadPiece, Stop
    <2>3. UNCHANGED <<typed, partial, wire, outq, closed, event>>
      BY <1>5 DEF ReadPiece
    <2> QED  BY <2>1, <2>2, <2>3
  <1>6. CASE ReadAgain \/ ReadEnd
    BY <1>6 DEF ReadAgain, ReadEnd, Stop
  <1>7. CASE PeerStep
    BY <1>7, AltPeer DEF PeerStep
  <1>8. CASE TypeAhead
    BY <1>8 DEF TypeAhead, Alternating
  <1>9. ASSUME NEW signal \in Signals, Signalizer(signal) PROVE AltInv'
    BY <1>9 DEF Signalizer
  <1>10. CASE UNCHANGED vars
    BY <1>10 DEF vars, linkVars
  <1> QED
    BY <1>1, <1>2, <1>3, <1>4, <1>5, <1>6, <1>7, <1>8, <1>9, <1>10
    DEF Next, LinkNext, LinkStep, Outside, Terminated

\* When nothing but whole answers wakes the loop, it writes no line before it
\* has read the answer to the last one, and no write is ever short.
THEOREM Alternation == ASSUME Alternating PROVE Spec => []OneOutstanding
  <1>1. Init => QueueInv /\ AltInv
    BY QueueInit DEF Init, LinkInit, PeerInit, AltInv, Quiet
  <1>2. TypeOK /\ QueueInv /\ AltInv /\ [Next]_vars => (QueueInv /\ AltInv)'
    BY QueueStep, AltStep
  <1>3. AltInv => OneOutstanding
    BY DEF AltInv, Quiet, OneOutstanding
  <1> QED  BY <1>1, <1>2, <1>3, TypeCorrect, PTL DEF Spec

-----------------------------------------------------------------------------
(***************************************************************************)
(* Counting replies.  A line written, its unread copy, the one line of     *)
(* data in its answer, the unit it adds to a tally and the row made of     *)
(* PerRow units are one token that changes place: no step makes a second.  *)
(***************************************************************************)

\* The pieces of two sequences are those of their concatenation.
LEMMA DataInConcat ==
  ASSUME NEW s \in Seq(Piece), NEW t \in Seq(Piece)
  PROVE  /\ DataIn(s) \in Nat
         /\ DataIn(t) \in Nat
         /\ DataIn(s \o t) = DataIn(s) + DataIn(t)
  <1> DEFINE m == Len(s)
             S == {i \in DOMAIN s : s[i].code = "data"}
             T == {i \in DOMAIN t : t[i].code = "data"}
             U == {i \in DOMAIN (s \o t) : (s \o t)[i].code = "data"}
             V == {i \in DOMAIN (s \o t) : i > m /\ (s \o t)[i].code = "data"}
             f == [i \in T |-> m + i]
  <1>1. /\ m \in Nat /\ Len(t) \in Nat /\ DOMAIN s = 1 .. m /\ DOMAIN t = 1 .. Len(t)
        /\ DOMAIN (s \o t) = 1 .. m + Len(t)
        /\ \A i \in 1 .. m + Len(t) : (s \o t)[i] = IF i <= m THEN s[i] ELSE t[i - m]
    BY ConcatProperties
  <1>2. IsFiniteSet(S) /\ IsFiniteSet(T)
    <2>1. S \in SUBSET (1 .. m) /\ T \in SUBSET (1 .. Len(t))
      BY <1>1
    <2>2. IsFiniteSet(1 .. m) /\ IsFiniteSet(1 .. Len(t))
      BY <1>1, FS_Interval
    <2> QED  BY <2>1, <2>2, FS_Subset
  <1>3. f \in Bijection(T, V)
    <2>1. \A i \in T : m + i \in V
      BY <1>1
    <2>2. \A i \in V : i - m \in T /\ m + (i - m) = i
      BY <1>1
    <2>3. \A i, j \in T : m + i = m + j => i = j
      BY <1>1
    <2> HIDE DEF T, V, m
    <2>4. f \in [T -> V] /\ \A i \in T : f[i] = m + i
      BY <2>1
    <2>5. f \in Injection(T, V)
      BY <2>3, <2>4 DEF Injection, IsInjective
    <2>6. f \in Surjection(T, V)
      <3>1. \A i \in V : \E j \in T : f[j] = i
        BY <2>2, <2>4
      <3> QED  BY <2>4, <3>1 DEF Surjection
    <2> QED  BY <2>5, <2>6 DEF Bijection
  <1>4. IsFiniteSet(V) /\ Cardinality(V) = Cardinality(T)
    BY <1>2, <1>3, FS_Bijection DEF ExistsBijection
  <1>5. U = S \cup V /\ S \cap V = {}
    BY <1>1
  <1>6. Cardinality(U) = Cardinality(S) + Cardinality(V)
    <2> HIDE DEF S, T, U, V, m, f
    <2>1. Cardinality(S \cup V) = Cardinality(S) + Cardinality(V) - Cardinality(S \cap V)
      BY <1>2, <1>4, FS_Union
    <2>2. Cardinality({}) = 0
      BY FS_EmptySet
    <2>3. Cardinality(S) \in Nat /\ Cardinality(V) \in Nat
      BY <1>2, <1>4, FS_CardinalityType
    <2>4. Cardinality(U) = Cardinality(S) + Cardinality(V) - 0
      BY <1>5, <2>1, <2>2, Zenon
    <2> QED  BY <2>3, <2>4
  <1>7. Cardinality(S) \in Nat /\ Cardinality(T) \in Nat
    BY <1>2, FS_CardinalityType
  <1>8. DataIn(s) = Cardinality(S) /\ DataIn(t) = Cardinality(T) /\ DataIn(s \o t) = Cardinality(U)
    BY DEF DataIn
  <1> HIDE DEF S, T, U, V, m, f
  <1> QED  BY <1>4, <1>6, <1>7, <1>8

\* A piece counts for one, or for nothing.
LEMMA DataInOne ==
  ASSUME NEW piece \in Piece
  PROVE  /\ DataIn(<<piece>>) = IF piece.code = "data" THEN 1 ELSE 0
         /\ DataIn(<<>>) = 0
  <1>1. {i \in DOMAIN <<piece>> : <<piece>>[i].code = "data"}
          = IF piece.code = "data" THEN {1} ELSE {}
    OBVIOUS
  <1>2. {i \in DOMAIN <<>> : <<>>[i].code = "data"} = {}
    OBVIOUS
  <1> QED  BY <1>1, <1>2, FS_EmptySet, FS_Singleton DEF DataIn

\* An answer with one line of data at most counts for one at most.
LEMMA DataInAnswer ==
  ASSUME NEW k \in Line \cup {Garbled}, NEW a \in Answers[k],
         \A i, j \in DOMAIN a : a[i] = "data" /\ a[j] = "data" => i = j
  PROVE  DataIn(PiecesOf(a, k)) \in {0, 1}
  <1> DEFINE D == {i \in DOMAIN PiecesOf(a, k) : PiecesOf(a, k)[i].code = "data"}
  <1>1. a \in Seq(Code)
    BY PeerAssumption
  <1>2. /\ DOMAIN PiecesOf(a, k) = DOMAIN a
        /\ \A i \in DOMAIN a : PiecesOf(a, k)[i].code = a[i]
    BY <1>1 DEF PiecesOf
  <1>3. \A i, j \in D : i = j
    BY <1>2
  <1>4. D = {} \/ \E i : D = {i}
    <2> HIDE DEF D
    <2> QED  BY <1>3
  <1>5. Cardinality(D) \in {0, 1}
    <2> HIDE DEF D
    <2> QED  BY <1>4, FS_EmptySet, FS_Singleton
  <1> QED  BY <1>5 DEF DataIn

-----------------------------------------------------------------------------
\* The peer's answers have at most one line of data each, whatever the line.
OneDataEach ==
  \A k \in Line \cup {Garbled} : \A a \in Answers[k] :
    \A i, j \in DOMAIN a : a[i] = "data" /\ a[j] = "data" => i = j

\* The replies behind the rows and in the tallies; those still to come.
Booked  == Len(rows) * PerRow + Tallied
Pending == DataIn(inbox) + DataIn(outq) + Len(wire)

\* A tally never reaches a row: Deliver has printed the row before.
ReplyInv == NoReplyCountedTwice /\ \A t \in Test : total[t] < PerRow

\* The sum of the tallies when the tally of one test changes.
LEMMA TalliedUpdate ==
  ASSUME total \in [Test -> Nat], NEW t \in Test, NEW n \in Nat,
         total' = [total EXCEPT ![t] = n]
  PROVE  Tallied \in Nat /\ Tallied' = Tallied - total[t] + n
  BY DEF Tallied, Test

\* One more row.
LEMMA RowProduct ==
  ASSUME NEW a \in Nat, NEW b \in Nat
  PROVE  a * b \in Nat /\ (a + 1) * b = a * b + b
  OBVIOUS

\* Deliver makes a reply a unit of a tally, or completes a row with it.
LEMMA DeliverCounts ==
  ASSUME TypeOK, \A u \in Test : total[u] < PerRow,
         NEW t \in Test, NEW re, Deliver(t, re)
  PROVE  /\ \A u \in Test : total'[u] < PerRow
         /\ Booked' = Booked + 1
  <1>1. /\ total \in [Test -> Nat] /\ rows \in Seq(Row) /\ Len(rows) \in Nat
        /\ total[t] \in Nat /\ total[t] < PerRow
    BY DEF TypeOK, LinkTypeOK
  <1>2. PerRow \in Nat \ {0} /\ (PerRow = 1 \/ PerRow = Runs) /\ (Runs > 1 => PerRow = Runs)
    BY RunsAssumption DEF PerRow
  <1>3. CASE RowDone(t)
    <2>1. total' = [total EXCEPT ![t] = 0] /\ Len(rows') = Len(rows) + 1
      BY <1>1, <1>3 DEF Deliver, Tally
    <2>2. total[t] + 1 = PerRow
      BY <1>1, <1>2, <1>3, RunsAssumption DEF RowDone, PerRow
    <2>3. Tallied \in Nat /\ Tallied' = Tallied - total[t] + 0
      BY <1>1, <2>1, TalliedUpdate
    <2>4. /\ Len(rows) * PerRow \in Nat
          /\ (Len(rows) + 1) * PerRow = Len(rows) * PerRow + PerRow
      BY <1>1, <1>2, RowProduct
    <2>5. \A u \in Test : total'[u] < PerRow
      BY <1>1, <1>2, <2>1
    <2> DEFINE P == Len(rows) * PerRow
               Q == (Len(rows) + 1) * PerRow
    <2> HIDE DEF P, Q
    <2>6. Q + Tallied' = P + Tallied + 1
      BY <1>1, <1>2, <2>2, <2>3, <2>4 DEF P, Q
    <2> QED  BY <2>1, <2>5, <2>6 DEF P, Q, Booked, PerRow
  <1>4. CASE ~RowDone(t)
    <2>1. total' = [total EXCEPT ![t] = total[t] + 1] /\ rows' = rows
      BY <1>4 DEF Deliver, Tally
    <2>2. total[t] + 1 < PerRow
      BY <1>1, <1>2, <1>4, RunsAssumption DEF RowDone, PerRow
    <2>3. Tallied \in Nat /\ Tallied' = Tallied - total[t] + (total[t] + 1)
      <3>1. total[t] + 1 \in Nat
        BY <1>1
      <3> QED  BY <1>1, <2>1, <3>1, TalliedUpdate, Zenon
    <2>4. \A u \in Test : total'[u] < PerRow
      BY <1>1, <2>1, <2>2
    <2>5. Len(rows) * PerRow \in Nat
      BY <1>1, <1>2, RowProduct
    <2> DEFINE P == Len(rows) * PerRow
    <2> HIDE DEF P
    <2>6. P + Tallied' = P + Tallied + 1
      BY <1>1, <2>3, <2>5 DEF P
    <2> QED  BY <2>1, <2>4, <2>6 DEF P, Booked, PerRow
  <1> QED  BY <1>3, <1>4

\* The quantities that NoReplyCountedTwice adds up.
LEMMA Quantities ==
  TypeOK =>
    /\ Booked \in Nat /\ DataIn(inbox) \in Nat /\ DataIn(outq) \in Nat
    /\ Len(wire) \in Nat /\ Len(sent) \in Nat /\ Pending \in Nat
    /\ NoReplyCountedTwice <=> Booked + Pending <= Len(sent)
  <1> SUFFICES ASSUME TypeOK
               PROVE  /\ Booked \in Nat /\ DataIn(inbox) \in Nat /\ DataIn(outq) \in Nat
                      /\ Len(wire) \in Nat /\ Len(sent) \in Nat /\ Pending \in Nat
                      /\ NoReplyCountedTwice <=> Booked + Pending <= Len(sent)
    OBVIOUS
  <1>1. DataIn(inbox) \in Nat /\ DataIn(outq) \in Nat
    BY DataInConcat DEF TypeOK, PeerTypeOK
  <1>2. Len(wire) \in Nat /\ Len(sent) \in Nat /\ Len(rows) \in Nat
    BY DEF TypeOK, PeerTypeOK, LinkTypeOK
  <1>3. Tallied \in Nat
    <2>1. total \in [Test -> Nat]
      BY DEF TypeOK, LinkTypeOK
    <2> QED  BY <2>1 DEF Tallied, Test
  <1>4. Len(rows) * PerRow \in Nat
    <2>1. PerRow \in Nat
      BY RunsAssumption DEF PerRow
    <2> QED  BY <1>2, <2>1, RowProduct
  <1> DEFINE P == Len(rows) * PerRow
  <1> HIDE DEF P
  <1>5. P \in Nat
    BY <1>4 DEF P
  <1>6. NoReplyCountedTwice <=> P + Tallied + DataIn(inbox) + DataIn(outq) + Len(wire) <= Len(sent)
    BY DEF NoReplyCountedTwice, P
  <1>7. Booked = P + Tallied
    BY DEF Booked, P
  <1> QED  BY <1>1, <1>2, <1>3, <1>5, <1>6, <1>7 DEF Pending

\* The same in the next state.
LEMMA QuantitiesNext ==
  ASSUME TypeOK'
  PROVE  /\ (Pending \in Nat)'
         /\ NoReplyCountedTwice' <=> (Booked + Pending <= Len(sent))'
  BY Quantities, PTL

\* A step that books and sends nothing and brings no reply.
LEMMA ReplyFrame ==
  ASSUME TypeOK, TypeOK', ReplyInv, UNCHANGED <<total, rows, sent>>, Pending' <= Pending
  PROVE  ReplyInv'
  <1>1. Booked' = Booked
    BY DEF Booked, Tallied, PerRow
  <1>2. Booked + Pending <= Len(sent) /\ Booked \in Nat /\ Len(sent) \in Nat
    BY Quantities DEF ReplyInv
  <1>3. Pending \in Nat /\ Pending' \in Nat
    BY Quantities, QuantitiesNext
  <1>4. (Booked + Pending <= Len(sent))'
    BY <1>1, <1>2, <1>3
  <1> QED  BY <1>4, QuantitiesNext DEF ReplyInv, PerRow

\* The peer turns a line into one reply at most, and moves replies.
LEMMA ReplyPeer ==
  ASSUME TypeOK, OneDataEach, PeerNext
  PROVE  Pending' <= Pending
  <1>1. /\ inbox \in Seq(Piece) /\ outq \in Seq(Piece) /\ wire \in Seq(WireItem)
        /\ DataIn(inbox) \in Nat /\ DataIn(outq) \in Nat /\ Len(wire) \in Nat
    BY Quantities DEF TypeOK, PeerTypeOK
  <1>2. CASE Receive
    <2>1. Len(wire') = Len(wire) - 1 /\ UNCHANGED inbox /\ Head(wire) \in WireItem
      BY <1>1, <1>2 DEF Receive
    <2>2. DataIn(outq') \in Nat /\ DataIn(outq') <= DataIn(outq) + 1
      <3> DEFINE kind == IF partial THEN Garbled ELSE Head(wire).kind
      <3>1. kind \in Line \cup {Garbled}
        BY <2>1 DEF WireItem
      <3>2. CASE Head(wire).whole
        <4>1. PICK a \in Answers[kind] : outq' = outq \o PiecesOf(a, kind)
          BY <1>2, <3>2 DEF Receive
        <4> HIDE DEF kind
        <4>2. PiecesOf(a, kind) \in Seq(Piece)
          BY <3>1, PiecesType
        <4>3. DataIn(PiecesOf(a, kind)) \in {0, 1}
          BY <3>1, DataInAnswer DEF OneDataEach
        <4>4. DataIn(outq') = DataIn(outq) + DataIn(PiecesOf(a, kind))
          BY <1>1, <4>1, <4>2, DataInConcat
        <4> QED  BY <1>1, <4>3, <4>4
      <3>3. CASE ~Head(wire).whole
        BY <1>1, <1>2, <3>3 DEF Receive
      <3> QED  BY <3>2, <3>3
    <2> QED  BY <1>1, <2>1, <2>2 DEF Pending
  <1>3. CASE Arrive
    <2>1. PICK n \in 1 .. Len(outq) :
             /\ inbox' = inbox \o SubSeq(outq, 1, n)
             /\ outq' = SubSeq(outq, n + 1, Len(outq))
      BY <1>3 DEF Arrive
    <2> DEFINE first == SubSeq(outq, 1, n)
               last  == SubSeq(outq, n + 1, Len(outq))
    <2>2. first \in Seq(Piece) /\ last \in Seq(Piece) /\ outq = first \o last
      BY <1>1
    <2> HIDE DEF first, last
    <2>3. /\ DataIn(outq) = DataIn(first) + DataIn(last)
          /\ DataIn(first) \in Nat /\ DataIn(last) \in Nat
      BY <2>2, DataInConcat
    <2>4. DataIn(inbox') = DataIn(inbox) + DataIn(first)
      BY <1>1, <2>1, <2>2, DataInConcat DEF first
    <2>5. DataIn(outq') = DataIn(last) /\ UNCHANGED wire
      BY <1>3, <2>1 DEF Arrive, last
    <2> QED  BY <1>1, <2>3, <2>4, <2>5 DEF Pending
  <1>4. CASE Ping
    <2> DEFINE piece == [code |-> "PING", re |-> None]
    <2>1. piece \in Piece /\ piece.code # "data" /\ outq' = Append(outq, piece)
      BY <1>4 DEF Ping, Piece
    <2> HIDE DEF piece
    <2>2. outq' = outq \o <<piece>> /\ <<piece>> \in Seq(Piece)
      BY <1>1, <2>1, AppendIsConcat
    <2>3. DataIn(outq') = DataIn(outq) + 0
      BY <1>1, <2>1, <2>2, DataInConcat, DataInOne
    <2> QED  BY <1>1, <1>4, <2>3 DEF Ping, Pending
  <1>5. CASE Close
    BY <1>1, <1>5 DEF Close, Pending
  <1> QED  BY <1>2, <1>3, <1>4, <1>5 DEF PeerNext

\* CommandParser takes a piece from the socket and books it at most once.
LEMMA ReplyRead ==
  ASSUME TypeOK, TypeOK', ReplyInv, ReadPiece
  PROVE  ReplyInv'
  <1> DEFINE piece == Head(inbox)
  <1>1. piece \in Piece /\ inbox = <<piece>> \o Tail(inbox) /\ Tail(inbox) \in Seq(Piece)
    BY HeadTailProperties DEF ReadPiece, TypeOK, PeerTypeOK
  <1>2. UNCHANGED <<sent, outq, wire>> /\ inbox' = Tail(inbox)
    BY DEF ReadPiece
  <1>3. CASE piece.code = "data" /\ current # None
    <2>1. Deliver(current, piece.re) /\ current \in Test
      BY <1>3 DEF ReadPiece, UnknownMessage, TypeOK, LinkTypeOK
    <2> HIDE DEF piece
    <2>2. Booked' = Booked + 1 /\ \A u \in Test : total'[u] < PerRow
      BY <2>1, DeliverCounts DEF ReplyInv
    <2>3. DataIn(inbox) = 1 + DataIn(inbox') /\ DataIn(inbox') \in Nat
      <3>1. <<piece>> \in Seq(Piece)
        BY <1>1
      <3> QED  BY <1>1, <1>2, <1>3, <3>1, DataInConcat, DataInOne
    <2>4. (Booked + Pending <= Len(sent))'
      BY <1>2, <2>2, <2>3, Quantities DEF ReplyInv, Pending
    <2> QED  BY <2>2, <2>4, QuantitiesNext DEF ReplyInv, PerRow
  <1>4. CASE ~(piece.code = "data" /\ current # None)
    <2>1. UNCHANGED <<total, rows>>
      BY <1>4 DEF ReadPiece, UnknownMessage, reportVars
    <2> HIDE DEF piece
    <2>2. Pending' <= Pending
      <3>1. <<piece>> \in Seq(Piece)
        BY <1>1
      <3>2. /\ DataIn(inbox) = DataIn(<<piece>>) + DataIn(inbox')
            /\ DataIn(<<piece>>) \in Nat /\ DataIn(inbox') \in Nat
        BY <1>1, <1>2, <3>1, DataInConcat
      <3> QED  BY <1>2, <3>2, Quantities DEF Pending
    <2> QED  BY <1>2, <2>1, <2>2, ReplyFrame
  <1> QED  BY <1>3, <1>4

LEMMA ReplyStep ==
  ASSUME TypeOK, TypeOK', OneDataEach, ReplyInv, [Next]_vars
  PROVE  ReplyInv'
  <1> USE DEF serverVars, reportVars, outsideVars, peerVars
  <1>0. UNCHANGED peerVars => Pending' <= Pending
    BY Quantities DEF Pending
  <1>1. CASE Flush
    <2>1. CASE buffer = <<>> \/ Head(buffer) = "QUIT"
      <3>1. UNCHANGED <<total, rows, sent>> /\ UNCHANGED peerVars
        BY <1>1, <2>1 DEF Flush, FlushQuit
      <3> QED  BY <1>0, <3>1, ReplyFrame
    <2>2. CASE buffer # <<>> /\ Head(buffer) # "QUIT"
      <3>1. FlushLine(Head(buffer))
        BY <1>1, <2>2 DEF Flush
      <3>2. UNCHANGED <<total, rows, inbox, outq>>
        BY <3>1 DEF FlushLine
      <3>3. CASE UNCHANGED <<sent, wire>>
        <4>1. Pending' <= Pending
          BY <3>2, <3>3, Quantities DEF Pending
        <4> QED  BY <3>2, <3>3, <4>1, ReplyFrame
      <3>4. CASE Accepted(Head(buffer)) /\ sent' = Append(sent, Head(buffer))
        <4>1. Len(wire') = Len(wire) + 1 /\ Len(sent') = Len(sent) + 1
          BY <3>4 DEF Accepted, TypeOK, LinkTypeOK, PeerTypeOK
        <4>2. Booked' = Booked
          BY <3>2 DEF Booked, Tallied
        <4>3. (Booked + Pending <= Len(sent))'
          BY <3>2, <4>1, <4>2, Quantities DEF ReplyInv, Pending
        <4> QED  BY <3>2, <4>3, QuantitiesNext DEF ReplyInv
      <3> QED  BY <3>1, <3>3, <3>4 DEF FlushLine
    <2> QED  BY <2>1, <2>2
  <1>2. CASE Poll \/ PollError \/ Check \/ ReadAgain \/ ReadEnd
    <2>1. UNCHANGED <<total, rows, sent>> /\ UNCHANGED peerVars
      BY <1>2 DEF Poll, PollError, Check, ReadAgain, ReadEnd
    <2> QED  BY <1>0, <2>1, ReplyFrame
  <1>3. CASE ReadPiece
    BY <1>3, ReplyRead
  <1>4. CASE PeerStep
    BY <1>4, ReplyPeer, ReplyFrame DEF PeerStep, linkVars
  <1>5. CASE Outside \/ UNCHANGED vars
    <2>1. UNCHANGED <<total, rows, sent>> /\ UNCHANGED peerVars
      BY <1>5 DEF Outside, TypeAhead, Signalizer, vars, linkVars
    <2> QED  BY <1>0, <2>1, ReplyFrame
  <1> QED
    BY <1>1, <1>2, <1>3, <1>4, <1>5 DEF Next, LinkNext, LinkStep, Terminated

\* Initially nothing is written, read or counted.
LEMMA ReplyInit == Init => ReplyInv
  <1> SUFFICES ASSUME Init PROVE ReplyInv
    OBVIOUS
  <1>1. /\ total = [t \in Test |-> 0] /\ rows = <<>> /\ sent = <<>>
        /\ wire = <<>> /\ outq = <<>> /\ inbox = <<>>
    BY DEF Init, LinkInit, PeerInit
  <1>2. PerRow \in Nat \ {0}
    BY RunsAssumption DEF PerRow
  <1>3. DataIn(<<>>) = 0 /\ Tallied = 0 /\ Len(<<>>) = 0
    <2>1. [code |-> "PING", re |-> None] \in Piece
      BY DEF Piece
    <2>2. DataIn(<<>>) = 0
      BY <2>1, DataInOne
    <2>3. Tallied = 0
      BY <1>1 DEF Tallied, Test
    <2> QED  BY <2>2, <2>3
  <1>4. 0 * PerRow = 0
    BY <1>2
  <1> QED  BY <1>1, <1>2, <1>3, <1>4 DEF ReplyInv, NoReplyCountedTwice

(***************************************************************************)
(* No reply is counted twice, whatever the order of the events: pieces of  *)
(* one answer read in different turns, lines written ahead of the answers, *)
(* PINGs, signals, cut lines (UnknownMessage, Deliver, Flush).  All that   *)
(* is asked of the peer is that no answer has a second line of data.       *)
(***************************************************************************)
THEOREM RepliesCountOnce == ASSUME OneDataEach PROVE Spec => []NoReplyCountedTwice
  <1>1. Init => ReplyInv
    BY ReplyInit
  <1>2. TypeOK /\ TypeOK' /\ ReplyInv /\ [Next]_vars => ReplyInv'
    BY ReplyStep
  <1>3. ReplyInv => NoReplyCountedTwice
    BY DEF ReplyInv
  <1> QED  BY <1>1, <1>2, <1>3, TypeCorrect, PTL DEF Spec

-----------------------------------------------------------------------------
(***************************************************************************)
(* When the loop alternates strictly, no tally has leftovers: for every    *)
(* grouped script, every peer that answers a test with one line of data,   *)
(* every number of runs, and whatever signals and the server's close do.   *)
(* And the program implements Report, as far as safety goes: for every     *)
(* list of tests, every --runs and every --times, and at whatever point a  *)
(* signal, an error or the server cuts the run short.                      *)
(***************************************************************************)
HIDE DEF Line, Code, ExitCode, NoticeCode, Garbled

\* Some piece of s is a reply that counts.
HasData(s) == \E i \in DOMAIN s : s[i].code = "data"

\* The answer to the last line has not been counted yet.
Owed == wire # <<>> \/ HasData(outq) \/ HasData(inbox)

\* Pieces of an answer that counts once, for the test of the last line.
Expected(s) ==
  /\ \A i \in DOMAIN s : s[i].code # "PING"
  /\ current # None =>
       /\ \A i \in DOMAIN s : s[i].code = "data" => s[i].re = current
       /\ \A i, j \in DOMAIN s : s[i].code = "data" /\ s[j].code = "data" => i = j

LastTest == IF sent # <<>> /\ Script[Len(sent)] \in Test THEN Script[Len(sent)] ELSE None

\* While the process runs, the tally of the current test is what the script
\* says of the lines whose answer was counted.
CountInv(tally) ==
  /\ Len(sent) + Len(buffer) = Len(Script)
  /\ current = LastTest
  /\ Expected(outq)
  /\ Expected(inbox)
  /\ current # None =>
       /\ wire # <<>> => Head(wire).kind = current
       /\ total[current] = IF Owed THEN tally[Len(sent) - 1] ELSE tally[Len(sent)]

TallyInv ==
  /\ \A t \in Test : own[t] = total[t]
  /\ \A t \in Test : total[t] > 0 => t = current /\ begin = t

LeftInv(tally) == TallyInv /\ (pc # "exited" => CountInv(tally))

-----------------------------------------------------------------------------
\* The next line to be written is the next one of the script, not its QUIT.
LEMMA NextLine ==
  ASSUME TypeOK, QueueInv, pc # "exited",
         Len(sent) + Len(buffer) = Len(Script), Head(buffer) # "QUIT"
  PROVE  /\ buffer # <<>> /\ Head(buffer) \in Line
         /\ Len(sent) \in Nat /\ Len(Script) \in Nat
         /\ Len(sent) + 1 < Len(Script)
         /\ Script[Len(sent) + 1] = Head(buffer)
  <1>1. sent \in Seq(Line) /\ buffer \in Seq(Line) /\ Script \in Seq(Line) /\ buffer # <<>>
    BY BufferNeverEmpty, LinkAssumption DEF TypeOK, LinkTypeOK
  <1>2. /\ Len(sent) \in Nat /\ Len(buffer) \in Nat /\ Len(Script) \in Nat
        /\ Len(buffer) > 0 /\ Head(buffer) = buffer[1] /\ Head(buffer) \in Line
    BY <1>1
  <1>3. sent \o buffer = Script
    <2>1. sent \o buffer = Script \o Pongs(Len(sent) + Len(buffer) - Len(Script))
      BY DEF QueueInv, ExitCause, QueueOrder
    <2>2. Len(sent) + Len(buffer) - Len(Script) = 0
      BY <1>2
    <2>3. Pongs(0) = <<>>
      BY PongsGrow, EmptySeq
    <2> QED  BY <1>1, <2>1, <2>2, <2>3, ConcatEmptySeq
  <1>4. (sent \o buffer)[Len(sent) + 1] = buffer[1]
    BY <1>1, <1>2, ConcatProperties
  <1>5. Script[Len(sent) + 1] = Head(buffer)
    BY <1>2, <1>3, <1>4
  <1>6. Len(sent) + 1 # Len(Script)
    BY <1>5, LinkAssumption
  <1> QED  BY <1>1, <1>2, <1>5, <1>6

\* A step that leaves lines, answers and tallies alone.
LEMMA LeftFrame ==
  ASSUME NEW tally, LeftInv(tally), pc' # "exited" => pc # "exited",
         UNCHANGED <<buffer, current, sent, reportVars, wire, outq, inbox>>
  PROVE  LeftInv(tally)'
  BY DEF LeftInv, TallyInv, CountInv, Expected, LastTest, Owed, HasData, reportVars

\* A line of a test is written: all that was counted before is settled.
LEMMA FlushCounts ==
  ASSUME TypeOK, QueueInv, AltInv, NEW tally, Grouped(tally), LeftInv(tally),
         pc = "flush", Head(buffer) # "QUIT", FlushLine(Head(buffer))
  PROVE  LeftInv(tally)'
  <1> DEFINE n    == Len(sent)
             line == Head(buffer)
  <1>1. CountInv(tally) /\ TallyInv
    BY DEF LeftInv
  <1>2. /\ n \in Nat /\ Len(Script) \in Nat /\ n + 1 < Len(Script)
        /\ buffer # <<>> /\ line \in Line /\ Script[n + 1] = line
    BY <1>1, NextLine DEF CountInv
  <1>3. wire = <<>> /\ outq = <<>> /\ inbox = <<>> /\ ~Owed
    BY DEF AltInv, Quiet, Owed, HasData
  <1>4. /\ current' = IF line \in Test THEN line ELSE current
        /\ buffer' = Tail(buffer)
        /\ UNCHANGED <<total, begin, rows, own, outq, inbox>>
    BY DEF FlushLine, reportVars
  <1>5. pc' # "exited" =>
          /\ sent' = Append(sent, line)
          /\ wire' # <<>> /\ Head(wire').kind = line
    <2>1. pc' # "exited" => Accepted(line) /\ sent' = Append(sent, line)
      BY DEF FlushLine, Stop
    <2>2. Accepted(line) => wire' # <<>> /\ Head(wire').kind = line
      BY <1>3 DEF Accepted
    <2> QED  BY <2>1, <2>2
  <1>6. /\ sent \in Seq(Line) /\ buffer \in Seq(Line) /\ total \in [Test -> Nat]
        /\ current \in Test \cup {None}
    BY DEF TypeOK, LinkTypeOK
  <1>7. sent # <<>> <=> n > 0
    BY <1>6
  <1>8. pc' # "exited" => /\ Len(sent') = n + 1 /\ sent' # <<>>
                          /\ Len(sent') + Len(buffer') = Len(Script)
    <2>1. Len(Append(sent, line)) = n + 1 /\ Append(sent, line) # <<>>
      BY <1>2, <1>6
    <2>2. Len(Tail(buffer)) = Len(buffer) - 1 /\ Len(buffer) \in Nat
      BY <1>2, <1>6
    <2>3. n + Len(buffer) = Len(Script)
      BY <1>1 DEF CountInv
    <2> HIDE DEF n, line
    <2>4. pc' # "exited" => sent' = Append(sent, line)
      BY <1>5
    <2>5. n + 1 + (Len(buffer) - 1) = Len(Script)
      BY <1>2, <2>2, <2>3
    <2> QED  BY <1>4, <2>1, <2>2, <2>4, <2>5
  <1>9. Expected(outq)' /\ Expected(inbox)'
    BY <1>3, <1>4 DEF Expected
  <1> HIDE DEF n, line
  <1>10. CASE line \in Test
    <2>1. tally[n] \in Nat /\ (tally[n] > 0 => n > 0 /\ Script[n] = line)
      <3>1. n + 1 \in 1 .. Len(Script) - 1 /\ n \in 0 .. Len(Script) /\ (n + 1) - 1 = n
        BY <1>2
      <3> QED  BY <1>2, <1>10, <3>1 DEF Grouped
    <2>2. tally[n] > 0 => current = line
      BY <1>1, <1>7, <1>10, <2>1 DEF CountInv, LastTest, n
    <2>3. current # None => total[current] = tally[n]
      BY <1>1, <1>3 DEF CountInv, n
    <2>4. line # None
      BY <1>10 DEF Test
    <2>5. total[line] = tally[n]
      <3>1. CASE current = line
        BY <2>3, <2>4, <3>1
      <3>2. CASE current # line
        <4>1. total[line] = 0
          BY <1>1, <1>6, <1>10, <3>2 DEF TallyInv
        <4> QED  BY <2>1, <2>2, <3>2, <4>1
      <3> QED  BY <3>1, <3>2
    <2>6. TallyInv'
      <3>1. \A t \in Test : total[t] > 0 => t = line /\ begin = t
        <4> SUFFICES ASSUME NEW t \in Test, total[t] > 0 PROVE t = line /\ begin = t
          OBVIOUS
        <4>1. t = current /\ begin = t /\ t # None
          BY <1>1 DEF TallyInv, Test
        <4>2. tally[n] > 0
          BY <2>3, <4>1
        <4> QED  BY <2>2, <4>1, <4>2
      <3> QED  BY <1>1, <1>4, <1>10, <3>1 DEF TallyInv
    <2>7. pc' # "exited" => CountInv(tally)'
      <3> SUFFICES ASSUME pc' # "exited" PROVE CountInv(tally)'
        OBVIOUS
      <3>1. current' = line /\ LastTest' = line
        BY <1>2, <1>4, <1>8, <1>10 DEF LastTest
      <3>2. Owed' /\ wire' # <<>> /\ Head(wire').kind = line
        BY <1>5 DEF Owed
      <3>3. total'[line] = tally[Len(sent') - 1]
        BY <1>2, <1>4, <1>8, <2>5
      <3> QED  BY <1>8, <1>9, <3>1, <3>2, <3>3 DEF CountInv
    <2> QED  BY <2>6, <2>7 DEF LeftInv
  <1>11. CASE line \notin Test
    <2>1. \A m \in 1 .. n + 1 : Script[m] \notin Test
      <3>1. n + 1 \in 1 .. Len(Script) - 1
        BY <1>2
      <3> QED  BY <1>2, <1>11, <3>1 DEF Grouped
    <2>2. current = None /\ current' = None
      <3>1. n > 0 => n \in 1 .. n + 1
        BY <1>2
      <3> QED  BY <1>1, <1>4, <1>7, <1>11, <2>1, <3>1 DEF CountInv, LastTest, n
    <2>3. TallyInv'
      BY <1>1, <1>4, <2>2 DEF TallyInv
    <2>4. pc' # "exited" => CountInv(tally)'
      BY <1>2, <1>8, <1>9, <1>11, <2>2 DEF CountInv, LastTest
    <2> QED  BY <2>3, <2>4 DEF LeftInv
  <1> QED  BY <1>10, <1>11

\* The pieces of an answer move: from the peer's hands into the socket.
LEMMA ArriveCounts ==
  ASSUME TypeOK, Alternating, AltInv, NEW tally, LeftInv(tally), pc # "exited",
         Arrive, UNCHANGED <<linkVars, outsideVars>>
  PROVE  LeftInv(tally)'
  <1>1. CountInv(tally) /\ TallyInv
    BY DEF LeftInv
  <1>2. UNCHANGED <<pc, buffer, current, sent, total, begin, own, wire>>
    BY DEF Arrive, linkVars, serverVars, reportVars
  <1>3. outq \in Seq(Piece) /\ outq # <<>> /\ inbox = <<>>
    BY DEF Arrive, AltInv, TypeOK, PeerTypeOK
  <1>4. inbox' = outq /\ outq' = <<>>
    <2>1. /\ inbox' = inbox \o SubSeq(outq, 1, Len(outq))
          /\ outq' = SubSeq(outq, Len(outq) + 1, Len(outq))
      BY DEF Arrive, Alternating
    <2> QED  BY <1>3, <2>1
  <1>5. Expected(outq)' /\ Expected(inbox)'
    BY <1>1, <1>2, <1>4 DEF CountInv, Expected
  <1>6. Owed' <=> Owed
    BY <1>2, <1>3, <1>4 DEF Owed, HasData
  <1>7. CountInv(tally)'
    BY <1>1, <1>2, <1>5, <1>6 DEF CountInv, LastTest
  <1> QED  BY <1>1, <1>2, <1>7 DEF LeftInv, TallyInv

\* The peer answers the one line it has been sent.
LEMMA ReceiveCounts ==
  ASSUME TypeOK, CountsOnce, AltInv, NEW tally, LeftInv(tally), pc # "exited",
         Receive, UNCHANGED <<linkVars, outsideVars>>
  PROVE  LeftInv(tally)'
  <1>1. CountInv(tally) /\ TallyInv
    BY DEF LeftInv
  <1>2. UNCHANGED <<pc, buffer, current, sent, total, begin, own, inbox>>
    BY DEF Receive, linkVars, serverVars, reportVars
  <1>3. /\ wire \in Seq(WireItem) /\ wire # <<>> /\ Len(wire) <= 1 /\ Head(wire).whole
        /\ outq = <<>> /\ inbox = <<>> /\ ~partial
    BY DEF Receive, AltInv, TypeOK, PeerTypeOK
  <1>4. wire' = <<>>
    BY <1>3, OneElement DEF Receive
  <1> DEFINE kind == Head(wire).kind
  <1>5. kind \in Line
    <2>1. Head(wire) \in WireItem
      BY <1>3
    <2> QED  BY <2>1 DEF WireItem
  <1>6. PICK a \in Answers[kind] : outq' = outq \o PiecesOf(a, kind)
    BY <1>3 DEF Receive
  <1> HIDE DEF kind
  <1>7. outq' = PiecesOf(a, kind)
    BY <1>3, <1>5, <1>6, PiecesType
  <1>8. /\ DOMAIN outq' = DOMAIN a
        /\ \A i \in DOMAIN a : outq'[i].code = a[i] /\ outq'[i].re = kind
    <2>1. a \in Seq(Code)
      BY <1>5, PeerAssumption
    <2> QED  BY <1>7, <2>1 DEF PiecesOf
  <1>9. \A i \in DOMAIN a : a[i] # "PING"
    BY <1>5 DEF CountsOnce
  <1>10. CASE current = None
    <2>1. Expected(outq)' /\ Expected(inbox)'
      BY <1>2, <1>3, <1>8, <1>9, <1>10 DEF Expected
    <2>2. CountInv(tally)'
      BY <1>1, <1>2, <1>10, <2>1 DEF CountInv, LastTest
    <2> QED  BY <1>1, <1>2, <2>2 DEF LeftInv, TallyInv
  <1>11. CASE current # None
    <2>1. kind = current /\ current \in Test
      BY <1>1, <1>3, <1>11 DEF CountInv, TypeOK, LinkTypeOK, kind
    <2>2. PICK i \in DOMAIN a : \A j \in DOMAIN a : a[j] = "data" <=> j = i
      BY <1>5, <2>1 DEF CountsOnce
    <2>3. Expected(outq)' /\ Expected(inbox)'
      BY <1>2, <1>3, <1>8, <1>9, <2>1, <2>2 DEF Expected
    <2>4. Owed /\ Owed'
      BY <1>3, <1>8, <2>2 DEF Owed, HasData
    <2>5. CountInv(tally)'
      BY <1>1, <1>2, <1>4, <2>3, <2>4 DEF CountInv, LastTest
    <2> QED  BY <1>1, <1>2, <2>5 DEF LeftInv, TallyInv
  <1> QED  BY <1>10, <1>11

\* A piece is read: the one with data brings the tally to its next value.
LEMMA ReadCounts ==
  ASSUME TypeOK, QueueInv, AltInv, NEW tally, Grouped(tally), LeftInv(tally), ReadPiece
  PROVE  LeftInv(tally)'
  <1> DEFINE n     == Len(sent)
             piece == Head(inbox)
  <1>1. CountInv(tally) /\ TallyInv /\ pc = "read"
    BY DEF LeftInv, ReadPiece
  <1>2. wire = <<>> /\ outq = <<>> /\ inbox # <<>> /\ inbox' = Tail(inbox)
    BY DEF AltInv, ReadPiece
  <1>3. UNCHANGED <<current, sent, wire, outq>>
    BY DEF ReadPiece
  <1>4. /\ piece = inbox[1] /\ 1 \in DOMAIN inbox
        /\ \A i \in DOMAIN inbox' : inbox'[i] = inbox[i + 1] /\ i + 1 \in DOMAIN inbox /\ i + 1 # 1
        /\ \A i \in DOMAIN inbox : i # 1 => i - 1 \in DOMAIN inbox' /\ inbox'[i - 1] = inbox[i]
    <2>1. inbox \in Seq(Piece)
      BY DEF TypeOK, PeerTypeOK
    <2>2. /\ Len(inbox) \in Nat \ {0} /\ Len(inbox') = Len(inbox) - 1
          /\ DOMAIN inbox = 1 .. Len(inbox) /\ DOMAIN inbox' = 1 .. Len(inbox')
          /\ \A i \in 1 .. Len(inbox') : inbox'[i] = inbox[i + 1]
      BY <1>2, <2>1, HeadTailProperties, EmptySeq
    <2> QED  BY <2>2
  <1> HIDE DEF piece
  <1>5. piece.code # "PING" /\ buffer' = buffer
    <2>1. piece.code # "PING"
      BY <1>1, <1>4 DEF CountInv, Expected
    <2> QED  BY <2>1 DEF ReadPiece, piece
  <1>6. Expected(outq)' /\ Expected(inbox)'
    <2>1. Expected(outq)'
      BY <1>1, <1>3 DEF CountInv, Expected
    <2>2. \A i \in DOMAIN inbox' : inbox'[i].code # "PING"
      BY <1>1, <1>4 DEF CountInv, Expected
    <2>3. ASSUME current # None
          PROVE  /\ \A i \in DOMAIN inbox' : inbox'[i].code = "data" => inbox'[i].re = current
                 /\ \A i, j \in DOMAIN inbox' :
                      inbox'[i].code = "data" /\ inbox'[j].code = "data" => i = j
      <3>1. \A i \in DOMAIN inbox' : inbox'[i].code = "data" => inbox'[i].re = current
        BY <1>1, <1>4, <2>3 DEF CountInv, Expected
      <3>2. ASSUME NEW i \in DOMAIN inbox', NEW j \in DOMAIN inbox',
                   inbox'[i].code = "data", inbox'[j].code = "data"
            PROVE  i = j
        <4>1. i + 1 = j + 1
          BY <1>1, <1>4, <2>3, <3>2 DEF CountInv, Expected
        <4>2. i \in Int /\ j \in Int
          BY <1>2, <3>2 DEF TypeOK, PeerTypeOK
        <4> QED  BY <4>1, <4>2
      <3> QED  BY <3>1, <3>2
    <2> QED  BY <1>3, <2>1, <2>2, <2>3 DEF Expected
  <1>7. CASE piece.code = "data" /\ current # None
    <2> DEFINE t == current
    <2>1. t \in Test /\ t # None
      BY <1>7 DEF TypeOK, LinkTypeOK
    <2>2. piece.re = t
      BY <1>1, <1>4, <1>7 DEF CountInv, Expected
    <2>3. Deliver(t, t)
      BY <1>7, <2>2 DEF ReadPiece, UnknownMessage, piece
    <2>4. /\ total \in [Test -> Nat] /\ own \in [Test -> Nat] /\ n \in Nat /\ Len(Script) \in Nat
          /\ (sent # <<>> <=> n > 0) /\ n < Len(Script) /\ Runs \in Int
      <3>1. sent \in Seq(Line) /\ Script \in Seq(Line) /\ Len(sent) < Len(Script)
        BY <1>1, LinkAssumption DEF TypeOK, LinkTypeOK, QueueInv, ExitCause, QueueOrder
      <3> QED  BY <3>1, RunsAssumption DEF TypeOK, LinkTypeOK
    <2>5. n > 0 /\ Script[n] = t
      BY <1>1, <2>1, <2>4 DEF CountInv, LastTest
    <2>6. total[t] = tally[n - 1]
      BY <1>1, <1>4, <1>7 DEF CountInv, Owed, HasData
    <2>7. tally[n] = IF tally[n - 1] + 1 >= Runs THEN 0 ELSE tally[n - 1] + 1
      <3>1. n \in 1 .. Len(Script) - 1
        BY <2>4, <2>5
      <3> QED  BY <2>1, <2>5, <3>1 DEF Grouped
    <2>8. ~Owed'
      <3>1. ASSUME NEW i \in DOMAIN inbox', inbox'[i].code = "data" PROVE FALSE
        <4>1. i + 1 = 1
          BY <1>1, <1>4, <1>7, <3>1 DEF CountInv, Expected
        <4> QED  BY <1>4, <4>1
      <3>2. \A i \in DOMAIN outq' : FALSE
        BY <1>2, <1>3
      <3> QED  BY <1>2, <1>3, <3>1, <3>2 DEF Owed, HasData
    <2> HIDE DEF t
    <2>9. own[t] = total[t] /\ total[t] \in Nat /\ (total[t] > 0 => begin = t)
      BY <1>1, <2>1, <2>4 DEF TallyInv
    <2>10. begin' = t
      BY <2>3, <2>9 DEF Deliver, Started
    <2>11. total' = [total EXCEPT ![t] = tally[n]]
      BY <2>3, <2>6, <2>7 DEF Deliver, Tally, RowDone
    <2>12. own' = [own EXCEPT ![t] = tally[n]]
      BY <2>3, <2>6, <2>7, <2>9 DEF Deliver, RowDone
    <2>13. TallyInv'
      <3>1. \A u \in Test : own'[u] = total'[u]
        BY <1>1, <2>4, <2>11, <2>12 DEF TallyInv
      <3>2. \A u \in Test : total'[u] > 0 => u = t
        BY <1>1, <2>4, <2>11 DEF TallyInv, t
      <3> QED  BY <1>3, <2>10, <3>1, <3>2 DEF TallyInv, t
    <2>14. total'[t] = tally[n]
      BY <2>1, <2>4, <2>11
    <2>15. CountInv(tally)'
      BY <1>1, <1>2, <1>3, <1>5, <1>6, <2>8, <2>14 DEF CountInv, LastTest, t
    <2> QED  BY <2>13, <2>15 DEF LeftInv
  <1>8. CASE ~(piece.code = "data" /\ current # None)
    <2>1. UNCHANGED <<total, begin, rows, own>>
      BY <1>8 DEF ReadPiece, UnknownMessage, reportVars, piece
    <2>2. current # None => (Owed' <=> Owed)
      <3>1. ASSUME current # None PROVE HasData(inbox') <=> HasData(inbox)
        BY <1>4, <1>8, <3>1 DEF HasData
      <3> QED  BY <1>3, <3>1 DEF Owed, HasData
    <2>3. CountInv(tally)'
      BY <1>1, <1>2, <1>3, <1>5, <1>6, <2>1, <2>2 DEF CountInv, LastTest
    <2>4. TallyInv'
      BY <1>1, <1>3, <2>1 DEF TallyInv
    <2> QED  BY <2>3, <2>4 DEF LeftInv
  <1> QED  BY <1>7, <1>8

\* The tallies keep to the script.
LEMMA LeftStep ==
  ASSUME Alternating, CountsOnce, TypeOK, QueueInv, AltInv, NEW tally, Grouped(tally),
         LeftInv(tally), [Next]_vars
  PROVE  LeftInv(tally)'
  <1>1. CASE Flush
    <2>1. buffer # <<>> /\ pc = "flush"
      BY <1>1, BufferNeverEmpty DEF Flush
    <2>2. CASE Head(buffer) = "QUIT"
      <3>1. UNCHANGED <<serverVars, reportVars, peerVars>> /\ pc' = "exited"
        BY <1>1, <2>1, <2>2 DEF Flush, FlushQuit, Stop
      <3> QED  BY <2>1, <3>1, LeftFrame DEF serverVars, peerVars
    <2>3. CASE Head(buffer) # "QUIT"
      BY <1>1, <2>1, <2>3, FlushCounts DEF Flush
    <2> QED  BY <2>2, <2>3
  <1>2. CASE Poll \/ PollError \/ Check \/ ReadAgain \/ ReadEnd
    <2>1. pc # "exited" /\ UNCHANGED <<serverVars, reportVars, peerVars>>
      BY <1>2 DEF Poll, PollError, Check, ReadAgain, ReadEnd
    <2> QED  BY <2>1, LeftFrame DEF serverVars, peerVars
  <1>3. CASE ReadPiece
    BY <1>3, ReadCounts
  <1>4. CASE Running /\ PeerStep
    <2>1. CASE Receive
      BY <1>4, <2>1, ReceiveCounts DEF Running, PeerStep
    <2>2. CASE Arrive
      BY <1>4, <2>2, ArriveCounts DEF Running, PeerStep
    <2>3. CASE Ping
      BY <2>3 DEF Ping, Alternating, TypeOK, PeerTypeOK
    <2>4. CASE Close
      BY <1>4, <2>4, LeftFrame DEF Close, PeerStep, Running, linkVars, serverVars
    <2> QED  BY <1>4, <2>1, <2>2, <2>3, <2>4 DEF PeerStep, PeerNext
  <1>5. CASE Running /\ Outside
    <2>1. UNCHANGED <<serverVars, reportVars, peerVars>>
      BY <1>5 DEF Outside, TypeAhead, Signalizer, linkVars
    <2> QED  BY <1>5, <2>1, LeftFrame DEF Running, serverVars, peerVars
  <1>6. CASE UNCHANGED vars
    BY <1>6, LeftFrame DEF vars, linkVars, serverVars, peerVars
  <1> QED
    BY <1>1, <1>2, <1>3, <1>4, <1>5, <1>6 DEF Next, LinkNext, LinkStep, Terminated

\* Nothing is counted before the first step.
LEMMA LeftInit ==
  ASSUME NEW tally, Grouped(tally), Init
  PROVE  QueueInv /\ AltInv /\ LeftInv(tally)
  <1>1. QueueInv
    BY QueueInit
  <1>2. AltInv
    BY DEF Init, LinkInit, PeerInit, AltInv, Quiet
  <1>3. TallyInv
    BY DEF Init, LinkInit, TallyInv
  <1>4. CountInv(tally)
    BY LinkAssumption DEF Init, LinkInit, PeerInit, CountInv, LastTest, Expected
  <1> QED  BY <1>1, <1>2, <1>3, <1>4 DEF LeftInv

(***************************************************************************)
(* No test finds replies of another one in its tally, nor its stopwatch    *)
(* set by another: UnknownMessage, which counts a reply for the test of    *)
(* the last line written, and Deliver, whose tallies and stopwatch outlive *)
(* a test, are right when the loop alternates.                             *)
(***************************************************************************)
THEOREM NothingLeftOver ==
  ASSUME Alternating, CountsOnce, NEW tally, Grouped(tally)
  PROVE  Spec => []NoLeftovers
  <1>1. Init => QueueInv /\ AltInv /\ LeftInv(tally)
    BY LeftInit
  <1>2. TypeOK /\ QueueInv /\ AltInv /\ LeftInv(tally) /\ [Next]_vars
          => (QueueInv /\ AltInv /\ LeftInv(tally))'
    BY QueueStep, AltStep, LeftStep
  <1>3. LeftInv(tally) => NoLeftovers
    BY DEF LeftInv, TallyInv, NoLeftovers
  <1> QED  BY <1>1, <1>2, <1>3, TypeCorrect, PTL DEF Spec

-----------------------------------------------------------------------------
\* What the first n lines leave in the tally of their test.
RunTally ==
  [n \in 0 .. Len(RunScript) |->
     IF n <= Opening \/ n = Len(RunScript) THEN 0 ELSE (n - Opening) % Iterations(Runs)]

\* The tally of every run is RunTally.
LEMMA RunGrouped ==
  ASSUME Suite \in Seq(Test), Script = RunScript
  PROVE  Grouped(RunTally)
  <1> DEFINE R == Iterations(Runs)
             O == Opening
             P == Len(Passes)
  <1>1. /\ P \in Nat /\ O \in Nat \ {0} /\ Len(Script) = O + P + 1
        /\ Passes \in Seq(Test)
        /\ \A n \in 1 .. O : Script[n] \notin Test
        /\ \A k \in 1 .. P : Script[O + k] = Passes[k] /\ Passes[k] \in Test
    BY PassesGrouped, ScriptLines, ElementOfSeq
  <1>2. /\ P > 0 => R = Runs /\ R \in Nat \ {0}
        /\ \A k \in 1 .. P : (k - 1) % R > 0 => k > 1 /\ Passes[k - 1] = Passes[k]
    BY PassesGrouped
  <1>3. /\ DOMAIN RunTally = 0 .. O + P + 1
        /\ RunTally = [n \in 0 .. O + P + 1 |-> RunTally[n]]
        /\ \A n \in 0 .. O : RunTally[n] = 0
        /\ \A k \in 1 .. P : RunTally[O + k] = k % R
        /\ RunTally[O + P + 1] = 0
    <2>1. RunTally = [n \in 0 .. O + P + 1 |->
                        IF n <= O \/ n = O + P + 1 THEN 0 ELSE (n - O) % R]
      BY <1>1 DEF RunTally
    <2> HIDE DEF R, O, P
    <2>2. \A k \in 1 .. P : /\ O + k \in 0 .. O + P + 1 /\ ~(O + k <= O) /\ O + k # O + P + 1
                            /\ (O + k) - O = k
      BY <1>1
    <2> QED  BY <1>1, <2>1, <2>2
  <1> HIDE DEF R, O, P
  <1>4. RunTally \in [0 .. O + P + 1 -> Nat]
    <2>1. \A n \in 0 .. O + P + 1 : RunTally[n] \in Nat
      <3> SUFFICES ASSUME NEW n \in 0 .. O + P + 1 PROVE RunTally[n] \in Nat
        OBVIOUS
      <3>1. CASE n <= O \/ n = O + P + 1
        <4>1. n \in 0 .. O \/ n = O + P + 1
          BY <1>1, <3>1
        <4>2. RunTally[n] = 0
          BY <1>3, <4>1
        <4> QED  BY <4>2
      <3>2. CASE n > O /\ n < O + P + 1
        <4>1. n - O \in 1 .. P /\ n = O + (n - O) /\ P > 0
          BY <1>1, <3>2
        <4>2. (n - O) % R \in Nat
          <5> DEFINE k == n - O
          <5>1. k \in Nat /\ R \in Nat \ {0}
            BY <1>2, <4>1
          <5> HIDE DEF k
          <5>2. k % R \in 0 .. R - 1
            BY <5>1, DivMod, Zenon
          <5>3. k % R \in Nat
            BY <5>1, <5>2
          <5> QED  BY <5>3 DEF k
        <4>3. RunTally[O + (n - O)] = (n - O) % R
          BY <1>3, <4>1
        <4> QED  BY <4>1, <4>2, <4>3
      <3> QED  BY <1>1, <3>1, <3>2
    <2> QED  BY <1>3, <2>1
  <1>5. ASSUME NEW n \in 1 .. O
        PROVE  /\ Script[n] \notin Test /\ RunTally[n] = 0
               /\ \A m \in 1 .. n : Script[m] \notin Test
    <2>1. n \in 0 .. O /\ \A m \in 1 .. n : m \in 1 .. O
      BY <1>1
    <2> QED  BY <1>1, <1>3, <2>1, Zenon
  <1>6. ASSUME NEW k \in 1 .. P
        PROVE  /\ Script[O + k] \in Test
               /\ RunTally[O + k - 1] > 0 => O + k > 1 /\ Script[O + k - 1] = Script[O + k]
               /\ RunTally[O + k] = IF RunTally[O + k - 1] + 1 >= Runs THEN 0
                                    ELSE RunTally[O + k - 1] + 1
    <2>1. k - 1 \in Nat /\ R = Runs /\ R \in Nat \ {0} /\ (k - 1) + 1 = k
      BY <1>1, <1>2
    <2>2. RunTally[O + k - 1] = (k - 1) % R
      <3>1. CASE k = 1
        <4>1. O + k - 1 = O /\ k - 1 = 0
          BY <1>1, <3>1
        <4>2. 0 % R = 0
          BY <2>1
        <4>3. RunTally[O] = 0
          <5>1. O \in 0 .. O
            BY <1>1
          <5> QED  BY <1>3, <5>1, Zenon
        <4> QED  BY <4>1, <4>2, <4>3
      <3>2. CASE k > 1
        <4>1. k - 1 \in 1 .. P /\ O + k - 1 = O + (k - 1)
          BY <1>1, <3>2
        <4> QED  BY <1>3, <4>1
      <3> QED  BY <1>1, <3>1, <3>2
    <2>3. RunTally[O + k] = k % R
      BY <1>3
    <2>4. k % R = IF ((k - 1) % R) + 1 >= R THEN 0 ELSE ((k - 1) % R) + 1
      BY <2>1, NextMod
    <2>5. (k - 1) % R > 0 => O + k > 1 /\ Script[O + k - 1] = Script[O + k]
      <3> SUFFICES ASSUME (k - 1) % R > 0 PROVE O + k > 1 /\ Script[O + k - 1] = Script[O + k]
        OBVIOUS
      <3>1. k > 1 /\ Passes[k - 1] = Passes[k]
        BY <1>2
      <3>2. k - 1 \in 1 .. P /\ O + k - 1 = O + (k - 1) /\ O + k > 1
        BY <1>1, <3>1
      <3> QED  BY <1>1, <3>1, <3>2
    <2> QED  BY <1>1, <2>1, <2>2, <2>3, <2>4, <2>5
  <1>7. ASSUME NEW n \in 1 .. Len(Script) - 1
        PROVE  IF Script[n] \in Test
               THEN /\ RunTally[n - 1] > 0 => n > 1 /\ Script[n - 1] = Script[n]
                    /\ RunTally[n] = IF RunTally[n - 1] + 1 >= Runs THEN 0 ELSE RunTally[n - 1] + 1
               ELSE /\ RunTally[n] = 0
                    /\ \A m \in 1 .. n : Script[m] \notin Test
    <2>1. CASE n <= O
      <3>1. n \in 1 .. O
        BY <1>1, <2>1
      <3> QED  BY <1>5, <3>1
    <2>2. CASE n > O
      <3>1. n - O \in 1 .. P /\ n = O + (n - O)
        BY <1>1, <2>2
      <3> DEFINE k == n - O
      <3>2. k \in 1 .. P /\ O + k = n /\ O + k - 1 = n - 1
        BY <1>1, <3>1
      <3> HIDE DEF k
      <3>3. /\ Script[n] \in Test
            /\ RunTally[n - 1] > 0 => n > 1 /\ Script[n - 1] = Script[n]
            /\ RunTally[n] = IF RunTally[n - 1] + 1 >= Runs THEN 0 ELSE RunTally[n - 1] + 1
        BY <1>6, <3>2
      <3> QED  BY <3>3, Zenon
    <2> QED  BY <1>1, <2>1, <2>2
  <1>8. RunTally[0] = 0
    <2>1. 0 \in 0 .. O
      BY <1>1
    <2> QED  BY <1>3, <2>1, Zenon
  <1> QED  BY <1>1, <1>4, <1>7, <1>8 DEF Grouped

(***************************************************************************)
(* For every list of tests, every --runs and every --times, the tallies of *)
(* a run hold no leftovers, as long as the loop alternates: no test counts *)
(* a reply to another one, nor is timed from it.                           *)
(***************************************************************************)
THEOREM RunLeavesNothing ==
  ASSUME Alternating, CountsOnce, Script = RunScript
  PROVE  Spec => []NoLeftovers
  BY RunGrouped, NothingLeftOver, SuiteTests

-----------------------------------------------------------------------------
\* The lines whose answer has been counted.
Counted == IF Owed THEN Len(sent) - 1 ELSE Len(sent)

\* While the process runs, the table has a row for every --runs of them.
RowInv ==
  pc # "exited" =>
    Len(rows) = IF current = None THEN 0 ELSE (Counted - Opening) \div Iterations(Runs)

-----------------------------------------------------------------------------
\* The quotient of the next number.
LEMMA NextDiv ==
  ASSUME NEW a \in Nat, NEW R \in Nat \ {0}
  PROVE  (a + 1) \div R = IF (a % R) + 1 >= R THEN (a \div R) + 1 ELSE a \div R
  <1> DEFINE q == a \div R
             r == a % R
             b == a + 1
  <1>1. a = R * q + r /\ r \in 0 .. R - 1 /\ q \in Nat /\ R * q \in Nat
    BY DivMod, Zenon
  <1> HIDE DEF q, r
  <1>2. CASE r + 1 < R
    <2> DEFINE t == r + 1
    <2>1. t \in 0 .. R - 1 /\ b = R * q + t
      BY <1>1, <1>2
    <2> HIDE DEF b, t
    <2>2. b \div R = q
      BY <1>1, <2>1, DivModUnique, Zenon
    <2> QED  BY <1>1, <1>2, <2>2 DEF b, q, r
  <1>3. CASE r + 1 >= R
    <2> DEFINE p == q + 1
    <2>1. r + 1 = R /\ p \in Nat /\ R * p = R * q + R
      BY <1>1, <1>3
    <2>2. b = R * p + 0 /\ 0 \in 0 .. R - 1
      BY <1>1, <2>1
    <2> HIDE DEF b, p
    <2>3. b \div R = p
      BY <2>1, <2>2, DivModUnique, Zenon
    <2> QED  BY <1>3, <2>3 DEF b, p, q, r
  <1> QED  BY <1>1, <1>2, <1>3

\* Each round of --runs lines of the passes is one row of the table.
LEMMA RowPlaces ==
  ASSUME Suite \in Seq(Test)
  PROVE  /\ Len(ExpectedRows) \in Nat /\ Iterations(Runs) \in Nat
         /\ Len(Passes) = Iterations(Runs) * Len(ExpectedRows)
         /\ \A a \in 0 .. Len(Passes) - 1 :
              /\ Iterations(Runs) = Runs /\ Runs \in Nat \ {0}
              /\ (a \div Iterations(Runs)) + 1 \in 1 .. Len(ExpectedRows)
              /\ ExpectedRows[(a \div Iterations(Runs)) + 1] = Passes[a + 1]
  <1> DEFINE R == Iterations(Runs)
             L == Len(Suite)
             T == Iterations(Times)
             M == Len(ExpectedRows)
             N == IF Runs > 0 THEN T * L ELSE 0
  <1>1. R \in Nat /\ T \in Nat /\ L \in Nat /\ Runs \in Int /\ R = IF Runs > 0 THEN Runs ELSE 0
    BY RunsAssumption, WorkloadAssumption DEF Iterations
  <1>2. L * R \in Nat /\ T * L \in Nat
    <2> HIDE DEF R, L, T
    <2> QED  BY <1>1
  <1>3. M = N /\ M \in Nat /\ ExpectedRows = [i \in 1 .. N |-> Suite[((i - 1) % L) + 1]]
    <2>1. N \in Nat
      BY <1>2
    <2>2. ExpectedRows = [i \in 1 .. N |-> Suite[((i - 1) % L) + 1]]
      BY Zenon DEF ExpectedRows, N, T, L
    <2> HIDE DEF N
    <2> QED  BY <2>1, <2>2
  <1>4. Len(Pass) = L * R /\ Pass = [i \in 1 .. L * R |-> Suite[((i - 1) \div R) + 1]]
    <2> HIDE DEF R, L
    <2> QED  BY <1>2 DEF Pass, R, L
  <1>5. T * (L * R) \in Nat
    <2> DEFINE Q == L * R
    <2> HIDE DEF T, Q
    <2>1. Q \in Nat
      BY <1>2 DEF Q
    <2>2. T * Q \in Nat
      BY <1>1, <2>1
    <2> QED  BY <2>2 DEF Q
  <1>6. /\ Len(Passes) = T * (L * R)
        /\ \A i \in 1 .. T * (L * R) : Passes[i] = Pass[((i - 1) % (L * R)) + 1]
    <2> DEFINE Q == Len(Pass)
               K == T * Q
    <2>1. Passes = [i \in 1 .. K |-> Pass[((i - 1) % Q) + 1]]
      BY Zenon DEF Passes, T
    <2>2. K \in Nat /\ K = T * (L * R) /\ Q = L * R
      BY <1>4, <1>5
    <2> HIDE DEF K, Q, R, L, T
    <2>3. Len(Passes) = K /\ \A i \in 1 .. K : Passes[i] = Pass[((i - 1) % Q) + 1]
      BY <2>1, <2>2
    <2> QED  BY <2>2, <2>3, Zenon
  <1> HIDE DEF R, L, T, M
  <1>7. Len(Passes) = R * M
    <2>1. CASE Runs > 0
      <3>1. T * (L * R) = R * (T * L)
        BY <1>1
      <3> QED  BY <1>3, <1>6, <2>1, <3>1
    <2>2. CASE ~(Runs > 0)
      <3>1. R = 0 /\ M = 0
        BY <1>1, <1>3, <2>2
      <3>2. T * (L * 0) = 0 /\ 0 * 0 = 0
        BY <1>1
      <3> QED  BY <1>6, <3>1, <3>2
    <2> QED  BY <2>1, <2>2
  <1>8. ASSUME NEW a \in 0 .. Len(Passes) - 1
        PROVE  /\ R = Runs /\ Runs \in Nat \ {0}
               /\ (a \div R) + 1 \in 1 .. M
               /\ ExpectedRows[(a \div R) + 1] = Passes[a + 1]
    <2>1. a \in Nat /\ a < R * M /\ R * M \in Nat
      BY <1>5, <1>6, <1>7
    <2>2. R # 0 /\ M # 0
      BY <1>1, <1>3, <2>1
    <2>3. Runs > 0 /\ R = Runs /\ R \in Nat \ {0} /\ M = T * L
      BY <1>1, <1>3, <2>2
    <2>4. L \in Nat \ {0}
      BY <1>1, <2>2, <2>3
    <2> DEFINE q == a \div R
               r == a % R
    <2>5. a = R * q + r /\ r \in 0 .. R - 1 /\ q \in Nat /\ R * q \in Nat
      BY <2>1, <2>3, DivMod, Zenon
    <2> HIDE DEF q, r
    <2>6. q < M
      <3>1. M < q => R * M + R <= R * q
        BY <1>3, <2>3, <2>5, Multiples
      <3>2. R * q <= a /\ M \in Nat /\ R \in Nat
        BY <1>3, <2>3, <2>5
      <3>3. q # M
        BY <2>1, <2>5, <3>2
      <3>4. ~(M < q)
        BY <2>1, <2>5, <3>1, <3>2
      <3> QED  BY <2>5, <3>2, <3>3, <3>4
    <2> DEFINE Q == L * R
               b == a % Q
    <2>7. Q \in Nat \ {0}
      <3>1. R * 0 + R <= R * L
        BY <2>3, <2>4, Multiples
      <3>2. L * R > 0
        BY <1>1, <2>3, <3>1
      <3> QED  BY <1>2, <3>2
    <2>8. b \in 0 .. Q - 1
      <3> HIDE DEF Q
      <3> QED  BY <2>1, <2>7, DivMod
    <2>9. b \div R = q % L
      <3>1. ((R * q + r) % (L * R)) \div R = q % L
        BY <2>3, <2>4, <2>5, PlaceInSuite, Zenon
      <3> QED  BY <2>5, <3>1
    <2>10. Passes[a + 1] = Pass[b + 1]
      <3>1. a + 1 \in 1 .. T * (L * R) /\ (a + 1) - 1 = a
        BY <1>5, <1>6
      <3> QED  BY <1>6, <3>1
    <2>11. Pass[b + 1] = Suite[(b \div R) + 1]
      <3>1. b + 1 \in 1 .. L * R /\ (b + 1) - 1 = b
        BY <2>7, <2>8
      <3> QED  BY <1>4, <3>1
    <2>12. ExpectedRows[q + 1] = Suite[(q % L) + 1]
      <3>1. q + 1 \in 1 .. N /\ (q + 1) - 1 = q
        BY <1>3, <2>5, <2>6
      <3> QED  BY <1>3, <3>1
    <2>13. q + 1 \in 1 .. M
      BY <1>3, <2>5, <2>6
    <2> QED  BY <2>3, <2>9, <2>10, <2>11, <2>12, <2>13 DEF q
  <1> QED  BY <1>1, <1>3, <1>7, <1>8 DEF R, M

\* Without replies to count there is no row.
LEMMA TableEmpty ==
  ASSUME Len(ExpectedRows) > 0
  PROVE  Runs > 0
  <1> SUFFICES ASSUME ~(Runs > 0) PROVE FALSE
    OBVIOUS
  <1>1. ExpectedRows = [i \in 1 .. 0 |-> Suite[((i - 1) % Len(Suite)) + 1]]
    BY DEF ExpectedRows
  <1>2. Len(ExpectedRows) = 0
    BY <1>1
  <1> QED  BY <1>2

-----------------------------------------------------------------------------
\* While a test is current, the last line written is one of the passes.
LEMMA InPasses ==
  ASSUME TypeOK, QueueInv, pc # "exited", CountInv(RunTally), current # None,
         Suite \in Seq(Test), Script = RunScript
  PROVE  /\ current \in Test /\ Len(sent) \in Nat /\ Opening \in Nat
         /\ Len(sent) - Opening \in 1 .. Len(Passes)
         /\ Passes[Len(sent) - Opening] = current
  <1> DEFINE n == Len(sent)
             k == n - Opening
  <1>1. sent \in Seq(Line) /\ Script \in Seq(Line) /\ n < Len(Script) /\ current \in Test
    <2>1. sent \in Seq(Line) /\ current \in Test
      BY DEF TypeOK, LinkTypeOK
    <2>2. exit = None
      BY DEF QueueInv, ExitCause
    <2>3. n < Len(Script)
      BY <2>2 DEF QueueInv, QueueOrder
    <2> QED  BY <2>1, <2>3, LinkAssumption
  <1>2. sent # <<>> /\ Script[n] = current /\ Script[n] \in Test
    BY DEF CountInv, LastTest
  <1>3. n \in Nat \ {0}
    BY <1>1, <1>2
  <1>4. /\ Opening \in Nat \ {0} /\ Len(Passes) \in Nat
        /\ Len(Script) = Opening + Len(Passes) + 1
        /\ \A m \in 1 .. Opening : Script[m] \notin Test
        /\ \A j \in 1 .. Len(Passes) : Script[Opening + j] = Passes[j]
    BY ScriptLines, PassesGrouped
  <1> HIDE DEF n
  <1>5. n > Opening
    BY <1>2, <1>3, <1>4
  <1>6. k \in 1 .. Len(Passes) /\ n = Opening + k
    BY <1>1, <1>3, <1>4, <1>5
  <1>7. Script[Opening + k] = Passes[k]
    BY <1>4, <1>6
  <1> QED  BY <1>1, <1>2, <1>3, <1>4, <1>6, <1>7 DEF n

\* A line is written: it adds no row.
LEMMA FlushRows ==
  ASSUME TypeOK, QueueInv, AltInv, LeftInv(RunTally), RowInv,
         Suite \in Seq(Test), Script = RunScript,
         pc = "flush", Head(buffer) # "QUIT", FlushLine(Head(buffer))
  PROVE  RowInv'
  <1> DEFINE n    == Len(sent)
             line == Head(buffer)
             R    == Iterations(Runs)
  <1> SUFFICES ASSUME pc' # "exited" PROVE RowInv'
    BY DEF RowInv
  <1>1. CountInv(RunTally)
    BY DEF LeftInv
  <1>2. /\ n \in Nat /\ Len(Script) \in Nat /\ n + 1 < Len(Script)
        /\ line \in Line /\ Script[n + 1] = line
    BY <1>1, NextLine DEF CountInv
  <1>3. ~Owed
    BY DEF AltInv, Quiet, Owed, HasData
  <1>4. /\ sent' = Append(sent, line) /\ wire' # <<>> /\ rows' = rows
        /\ current' = IF line \in Test THEN line ELSE current
    <2>1. Accepted(line) /\ sent' = Append(sent, line)
      BY DEF FlushLine, Stop
    <2>2. wire' # <<>>
      BY <2>1 DEF Accepted
    <2> QED  BY <2>1, <2>2 DEF FlushLine, reportVars
  <1>5. sent \in Seq(Line) /\ Len(sent') = n + 1
    BY <1>4 DEF TypeOK, LinkTypeOK
  <1>6. Counted' = n
    BY <1>2, <1>4, <1>5 DEF Counted, Owed
  <1>7. Len(rows) = IF current = None THEN 0 ELSE (n - Opening) \div R
    BY <1>3 DEF RowInv, Counted
  <1>8. /\ Opening \in Nat \ {0} /\ Len(Passes) \in Nat
        /\ Len(Script) = Opening + Len(Passes) + 1
        /\ \A m \in 1 .. Opening : Script[m] \notin Test
        /\ \A j \in 1 .. Len(Passes) : Script[Opening + j] = Passes[j] /\ Passes[j] \in Test
        /\ Len(Passes) > 0 => R \in Nat \ {0}
    BY ScriptLines, PassesGrouped, ElementOfSeq
  <1>9. sent # <<>> <=> n > 0
    BY <1>5
  <1>10. current = LastTest
    BY <1>1 DEF CountInv
  <1> HIDE DEF n, line, R
  <1>11. CASE line \in Test
    <2>1. current' = line /\ line # None
      BY <1>4, <1>11 DEF Test
    <2>2. current = None => (n - Opening) \div R = 0
      <3> SUFFICES ASSUME current = None PROVE (n - Opening) \div R = 0
        OBVIOUS
      <3>1. n >= Opening /\ Len(Passes) > 0
        BY <1>2, <1>8, <1>11
      <3>2. ~(n > Opening)
        <4> SUFFICES ASSUME n > Opening PROVE FALSE
          OBVIOUS
        <4>1. n - Opening \in 1 .. Len(Passes) /\ n = Opening + (n - Opening) /\ n > 0
          BY <1>2, <1>8
        <4>2. Script[n] \in Test
          BY <1>8, <4>1
        <4>3. LastTest = Script[n]
          BY <1>9, <4>1, <4>2 DEF LastTest, n
        <4> QED  BY <1>10, <4>2, <4>3 DEF Test
      <3>3. n - Opening = 0
        BY <1>2, <1>8, <3>1, <3>2
      <3>4. 0 \div R = 0
        BY <1>8, <3>1
      <3> QED  BY <3>3, <3>4
    <2> QED  BY <1>4, <1>6, <1>7, <2>1, <2>2 DEF RowInv, R, Opening, LogIn
  <1>12. CASE line \notin Test
    <2>1. \A m \in 1 .. n + 1 : Script[m] \notin Test
      <3>1. n + 1 \in 1 .. Len(Script) - 1
        BY <1>2
      <3> QED  BY <1>2, <1>12, <3>1, RunGrouped DEF Grouped
    <2>2. current = None
      <3>1. n > 0 => n \in 1 .. n + 1
        BY <1>2
      <3> QED  BY <1>9, <1>10, <2>1, <3>1 DEF LastTest, n
    <2> QED  BY <1>4, <1>7, <1>12, <2>2 DEF RowInv
  <1> QED  BY <1>11, <1>12

\* The answer to the last line is counted: the row it may complete is the
\* next one of the table, and all of it this test's own.
LEMMA CountRows ==
  ASSUME TypeOK, QueueInv, LeftInv(RunTally), RowInv, Suite \in Seq(Test), Script = RunScript,
         pc # "exited", current # None, Owed, UNCHANGED <<pc, exit, sent, current>>, ~Owed',
         Deliver(current, current)
  PROVE  RowInv' /\ [Promise!Next]_<<rows, Outcome>>
  <1> DEFINE k == Len(sent) - Opening
             R == Iterations(Runs)
             t == current
  <1>1. CountInv(RunTally) /\ TallyInv
    BY DEF LeftInv
  <1>2. t \in Test /\ k \in 1 .. Len(Passes) /\ Passes[k] = t /\ Len(sent) = Opening + k
    BY <1>1, InPasses
  <1>3. /\ k - 1 \in 0 .. Len(Passes) - 1 /\ k - 1 \in Nat /\ (k - 1) + 1 = k
        /\ Len(sent) - 1 - Opening = k - 1
    <2>1. Opening \in Nat /\ Len(sent) \in Nat /\ Len(Passes) \in Nat
      BY <1>1, InPasses, PassesGrouped
    <2> QED  BY <1>2, <2>1
  <1>4. Len(rows) = (k - 1) \div R /\ (RowInv' <=> Len(rows') = k \div R)
    <2>1. Len(rows) = (Len(sent) - 1 - Opening) \div R
      BY DEF RowInv, Counted
    <2>2. RowInv' <=> Len(rows') = (Len(sent) - Opening) \div R
      BY DEF RowInv, Counted, Opening, LogIn
    <2> QED  BY <1>3, <2>1, <2>2
  <1>5. /\ R = Runs /\ R \in Nat \ {0} /\ Len(ExpectedRows) \in Nat
        /\ ((k - 1) \div R) + 1 \in 1 .. Len(ExpectedRows)
        /\ ExpectedRows[((k - 1) \div R) + 1] = t
    BY <1>2, <1>3, RowPlaces
  <1>6. total[t] = (k - 1) % R
    <2>1. total[t] = RunTally[Len(sent) - 1]
      BY <1>1 DEF CountInv
    <2>2. RunTally[Len(sent) - 1] = (k - 1) % R
      <3>1. /\ Len(Script) = Opening + Len(Passes) + 1 /\ Opening \in Nat \ {0}
            /\ Len(Passes) \in Nat
        BY ScriptLines, PassesGrouped
      <3> DEFINE m == Len(sent) - 1
      <3>2. m = Opening + (k - 1) /\ m - Opening = k - 1 /\ m \in Nat
        BY <1>2, <1>3, <3>1
      <3> HIDE DEF k
      <3>3. m \in 0 .. Len(RunScript) /\ m # Len(RunScript)
        BY <1>2, <3>1, <3>2
      <3> HIDE DEF m
      <3>4. RunTally[m] = IF m <= Opening THEN 0 ELSE (m - Opening) % R
        BY <3>3 DEF RunTally
      <3>5. CASE k = 1
        <4>1. 0 % R = 0
          BY <1>5
        <4>2. k - 1 = 0 /\ m <= Opening
          BY <3>1, <3>2, <3>5
        <4> QED  BY <3>4, <4>1, <4>2 DEF m
      <3>6. CASE k # 1
        <4>1. ~(m <= Opening)
          BY <1>2, <3>1, <3>2, <3>6
        <4> QED  BY <3>2, <3>4, <4>1 DEF m
      <3> QED  BY <3>5, <3>6
    <2> QED  BY <2>1, <2>2
  <1>7. /\ own[t] = total[t] /\ (total[t] > 0 => begin = t)
        /\ rows \in Seq(Row) /\ total[t] \in Nat
    BY <1>1, <1>2 DEF TallyInv, TypeOK, LinkTypeOK
  <1>8. k \div R = IF total[t] + 1 >= R THEN ((k - 1) \div R) + 1 ELSE (k - 1) \div R
    BY <1>3, <1>5, <1>6, NextDiv
  <1>9. Outcome = "running" /\ UNCHANGED Outcome
    BY DEF Outcome, QueueInv, ExitCause
  <1>10. Started(t) = t
    BY <1>7 DEF Started
  <1>11. total[t] + 1 <= R
    <2>1. (k - 1) % R \in 0 .. R - 1
      BY <1>3, <1>5, DivMod
    <2> QED  BY <1>5, <1>6, <2>1
  <1> HIDE DEF k, R, t
  <1>12. CASE total[t] + 1 >= R
    <2>1. RowDone(t) /\ own[t] + 1 = Runs
      BY <1>5, <1>7, <1>11, <1>12 DEF RowDone
    <2>2. rows' = Append(rows, [test |-> t, begin |-> t, own |-> Runs])
      BY <1>10, <2>1 DEF Deliver, t
    <2>3. Len(rows') = Len(rows) + 1
      BY <1>7, <2>2
    <2>4. Promise!PrintRow
      <3>1. /\ Len(rows) < Len(ExpectedRows)
            /\ rows' = Append(rows, Promise!FullRow(ExpectedRows[Len(rows) + 1]))
        BY <1>4, <1>5, <2>2 DEF Promise!FullRow
      <3> QED  BY <1>9, <3>1 DEF Promise!PrintRow
    <2> QED  BY <1>4, <1>8, <1>12, <2>3, <2>4 DEF Promise!Next
  <1>13. CASE ~(total[t] + 1 >= R)
    <2>1. rows' = rows
      BY <1>5, <1>13 DEF Deliver, RowDone, t
    <2> QED  BY <1>4, <1>8, <1>9, <1>13, <2>1
  <1> QED  BY <1>12, <1>13

\* A piece is read.
LEMMA ReadRows ==
  ASSUME TypeOK, QueueInv, AltInv, LeftInv(RunTally), RowInv,
         Suite \in Seq(Test), Script = RunScript, LeftInv(RunTally)', QueueInv', ReadPiece
  PROVE  RowInv' /\ [Promise!Next]_<<rows, Outcome>>
  <1> DEFINE piece == Head(inbox)
  <1>1. CountInv(RunTally) /\ pc = "read" /\ exit = None
    BY DEF LeftInv, ReadPiece, QueueInv, ExitCause
  <1>2. inbox # <<>> /\ inbox' = Tail(inbox) /\ UNCHANGED <<sent, current, wire, outq>>
    BY DEF ReadPiece
  <1>3. /\ piece = inbox[1] /\ 1 \in DOMAIN inbox
        /\ \A i \in DOMAIN inbox' : inbox'[i] = inbox[i + 1] /\ i + 1 \in DOMAIN inbox /\ i + 1 # 1
        /\ \A i \in DOMAIN inbox : i # 1 => i - 1 \in DOMAIN inbox' /\ inbox'[i - 1] = inbox[i]
    <2>1. inbox \in Seq(Piece)
      BY DEF TypeOK, PeerTypeOK
    <2>2. /\ Len(inbox) \in Nat \ {0} /\ Len(inbox') = Len(inbox) - 1
          /\ DOMAIN inbox = 1 .. Len(inbox) /\ DOMAIN inbox' = 1 .. Len(inbox')
          /\ \A i \in 1 .. Len(inbox') : inbox'[i] = inbox[i + 1]
      BY <1>2, <2>1, HeadTailProperties, EmptySeq
    <2> QED  BY <2>2
  <1> HIDE DEF piece
  <1>4. CASE piece.code = "data" /\ current # None
    <2>1. piece.re = current
      BY <1>1, <1>3, <1>4 DEF CountInv, Expected
    <2>2. Deliver(current, current) /\ UNCHANGED <<pc, exit>>
      BY <1>4, <2>1 DEF ReadPiece, UnknownMessage, ExitCode, piece
    <2>3. Owed
      BY <1>3, <1>4 DEF Owed, HasData
    <2>4. ~Owed'
      <3>1. ASSUME NEW i \in DOMAIN inbox', inbox'[i].code = "data" PROVE FALSE
        <4>1. i + 1 = 1
          BY <1>1, <1>3, <1>4, <3>1 DEF CountInv, Expected
        <4> QED  BY <1>3, <4>1
      <3>2. wire = <<>> /\ outq = <<>>
        BY <1>1, <1>2 DEF AltInv, ReadPiece
      <3> QED  BY <1>2, <3>1, <3>2 DEF Owed, HasData
    <2> QED  BY <1>1, <1>2, <1>4, <2>2, <2>3, <2>4, CountRows
  <1>5. CASE ~(piece.code = "data" /\ current # None)
    <2>1. rows' = rows
      BY <1>5 DEF ReadPiece, UnknownMessage, reportVars, piece
    <2>2. current # None => (Owed' <=> Owed)
      <3>1. ASSUME current # None PROVE HasData(inbox') <=> HasData(inbox)
        BY <1>3, <1>5, <3>1 DEF HasData
      <3> QED  BY <1>2, <3>1 DEF Owed, HasData
    <2>3. RowInv'
      BY <1>1, <1>2, <2>1, <2>2 DEF RowInv, Counted, Opening, LogIn
    <2>4. Outcome' = Outcome \/ Promise!Abort
      BY <1>1, <2>1 DEF ReadPiece, Stop, Outcome, Promise!Abort
    <2> QED  BY <2>1, <2>3, <2>4 DEF Promise!Next
  <1> QED  BY <1>4, <1>5

\* QUIT is reached with the table complete.
LEMMA QuitFinishes ==
  ASSUME TypeOK, QueueInv, AltInv, LeftInv(RunTally), RowInv,
         Suite \in Seq(Test), Script = RunScript,
         pc = "flush", buffer # <<>>, Head(buffer) = "QUIT", FlushQuit
  PROVE  Promise!Finish
  <1> DEFINE n == Len(sent)
  <1>1. CountInv(RunTally) /\ exit = None
    BY DEF LeftInv, QueueInv, ExitCause
  <1>2. ~Owed
    BY DEF AltInv, Quiet, Owed, HasData
  <1>3. /\ Opening \in Nat \ {0} /\ Len(Passes) \in Nat
        /\ Len(Script) = Opening + Len(Passes) + 1
        /\ \A j \in 1 .. Len(Passes) : Script[Opening + j] = Passes[j] /\ Passes[j] \in Test
        /\ Len(Passes) > 0 => Iterations(Runs) \in Nat \ {0}
    BY ScriptLines, PassesGrouped, ElementOfSeq
  <1>4. n = Opening + Len(Passes) /\ sent \in Seq(Line)
    <2>1. sent \in Seq(Line) /\ buffer \in Seq(Line) /\ Script \in Seq(Line)
      BY LinkAssumption DEF TypeOK, LinkTypeOK
    <2>2. n < Len(Script) /\ n + Len(buffer) = Len(Script) /\ sent \o buffer = Script \o Pongs(0)
      <3>1. n + Len(buffer) = Len(Script)
        BY <1>1 DEF CountInv
      <3>2. n < Len(Script) /\ sent \o buffer = Script \o Pongs(n + Len(buffer) - Len(Script))
        BY <1>1 DEF QueueInv, QueueOrder
      <3>3. n + Len(buffer) - Len(Script) = 0
        BY <2>1, <3>1
      <3> QED  BY <3>1, <3>2, <3>3
    <2>3. Pongs(0) = <<>>
      BY PongsGrow, EmptySeq
    <2>4. sent \o buffer = Script
      BY <2>1, <2>2, <2>3, ConcatEmptySeq
    <2>5. (sent \o buffer)[n + 1] = buffer[1] /\ buffer[1] = Head(buffer)
      BY <2>1, ConcatProperties
    <2>6. Script[n + 1] = "QUIT"
      BY <2>4, <2>5
    <2>7. ~(n + 1 \in 1 .. Len(Script) - 1)
      BY <2>6, LinkAssumption
    <2>8. n \in Nat /\ n < Len(Script) /\ Len(Script) = Opening + Len(Passes) + 1
      BY <1>3, <2>1, <2>2
    <2> HIDE DEF n
    <2>9. n = Opening + Len(Passes)
      BY <1>3, <2>7, <2>8
    <2> QED  BY <2>1, <2>9
  <1>5. Len(rows) = IF current = None THEN 0 ELSE (n - Opening) \div Iterations(Runs)
    BY <1>2 DEF RowInv, Counted
  <1>6. /\ Len(ExpectedRows) \in Nat /\ Iterations(Runs) \in Nat
        /\ Len(Passes) = Iterations(Runs) * Len(ExpectedRows)
    BY RowPlaces
  <1>7. Len(rows) = Len(ExpectedRows)
    <2>1. CASE Len(Passes) > 0
      <3>1. current # None
        <4>1. Script[n] = Passes[Len(Passes)] /\ Passes[Len(Passes)] \in Test
          BY <1>3, <1>4, <2>1
        <4>2. sent # <<>>
          BY <1>3, <1>4
        <4> QED  BY <1>1, <4>1, <4>2 DEF CountInv, LastTest, Test
      <3> DEFINE R == Iterations(Runs)
                 M == Len(ExpectedRows)
                 P == Len(Passes)
      <3>2. R \in Nat \ {0} /\ M \in Nat /\ P = R * M + 0 /\ 0 \in 0 .. R - 1 /\ n - Opening = P
        BY <1>3, <1>4, <1>6, <2>1
      <3> HIDE DEF R, M, P
      <3>3. P \div R = M
        BY <3>2, DivModUnique, Zenon
      <3> QED  BY <1>5, <3>1, <3>2, <3>3 DEF R, M
    <2>2. CASE Len(Passes) = 0
      <3>1. current = None
        <4>1. current # None => Len(Passes) > 0
          <5>1. current # None => Len(sent) - Opening \in 1 .. Len(Passes)
            BY <1>1, InPasses
          <5> QED  BY <1>3, <5>1
        <4> QED  BY <2>2, <4>1
      <3>2. Len(ExpectedRows) = 0
        <4>1. ASSUME Len(ExpectedRows) > 0 PROVE FALSE
          <5>1. 1 \in 1 .. Len(ExpectedRows) /\ Runs > 0
            BY <1>6, <4>1, TableEmpty
          <5>2. Iterations(Runs) > 0
            BY <5>1 DEF Iterations
          <5> DEFINE R == Iterations(Runs)
                     M == Len(ExpectedRows)
          <5>3. R \in Nat /\ M \in Nat /\ R > 0 /\ M > 0 /\ R * M = 0
            BY <1>6, <2>2, <4>1, <5>2
          <5> HIDE DEF R, M
          <5>4. R * 0 + R <= R * M
            BY <5>3, Multiples
          <5> QED  BY <5>3, <5>4
        <4> QED  BY <1>6, <4>1
      <3> QED  BY <1>5, <3>1, <3>2
    <2> QED  BY <1>3, <2>1, <2>2
  <1>8. Outcome = "running" /\ Outcome' = "finished" /\ rows' = rows
    BY <1>1 DEF FlushQuit, Stop, Outcome, reportVars
  <1> QED  BY <1>7, <1>8 DEF Promise!Finish

\* A step that prints no row and counts no answer, and may end the process.
LEMMA RowFrame ==
  ASSUME QueueInv, RowInv, pc # "exited",
         UNCHANGED <<current, sent, rows, Counted>>, exit' \in {exit} \cup (Exit \ {None, "quit"})
  PROVE  RowInv' /\ [Promise!Next]_<<rows, Outcome>>
  <1>1. exit = None
    BY DEF QueueInv, ExitCause
  <1>2. Outcome' = Outcome \/ Promise!Abort
    BY <1>1 DEF Outcome, Promise!Abort
  <1>3. RowInv'
    BY DEF RowInv, Opening, LogIn
  <1> QED  BY <1>2, <1>3 DEF Promise!Next

\* What the peer does while a test is current leaves its answer owed.
LEMMA OwedStays ==
  ASSUME Alternating, CountsOnce, TypeOK, AltInv, LeftInv(RunTally), pc # "exited",
         current # None, PeerStep
  PROVE  Owed' <=> Owed
  <1>1. CountInv(RunTally) /\ current \in Test
    BY DEF LeftInv, TypeOK, LinkTypeOK
  <1>2. CASE Receive
    <2>1. Owed
      BY <1>2 DEF Receive, Owed
    <2>2. /\ wire # <<>> /\ Head(wire).kind = current /\ Head(wire).whole
          /\ outq = <<>> /\ ~partial
      BY <1>1, <1>2 DEF Receive, AltInv, CountInv
    <2>3. PICK a \in Answers[current] : outq' = outq \o PiecesOf(a, current)
      BY <1>2, <2>2 DEF Receive
    <2>4. a \in Seq(Code) /\ current \in Line
      BY <1>1, PeerAssumption DEF Line
    <2>5. outq' = PiecesOf(a, current)
      BY <2>2, <2>3, <2>4, PiecesType
    <2>6. PICK i \in DOMAIN a : a[i] = "data"
      BY <1>1, <2>4 DEF CountsOnce
    <2>7. i \in DOMAIN outq' /\ outq'[i].code = "data"
      BY <2>4, <2>5, <2>6 DEF PiecesOf
    <2> QED  BY <2>1, <2>7 DEF Owed, HasData
  <1>3. CASE Arrive
    <2>1. outq \in Seq(Piece) /\ outq # <<>> /\ inbox = <<>> /\ wire' = wire
      BY <1>3 DEF Arrive, AltInv, TypeOK, PeerTypeOK
    <2>2. /\ inbox' = inbox \o SubSeq(outq, 1, Len(outq))
          /\ outq' = SubSeq(outq, Len(outq) + 1, Len(outq))
      BY <1>3 DEF Arrive, Alternating
    <2>3. inbox' = outq /\ outq' = <<>>
      BY <2>1, <2>2
    <2> QED  BY <2>1, <2>3 DEF Owed, HasData
  <1>4. CASE Ping
    BY <1>4 DEF Ping, Alternating, TypeOK, PeerTypeOK
  <1>5. CASE Close
    BY <1>5 DEF Close, Owed, HasData
  <1> QED  BY <1>2, <1>3, <1>4, <1>5 DEF PeerStep, PeerNext

\* Every step is one of Report, or none.
LEMMA PromiseStep ==
  ASSUME Alternating, CountsOnce, TypeOK, QueueInv, AltInv, LeftInv(RunTally), RowInv,
         Suite \in Seq(Test), Script = RunScript, [Next]_vars
  PROVE  RowInv' /\ [Promise!Next]_<<rows, Outcome>>
  <1>1. CASE Flush
    <2>1. buffer # <<>> /\ pc = "flush" /\ exit = None
      BY <1>1, BufferNeverEmpty DEF Flush, QueueInv, ExitCause
    <2>2. CASE Head(buffer) = "QUIT"
      <3>1. FlushQuit /\ pc' = "exited"
        BY <1>1, <2>1, <2>2 DEF Flush, FlushQuit, Stop
      <3>2. Promise!Finish
        BY <2>1, <2>2, <3>1, QuitFinishes
      <3> QED  BY <3>1, <3>2 DEF RowInv, Promise!Next
    <2>3. CASE Head(buffer) # "QUIT"
      <3>1. FlushLine(Head(buffer))
        BY <1>1, <2>1, <2>3 DEF Flush
      <3>2. RowInv'
        BY <2>1, <2>3, <3>1, FlushRows
      <3>3. rows' = rows /\ exit' \in {exit, "write"}
        BY <3>1 DEF FlushLine, Stop, reportVars
      <3>4. Outcome' = Outcome \/ Promise!Abort
        BY <2>1, <3>3 DEF Outcome, Promise!Abort
      <3> QED  BY <3>2, <3>3, <3>4 DEF Promise!Next
    <2> QED  BY <2>2, <2>3
  <1>2. CASE Poll \/ PollError \/ Check \/ ReadAgain \/ ReadEnd
    <2>1. /\ pc # "exited" /\ UNCHANGED <<serverVars, reportVars, peerVars>>
          /\ exit' \in {exit, "signal", "poll", "eof", "read"}
      BY <1>2 DEF Poll, PollError, Check, ReadAgain, ReadEnd, Stop
    <2>2. UNCHANGED Counted
      BY <2>1 DEF Counted, Owed, HasData, serverVars, peerVars
    <2> QED  BY <2>1, <2>2, RowFrame DEF serverVars, reportVars, Exit
  <1>3. CASE ReadPiece
    <2>1. LeftInv(RunTally)' /\ QueueInv'
      BY <1>3, LeftStep, QueueStep, RunGrouped
    <2> QED  BY <1>3, <2>1, ReadRows
  <1>4. CASE Running /\ PeerStep
    <2>1. pc # "exited" /\ UNCHANGED <<pc, exit, current, sent, rows>>
      BY <1>4 DEF Running, PeerStep, linkVars, serverVars, reportVars
    <2>2. current # None => (Owed' <=> Owed)
      BY <1>4, <2>1, OwedStays
    <2>3. RowInv' /\ UNCHANGED <<rows, Outcome>>
      BY <2>1, <2>2 DEF RowInv, Counted, Outcome, Opening, LogIn
    <2> QED  BY <2>3
  <1>5. CASE Running /\ Outside
    <2>1. UNCHANGED <<serverVars, reportVars, peerVars>> /\ pc # "exited" /\ exit' = exit
      BY <1>5 DEF Outside, TypeAhead, Signalizer, linkVars, Running
    <2>2. UNCHANGED Counted
      BY <2>1 DEF Counted, Owed, HasData, serverVars, peerVars
    <2> QED  BY <2>1, <2>2, RowFrame DEF serverVars, reportVars
  <1>6. CASE UNCHANGED vars
    <2>1. UNCHANGED <<pc, exit, current, sent, rows, wire, outq, inbox>>
      BY <1>6 DEF vars, linkVars, serverVars, reportVars, peerVars
    <2> QED  BY <2>1 DEF RowInv, Counted, Owed, HasData, Outcome, Opening, LogIn
  <1> QED
    BY <1>1, <1>2, <1>3, <1>4, <1>5, <1>6 DEF Next, LinkNext, LinkStep, Terminated

(***************************************************************************)
(* What a user is promised is what the program does, as long as the loop   *)
(* alternates: the rows come in the order of the table, one for each test  *)
(* of each pass, each counting --runs replies to its own test and timed by *)
(* them; reaching QUIT means that the table is complete; any other end     *)
(* leaves the printed rows as they are.  (The safety part of KeepsPromise: *)
(* the initial states of Report, and its steps or none.)                   *)
(***************************************************************************)
THEOREM RunKeepsPromise ==
  ASSUME Alternating, CountsOnce, Script = RunScript
  PROVE  Spec => Promise!Init /\ [][Promise!Next]_<<rows, Outcome>>
  <1>1. Init => QueueInv /\ AltInv /\ LeftInv(RunTally) /\ RowInv /\ Promise!Init
    <2> SUFFICES ASSUME Init
                 PROVE  QueueInv /\ AltInv /\ LeftInv(RunTally) /\ RowInv /\ Promise!Init
      OBVIOUS
    <2>1. QueueInv /\ AltInv /\ LeftInv(RunTally)
      BY LeftInit, RunGrouped, SuiteTests
    <2>2. rows = <<>> /\ exit = None /\ current = None
      BY DEF Init, LinkInit
    <2>3. RowInv
      BY <2>2 DEF RowInv
    <2>4. Promise!Init
      BY <2>2 DEF Promise!Init, Outcome
    <2> QED  BY <2>1, <2>3, <2>4
  <1>2. TypeOK /\ QueueInv /\ AltInv /\ LeftInv(RunTally) /\ RowInv /\ [Next]_vars
          => /\ (QueueInv /\ AltInv /\ LeftInv(RunTally) /\ RowInv)'
             /\ [Promise!Next]_<<rows, Outcome>>
    BY QueueStep, AltStep, LeftStep, PromiseStep, RunGrouped, SuiteTests
  <1> QED  BY <1>1, <1>2, TypeCorrect, PTL DEF Spec
=============================================================================
