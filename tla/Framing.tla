------------------------------- MODULE Framing ------------------------------
(***************************************************************************)
(* HandleMessage cuts the byte stream of the socket into the frames that   *)
(* CommandParser is given.  The static buffered_message keeps what has no  *)
(* CRLF yet from one read() to the next, and from one call to the next.    *)
(* Bytes are only told apart as CR, LF and the rest; Link takes over from  *)
(* here, with a frame as one piece.                                        *)
(***************************************************************************)
EXTENDS Integers, Sequences, FiniteSets

CONSTANTS
  Limit,       \* MSG_LIMIT, the size of buffered_message
  Streams      \* the byte streams that the server may send

Byte == {"cr", "lf", "other"}

ASSUME FramingAssumption ==
  /\ Limit \in Nat
  /\ Limit >= 2
  /\ Streams \subseteq Seq(Byte)

VARIABLES
  pc,                \* "read" at the read(), "scan" in the loop over the bytes
  coming,            \* bytes that read() has not returned yet
  buffered_message,  \* its first message_end bytes
  i,                 \* the index of the scan, from 0
  frames,            \* what CommandParser was called with
  done               \* history: the bytes that read() has returned

framingVars == <<pc, coming, buffered_message, i, frames, done>>

message_end == Len(buffered_message)

\* (As in Link, a definition ending in _Slip is a plausible slip in the code
\* of the one after it, and not part of the model.)

FramingTypeOK ==
  /\ pc \in {"read", "scan"}
  /\ coming \in Seq(Byte)
  /\ buffered_message \in Seq(Byte)
  /\ message_end <= Limit
  /\ i \in Nat
  /\ frames \in Seq(Seq(Byte))
  /\ done \in Seq(Byte)

Init ==
  /\ pc = "read"
  /\ coming \in Streams
  /\ buffered_message = <<>>
  /\ i = 0
  /\ frames = <<>>
  /\ done = <<>>

Room_Slip == Limit                           \* the whole buffer every time

\* The bytes that read() is asked for.
Room == Limit - message_end

\* read() returns some of what has come, as much as there is room for.
Read ==
  /\ pc = "read"
  /\ \E n \in 1 .. Len(coming) :
       /\ n <= Room
       /\ buffered_message' = buffered_message \o SubSeq(coming, 1, n)
       /\ done' = done \o SubSeq(coming, 1, n)
       /\ coming' = SubSeq(coming, n + 1, Len(coming))
  /\ i' = message_end
  /\ pc' = "scan"
  /\ UNCHANGED frames

AtCRLF_Slip == i # 0 /\ buffered_message[i + 1] = "lf"     \* the CR not asked for

\* buffered_message[i - 1] and buffered_message[i] are a CRLF.
AtCRLF == /\ i # 0
          /\ buffered_message[i] = "cr"
          /\ buffered_message[i + 1] = "lf"

Resume_Slip == 2                             \* i = 1, as if ++i came first

\* Where the scan goes on after a frame: i = 0, and then the loop's ++i.
Resume == 1

\* A frame is complete: it is parsed and the rest moves to the front.
Cut ==
  /\ pc = "scan"
  /\ i < message_end
  /\ AtCRLF
  /\ frames' = Append(frames, SubSeq(buffered_message, 1, i + 1))
  /\ buffered_message' = SubSeq(buffered_message, i + 2, message_end)
  /\ i' = Resume
  /\ UNCHANGED <<pc, coming, done>>

Skip ==
  /\ pc = "scan"
  /\ i < message_end
  /\ ~AtCRLF
  /\ i' = i + 1
  /\ UNCHANGED <<pc, coming, buffered_message, frames, done>>

Full_Slip == FALSE                           \* no check of the limit

Full_Slip2 == message_end + 1 >= Limit       \* a byte early

\* A buffer that is full without a CRLF is thrown away.
Full == message_end = Limit

\* All is looked at: back to read().
ScanDone ==
  /\ pc = "scan"
  /\ i >= message_end
  /\ buffered_message' = IF Full THEN <<>> ELSE buffered_message
  /\ i' = 0
  /\ pc' = "read"
  /\ UNCHANGED <<coming, frames, done>>

\* read() has no more to return: EAGAIN, until the server sends again.
Waiting == pc = "read" /\ coming = <<>> /\ UNCHANGED framingVars

Next == Read \/ Cut \/ Skip \/ ScanDone \/ Waiting

Spec == Init /\ [][Next]_framingVars

-----------------------------------------------------------------------------
(***************************************************************************)
(* read() is never asked for zero bytes: the 0 it would return is taken    *)
(* for the end of the connection, and the process exits.                   *)
(***************************************************************************)
ReadAsksForBytes == pc = "read" => Room > 0

(***************************************************************************)
(* No frame is left behind in the buffer when HandleMessage goes back to   *)
(* read(), although the scan skips index 0 and starts in the middle.       *)
(***************************************************************************)
NothingLeftBehind ==
  pc = "read" =>
    \A k \in 1 .. message_end - 1 :
      ~(buffered_message[k] = "cr" /\ buffered_message[k + 1] = "lf")

(***************************************************************************)
(* What CommandParser is given is one message, never two in one and never  *)
(* half of one's end, and no longer than the buffer: its strtok calls stop *)
(* at the first CR and would drop whatever came behind it.                 *)
(***************************************************************************)
FramesWhole ==
  \A n \in DOMAIN frames :
    LET frame == frames[n]
    IN  /\ Len(frame) \in 2 .. Limit
        /\ \A k \in 1 .. Len(frame) - 1 :
             (frame[k] = "cr" /\ frame[k + 1] = "lf") <=> k = Len(frame) - 1

(***************************************************************************)
(* The frames depend on the bytes alone, not on how they were cut up by    *)
(* read(): they are what one pass over the whole stream gives.  A message  *)
(* longer than Limit loses as many blocks of Limit bytes as do not contain *)
(* its end; a lone LF that is left of it is joined to the next message.    *)
(***************************************************************************)
Ends(s) == {k \in 2 .. Len(s) : s[k - 1] = "cr" /\ s[k] = "lf"}

\* The end of the last message of s before position k.
Before(s, k) == LET earlier == {e \in Ends(s) : e < k}
                IN  IF earlier = {} THEN 0 ELSE CHOOSE e \in earlier : \A f \in earlier : f <= e

\* The bytes that remain of a message of n bytes once whole blocks are lost.
Remains(n) == ((n - 1) % Limit) + 1

\* Whether all that remains of the message that ends at k is its LF.
LoneLF(s) ==
  LET lone[k \in 0 .. Len(s)] ==
        IF k \notin Ends(s) THEN FALSE
        ELSE LET from == Before(s, k)
             IN  Remains(k - from + (IF lone[from] THEN 1 ELSE 0)) = 1
  IN  lone

\* The end positions of the messages of which a frame remains, and the frames.
FrameEnds(s) == {k \in Ends(s) : ~LoneLF(s)[k]}

FrameAt(s, k) ==
  LET from  == Before(s, k)
      first == IF LoneLF(s)[from] THEN from - 1 ELSE from
  IN  SubSeq(s, k - Remains(k - first) + 1, k)

FramesExact ==
  pc = "read" =>
    /\ Len(frames) = Cardinality(FrameEnds(done))
    /\ \A k \in FrameEnds(done) :
         frames[Cardinality({e \in FrameEnds(done) : e <= k})] = FrameAt(done, k)
=============================================================================
