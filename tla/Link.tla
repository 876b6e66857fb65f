-------------------------------- MODULE Link --------------------------------
(***************************************************************************)
(* Kernel->Link, the object of class Server: the loop of                   *)
(* Server::Initialize and all that it calls.  One turn of the loop writes  *)
(* at most one line of the buffer, blocks in poll() on stdin and on the    *)
(* socket, looks for a signal, and drains the socket if it was readable.   *)
(* Nothing ties a reply to its line but this alternation.                  *)
(***************************************************************************)
EXTENDS Peer

CONSTANTS
  Script,      \* the lines queued before the loop starts
  Fitting,     \* the kinds of line that Write queues with their CRLF
  SendCap,     \* whole lines that the kernel's send buffer takes
  PollErrors   \* the ways poll() may fail for itself: "again", "fail"

\* A line of MSG_LIMIT bytes or more loses its end in vsnprintf.
ASSUME LinkAssumption ==
  /\ Script \in Seq(Line)
  /\ Script # <<>>
  /\ Script[Len(Script)] = "QUIT"
  /\ \A i \in 1 .. Len(Script) - 1 : Script[i] \notin {"QUIT", "PONG"}
  /\ Fitting \subseteq Line
  /\ SendCap \in Nat
  /\ PollErrors \subseteq {"again", "fail"}

VARIABLES
  pc,         \* where the loop stands: "poll" is blocked in poll()
  event,      \* why poll() returned: revents, or errno
  buffer,     \* Server::buffer
  current,    \* Server::current, the test of the last line written
  total,      \* Server::total_get, total_set, ...
  begin,      \* Server::begin, named by the test whose reply set it
  rows,       \* the final rows printed by Deliver
  Connected,  \* Emerald::Connected
  s_signal,   \* Emerald::s_signal
  typed,      \* stdin is readable (or at end of file); nothing reads it
  exit        \* why the process exited
  
VARIABLES     \* history: no step reads these
  own,        \* replies in each tally that do answer that test
  sent,       \* the lines written, in order
  late        \* lines written since s_signal was set

serverVars  == <<buffer, current, sent, late>>
reportVars  == <<total, begin, rows, own>>
linkVars    == <<pc, event, Connected, exit, serverVars, reportVars>>
outsideVars == <<s_signal, typed>>
vars        == <<linkVars, outsideVars, peerVars>>

Row   == [test : Test, begin : Test, own : Nat]
Event == {None, "conn", "stdin", "intr", "again", "fail"}
Exit  == {None, "quit", "signal", "eof", "read", "write", "poll", "server"}

LinkTypeOK ==
  /\ pc \in {"flush", "poll", "check", "read", "exited"}
  /\ event \in Event
  /\ buffer \in Seq(Line)
  /\ current \in Test \cup {None}
  /\ total \in [Test -> Nat]
  /\ begin \in Test \cup {None}
  /\ rows \in Seq(Row)
  /\ Connected \in BOOLEAN
  /\ s_signal \in {None, "SIGINT", "SIGTERM"}
  /\ typed \in BOOLEAN
  /\ exit \in Exit
  /\ own \in [Test -> Nat]
  /\ sent \in Seq(Line)
  /\ late \in Nat

LinkInit ==
  /\ pc = "flush"
  /\ event = None
  /\ buffer = Script
  /\ current = None
  /\ total = [t \in Test |-> 0]
  /\ begin = None
  /\ rows = <<>>
  /\ Connected = FALSE
  /\ s_signal = None
  /\ typed = FALSE
  /\ exit = None
  /\ own = [t \in Test |-> 0]
  /\ sent = <<>>
  /\ late = 0

-----------------------------------------------------------------------------
(***************************************************************************)
(* An operator whose name ends in _Slip is a plausible slip in the code of *)
(* the definition after it; no action uses it.  Put in the place of that   *)
(* definition it breaks a property, which shows that the property depends  *)
(* on what the code does there.                                            *)
(***************************************************************************)

\* exit(0), wherever the code calls it; the status is always 0.
Stop(why) == pc' = "exited" /\ exit' = why

Write_Slip(line) == <<line>> \o buffer       \* push_front

\* Write: the line joins the buffer, whoever asks for it; malloc does not fail.
Write(line) == Append(buffer, line)

\* The line QUIT is a mark, never written: the process ends on reaching it.
FlushQuit ==
  /\ Stop("quit")
  /\ Connected' = FALSE
  /\ UNCHANGED <<event, serverVars, reportVars, peerVars>>

(***************************************************************************)
(* One write() of a popped line.  Only a negative result is looked at: a   *)
(* short write drops the rest of the line, a full buffer (EAGAIN) or a     *)
(* connection the server has closed is the end of the process.  A write    *)
(* just after the server closed may still succeed.                         *)
(***************************************************************************)
Accepted(line) ==
  \/ /\ Len(wire) < SendCap
     /\ wire' = Append(wire, [kind |-> line, whole |-> line \in Fitting])
  \/ /\ Len(wire) = SendCap
     /\ wire' = Append(wire, [kind |-> line, whole |-> FALSE])

Refused == Len(wire) >= SendCap \/ closed

FlushLine(line) ==
  /\ buffer' = Tail(buffer)
  /\ current' = IF line \in Test THEN line ELSE current
  /\ \/ /\ Accepted(line)
        /\ sent' = Append(sent, line)
        /\ late' = IF s_signal = None THEN 0 ELSE late + 1
        /\ pc' = "poll"
        /\ UNCHANGED exit
     \/ /\ Refused
        /\ Stop("write")
        /\ UNCHANGED <<sent, late, wire>>
  /\ UNCHANGED <<event, Connected, reportVars, partial, outq, inbox, closed, pings>>

Flush ==
  /\ pc = "flush"
  /\ IF buffer = <<>>
     THEN pc' = "poll" /\ UNCHANGED <<event, Connected, exit, serverVars, reportVars, peerVars>>
     ELSE IF Head(buffer) = "QUIT" THEN FlushQuit ELSE FlushLine(Head(buffer))
  /\ UNCHANGED outsideVars

-----------------------------------------------------------------------------
Readable == inbox # <<>> \/ closed

Poll_Slip ==                                 \* a timeout of 0
  /\ pc = "poll"
  /\ event' = IF Readable THEN "conn" ELSE "stdin"
  /\ pc' = "check"
  /\ UNCHANGED <<Connected, exit, serverVars, reportVars, outsideVars, peerVars>>

\* poll() returns: revents is a snapshot, Check acts on it later.
Poll ==
  /\ pc = "poll"
  /\ Readable \/ typed
  /\ event' = IF Readable THEN "conn" ELSE "stdin"
  /\ pc' = "check"
  /\ UNCHANGED <<Connected, exit, serverVars, reportVars, outsideVars, peerVars>>

\* poll() fails.
PollError ==
  /\ pc = "poll"
  /\ event' \in PollErrors
  /\ pc' = "check"
  /\ UNCHANGED <<Connected, exit, serverVars, reportVars, outsideVars, peerVars>>

SignalSeen_Slip == event = "intr"            \* looked at only when r == -1

\* SignalManager exits for every signal that can be caught.
SignalSeen == s_signal # None

\* After poll(), whatever it returned.
Check ==
  /\ pc = "check"
  /\ IF SignalSeen THEN Stop("signal")
     ELSE /\ CASE event = "conn"               -> pc' = "read"  /\ exit' = exit
               [] event \in {"stdin", "again"} -> pc' = "flush" /\ exit' = exit
               [] OTHER                        -> Stop("poll")
  /\ event' = None
  /\ UNCHANGED <<Connected, serverVars, reportVars, outsideVars, peerVars>>

-----------------------------------------------------------------------------
Started_Slip(t) == IF begin = None THEN t ELSE begin   \* set once for all

Started_Slip2(t) == IF total[t] = 1 THEN t ELSE begin   \* set by the second

Started_Slip3(t) ==                          \* taken back with each row
  IF total[t] + 1 >= Runs THEN None ELSE Started_Slip2(t)

\* The stopwatch after a reply counted for t: the first one starts it.
Started(t) == IF total[t] + 1 = 1 THEN t ELSE begin

RowDone_Slip(t) == total[t] + 1 > Runs       \* <= for <

\* Whether a reply counted for t completes a row.
RowDone(t) == total[t] + 1 >= Runs

Tally_Slip(t) == total[t] + 1                \* no *counter = 0

\* The tally of t after one more reply.
Tally(t) == IF RowDone(t) THEN 0 ELSE total[t] + 1

\* Deliver, for a reply to a line of kind re, counted for test t.
Deliver(t, re) ==
  LET mine == own[t] + (IF re = t THEN 1 ELSE 0)
  IN  /\ begin' = Started(t)
      /\ total' = [total EXCEPT ![t] = Tally(t)]
      /\ IF RowDone(t)
         THEN /\ rows' = Append(rows, [test |-> t, begin |-> Started(t), own |-> mine])
              /\ own' = [own EXCEPT ![t] = 0]
         ELSE /\ rows' = rows
              /\ own' = [own EXCEPT ![t] = mine]

\* UnknownMessage: a reply belongs to the test of the last line written.
UnknownMessage(piece) ==
  IF piece.code = "data" /\ current # None
  THEN Deliver(current, piece.re)
  ELSE UNCHANGED reportVars

\* CommandParser on the next piece of the stream.
ReadPiece ==
  /\ pc = "read"
  /\ inbox # <<>>
  /\ inbox' = Tail(inbox)
  /\ LET piece == Head(inbox)
     IN  /\ buffer' = IF piece.code = "PING" THEN Write("PONG") ELSE buffer
         /\ IF piece.code \in ExitCode THEN Stop("server") ELSE UNCHANGED <<pc, exit>>
         /\ Connected' = (Connected \/ piece.code = "BRLD_CONNECTED")
         /\ UnknownMessage(piece)
  /\ UNCHANGED <<event, current, sent, late, outsideVars, wire, partial, outq, closed, pings>>

ReadAgain_Slip ==                            \* past the Flush of the loop
  /\ pc = "read"
  /\ inbox = <<>>
  /\ ~closed
  /\ pc' = "poll"
  /\ UNCHANGED <<event, Connected, exit, serverVars, reportVars, outsideVars, peerVars>>

\* read() has nothing more: back to the top of the loop.
ReadAgain ==
  /\ pc = "read"
  /\ inbox = <<>>
  /\ ~closed
  /\ pc' = "flush"
  /\ UNCHANGED <<event, Connected, exit, serverVars, reportVars, outsideVars, peerVars>>

\* read() returns 0 once the stream is drained, or fails (a reset).
ReadEnd ==
  /\ pc = "read"
  /\ closed
  /\ \/ inbox = <<>> /\ Stop("eof")
     \/ Stop("read")
  /\ UNCHANGED <<event, Connected, serverVars, reportVars, outsideVars, peerVars>>

LinkStep == \/ Flush
            \/ Poll \/ Check
            \/ ReadPiece \/ ReadAgain \/ ReadEnd

LinkNext == LinkStep \/ PollError
=============================================================================
