------------------------------ MODULE Benchmark -----------------------------
(***************************************************************************)
(* The running program: Link's loop, the peer and the stream between them, *)
(* the user's terminal and the signals.  The process and the peer take     *)
(* their steps in any order; nothing of the peer matters once the process  *)
(* has exited.                                                             *)
(***************************************************************************)
EXTENDS Link, FiniteSets

CONSTANTS
  Typing,     \* whether stdin may become readable
  Signals     \* the signals that may be sent to the process

ASSUME BenchmarkAssumption ==
  /\ Typing \in BOOLEAN
  /\ Signals \subseteq {"SIGINT", "SIGTERM"}

Init == LinkInit /\ PeerInit

\* A line is typed, or stdin reaches its end.
TypeAhead ==
  /\ Typing
  /\ ~typed
  /\ typed' = TRUE
  /\ UNCHANGED <<linkVars, s_signal, peerVars>>

(***************************************************************************)
(* Emerald::Signalizer runs in the middle of anything.  A poll() that is   *)
(* blocked returns with EINTR; anywhere else only the flag is left behind, *)
(* and a poll() entered after it blocks all the same.                      *)
(***************************************************************************)
Signalizer(signal) ==
  /\ s_signal' = signal
  /\ IF pc = "poll" THEN pc' = "check" /\ event' = "intr" ELSE UNCHANGED <<pc, event>>
  /\ UNCHANGED <<Connected, exit, serverVars, reportVars, typed, peerVars>>

Outside == TypeAhead \/ \E signal \in Signals : Signalizer(signal)

PeerStep == PeerNext /\ UNCHANGED <<linkVars, outsideVars>>

Running == pc # "exited"

Terminated == ~Running /\ UNCHANGED vars

Next == \/ LinkNext
        \/ Running /\ (PeerStep \/ Outside)
        \/ Terminated

(***************************************************************************)
(* The process runs when it can; a poll() that could fail need not.  That  *)
(* the peer reads what is sent and answers, and that TCP delivers, is      *)
(* assumed of them, not of the client: it has no timeout and would wait    *)
(* for ever.                                                               *)
(***************************************************************************)
Fairness ==
  /\ WF_vars(LinkStep)
  /\ WF_vars(Running /\ Receive /\ UNCHANGED <<linkVars, outsideVars>>)
  /\ WF_vars(Running /\ Arrive /\ UNCHANGED <<linkVars, outsideVars>>)

Spec     == Init /\ [][Next]_vars
FairSpec == Spec /\ Fairness

-----------------------------------------------------------------------------
\* The type invariant of the composition.
TypeOK == LinkTypeOK /\ PeerTypeOK

(***************************************************************************)
(* Deliver only reads the stopwatch after some reply has set it: a test    *)
(* with a tally may have lost the stopwatch to another test, but there is  *)
(* a time to subtract from.  TypeOK rests on it: it says so of each row.   *)
(***************************************************************************)
StopwatchStarted == \A t \in Test : total[t] > 0 => begin # None

(***************************************************************************)
(* The peer always gives some answer to a line it has read, be it one the  *)
(* client does not understand.                                             *)
(***************************************************************************)
Answering == \A k \in DOMAIN Answers : \A a \in Answers[k] : a # <<>>

(***************************************************************************)
(* Client and server never wait for each other: while the loop blocks in   *)
(* poll() with no timeout, something is on its way that will end the wait, *)
(* or else the server holds the beginning of a line whose end was dropped  *)
(* by a short write or by vsnprintf in Write.                              *)
(***************************************************************************)
OnItsWay == wire # <<>> \/ outq # <<>> \/ inbox # <<>> \/ closed

NoMutualWait == pc = "poll" => OnItsWay \/ partial

(***************************************************************************)
(* The buffer is a queue: what was written and what still waits are the    *)
(* script and then the PONGs, in order, none lost and none repeated,       *)
(* whatever was queued by CommandParser between two writes; and since QUIT *)
(* ends the process unwritten, no PONG behind it is ever written.          *)
(***************************************************************************)
Pongs(n) == [i \in 1 .. n |-> "PONG"]

QueueOrder ==
  exit # "write" =>
    /\ Len(sent) + Len(buffer) >= Len(Script)
    /\ sent \o buffer = Script \o Pongs(Len(sent) + Len(buffer) - Len(Script))
    /\ Len(sent) < Len(Script)

(***************************************************************************)
(* A signal is not heeded before the next poll(), but then it is: between  *)
(* the handler and the exit at most one more line is written.              *)
(***************************************************************************)
SignalPrompt == late <= 1

\* Replies that make a row.
PerRow == IF Runs > 1 THEN Runs ELSE 1

\* Pieces that may count.
DataIn(pieces) == Cardinality({i \in DOMAIN pieces : pieces[i].code = "data"})

\* What the nine tallies hold together.
Tallied == total["get"] + total["lpush"] + total["vpush"] + total["hset"] + total["incr"]
             + total["set"] + total["ldel"] + total["decr"] + total["hdel"]

(***************************************************************************)
(* However the stream is cut and however far the client has run ahead, no  *)
(* reply is counted twice: the replies behind the printed rows, those in   *)
(* the tallies, those on their way and the lines still unread are together *)
(* no more than the lines written (for a peer that answers with at most    *)
(* one line of data).                                                      *)
(***************************************************************************)
NoReplyCountedTwice ==
  Len(rows) * PerRow + Tallied + DataIn(inbox) + DataIn(outq) + Len(wire) <= Len(sent)

-----------------------------------------------------------------------------
(***************************************************************************)
(* The rest holds when the loop alternates strictly: one segment for each  *)
(* line, no PING, nothing typed, no failing poll(), no line too long.      *)
(***************************************************************************)
Alternating ==
  /\ ~Segmented
  /\ MaxPings = 0
  /\ PollErrors = {}
  /\ ~Typing
  /\ Fitting = Line
  /\ SendCap >= 1
  /\ Answering

(***************************************************************************)
(* An answer counts once for a test, and asks nothing of the client.  In a *)
(* grouped script tally[n] is what the first n lines leave in the tally of *)
(* their test: nothing, when the next line is one of another test.         *)
(***************************************************************************)
CountsOnce ==
  \A k \in Line : \A a \in Answers[k] :
    /\ \A i \in DOMAIN a : a[i] # "PING"
    /\ k \in Test => \E i \in DOMAIN a : \A j \in DOMAIN a : a[j] = "data" <=> j = i

Grouped(tally) ==
  /\ tally \in [0 .. Len(Script) -> Nat]
  /\ tally[0] = 0
  /\ \A n \in 1 .. Len(Script) - 1 :
       IF Script[n] \in Test
       THEN /\ tally[n - 1] > 0 => n > 1 /\ Script[n - 1] = Script[n]
            /\ tally[n] = IF tally[n - 1] + 1 >= Runs THEN 0 ELSE tally[n - 1] + 1
       ELSE /\ tally[n] = 0
            /\ \A m \in 1 .. n : Script[m] \notin Test

(***************************************************************************)
(* No line is written before the answer to the one before it was read to   *)
(* its end, so that a send buffer of one line is enough and no write is    *)
(* ever short.                                                             *)
(***************************************************************************)
OneOutstanding ==
  /\ Len(wire) <= 1
  /\ wire # <<>> => outq = <<>> /\ inbox = <<>>
  /\ pc = "flush" => wire = <<>> /\ outq = <<>> /\ inbox = <<>>
  /\ ~partial

(***************************************************************************)
(* The tallies of UnknownMessage hold no leftovers: only the test of the   *)
(* last line has one, all of it its own replies, and the stopwatch that    *)
(* all tests share was set by it.                                          *)
(***************************************************************************)
NoLeftovers ==
  \A t \in Test : total[t] > 0 =>
    t = current /\ begin = t /\ own[t] = total[t]

(***************************************************************************)
(* Whatever the order of events, the process comes to its end, unless the  *)
(* peer waits for the end of a line that was dropped and the loop, which   *)
(* has no timeout, blocks in poll() for ever.                              *)
(***************************************************************************)
EndsOrStarves == <>(pc = "exited") \/ <>[](pc = "poll" /\ partial)

(***************************************************************************)
(* The printed rows and the way the process ends, as the user sees them.   *)
(***************************************************************************)
Outcome ==
  CASE exit = None   -> "running"
    [] exit = "quit" -> "finished"
    [] OTHER         -> "aborted"
=============================================================================
