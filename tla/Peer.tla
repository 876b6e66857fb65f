-------------------------------- MODULE Peer --------------------------------
(***************************************************************************)
(* The other side of the connection: the BerylDB server and the two byte   *)
(* streams of the TCP connection to it.  Neither is part of this           *)
(* repository; they are modelled from how the client uses them.  The       *)
(* server reads lines in order and answers each with some of the sequences *)
(* of pieces that Answers allows; TCP keeps the order of the pieces and    *)
(* decides which of them reach the client's socket together.               *)
(***************************************************************************)
EXTENDS Protocol

CONSTANTS
  Answers,     \* for each kind of line, the answers the server may give
  Segmented,   \* whether one answer may arrive in several segments
  MaxPings,    \* bound: unsolicited PING frames in a behaviour
  MayClose     \* whether the server may close the connection

\* A line the server cannot make sense of: the rest of a torn line and
\* the line after it, read as one.
Garbled == "garbled"

ASSUME PeerAssumption ==
  /\ Answers \in [Line \cup {Garbled} -> SUBSET Seq(Code)]
  /\ Segmented \in BOOLEAN
  /\ MaxPings \in Nat
  /\ MayClose \in BOOLEAN

VARIABLES
  wire,      \* client to server: what write() accepted and the server has not read
  partial,   \* the server holds the beginning of a line without its CRLF
  outq,      \* server to client: sent and not yet in the client's socket
  inbox,     \* server to client: what read() would return now
  closed,    \* the server has closed and the client's socket is at end of file
  pings      \* PING frames sent so far

peerVars == <<wire, partial, outq, inbox, closed, pings>>

(***************************************************************************)
(* A written line is whole when its CRLF went with it.  A piece of the     *)
(* reply stream carries the kind of line it answers; the client cannot see *)
(* that, only the properties use it.                                       *)
(***************************************************************************)
WireItem  == [kind : Line, whole : BOOLEAN]
Piece     == [code : Code, re : Line \cup {Garbled, None}]

PeerTypeOK ==
  /\ wire \in Seq(WireItem)
  /\ partial \in BOOLEAN
  /\ outq \in Seq(Piece)
  /\ inbox \in Seq(Piece)
  /\ closed \in BOOLEAN
  /\ pings \in Nat

PeerInit ==
  /\ wire = <<>>
  /\ partial = FALSE
  /\ outq = <<>>
  /\ inbox = <<>>
  /\ closed = FALSE
  /\ pings = 0

\* The pieces of answer a, given to a line of kind k.
PiecesOf(a, k) == [i \in 1 .. Len(a) |-> [code |-> a[i], re |-> k]]

\* The server reads the next bytes and answers if they complete a line.
Receive ==
  /\ ~closed
  /\ wire # <<>>
  /\ wire' = Tail(wire)
  /\ partial' = ~Head(wire).whole
  /\ LET kind == IF partial THEN Garbled ELSE Head(wire).kind
     IN  IF Head(wire).whole
         THEN \E a \in Answers[kind] : outq' = outq \o PiecesOf(a, kind)
         ELSE UNCHANGED outq
  /\ UNCHANGED <<inbox, closed, pings>>

\* A segment arrives; without segmentation it is all that was sent.
Arrive ==
  /\ \E n \in 1 .. Len(outq) :
       /\ Segmented \/ n = Len(outq)
       /\ inbox' = inbox \o SubSeq(outq, 1, n)
       /\ outq' = SubSeq(outq, n + 1, Len(outq))
  /\ UNCHANGED <<wire, partial, closed, pings>>

\* The server's keepalive, sent whenever it likes.
Ping ==
  /\ ~closed
  /\ pings < MaxPings
  /\ pings' = pings + 1
  /\ outq' = Append(outq, [code |-> "PING", re |-> None])
  /\ UNCHANGED <<wire, partial, inbox, closed>>

\* The server closes; its last bytes arrive before the end of file.
Close ==
  /\ MayClose
  /\ ~closed
  /\ outq = <<>>
  /\ closed' = TRUE
  /\ UNCHANGED <<wire, partial, outq, inbox, pings>>

PeerNext == Receive \/ Arrive \/ Ping \/ Close
=============================================================================
