------------------------------- MODULE Session ------------------------------
(***************************************************************************)
(* What the replies of the server do to the client, one frame after the    *)
(* other: CommandParser hands the parameters to Handlers::On*, which copy  *)
(* some of them into Emerald, print, or exit.  Printing goes through       *)
(* Daemon::Format, whose buffer is static and stays as large as it has     *)
(* become.  Replies that are counted and PING are Link's.                  *)
(***************************************************************************)
EXTENDS Reply

CONSTANTS
  FORMAT_SIZE,   \* the first size of formatBuffer, 1024 in the code
  MaxBuffer,     \* bound: the size that memory has room for
  TimeBits       \* the width of time_t

ASSUME SessionAssumption ==
  /\ FORMAT_SIZE \in Nat \ {0}
  /\ MaxBuffer \in Nat /\ MaxBuffer >= FORMAT_SIZE
  /\ TimeBits \in Nat \ {0}

VARIABLES
  config,        \* whether --use names a select of its own, and changeserv
  frames,        \* the frames that HandleMessage will still cut out
  parsed,        \* what CommandParser found in the last one
  emerald,       \* the fields of Emerald that the handlers write
  status,        \* "running", "leaving" (exit(0) is next), "exited",
                 \* "undefined" (an index behind a vector), "aborted"
  formatBuffer,  \* its size
  pending,       \* the lengths of the texts to be formatted before going on
  printed,       \* the lengths of what was printed
  asked          \* history: the lengths of what was to be printed

sessionVars == <<config, frames, parsed, emerald, status, formatBuffer, pending, printed, asked>>

host == <<"host">>
port == <<"port">>

\* display_select is read before it was ever written, unless a reply came.
NewEmerald(display) ==
  [Connected |-> FALSE, select |-> <<>>, display_select |-> display, myself |-> <<>>,
   realserver |-> <<>>, displayserver |-> <<>>, server_version |-> <<>>, server_time |-> 0]

\* changeserv is never written either.
SessionInit ==
  /\ config \in [useSelect : BOOLEAN, changeserv : BOOLEAN]
  /\ emerald \in {NewEmerald(display) : display \in BOOLEAN}
  /\ parsed = Nothing("none")
  /\ status = "running"
  /\ formatBuffer = FORMAT_SIZE
  /\ pending = <<>>
  /\ printed = <<>>
  /\ asked = <<>>

-----------------------------------------------------------------------------
\* The indices at which the handler of a code looks into its parameters.
Indices_Slip ==                              \* one further in OnMyUse
  [BRLD_CONNECTED |-> {0, 2, 3, 4}, BRLD_MYINFO |-> {2}, BRLD_QUIT |-> {0},
   BRLD_NEW_USE |-> {4}, ERR_CMD_NOFND |-> {3}]

Indices ==
  [BRLD_CONNECTED |-> {0, 2, 3, 4}, BRLD_MYINFO |-> {2}, BRLD_QUIT |-> {0},
   BRLD_NEW_USE |-> {3}, ERR_CMD_NOFND |-> {3}]

\* What is in front of the first delim.
Ahead(s, delim) == Span(s, LAMBDA c : c # delim)

\* explode: getline until the end, which gives nothing for an empty string.
explode(s, delim) ==
  LET from[p \in 1 .. Len(s) + 2] ==
        IF p > Len(s) THEN <<>>
        ELSE LET token == Ahead(SubSeq(s, p, Len(s)), delim)
             IN  <<token>> \o from[p + Len(token) + 1]
  IN  from[1]

\* No handler looks at the size of the vector it indexes.
InBounds(f) ==
  f.code \in DOMAIN Indices =>
    /\ \A i \in Indices[f.code] : i < Len(f.params)
    /\ f.code = "BRLD_QUIT" => explode(f.params[1], "!") # <<>>

time_t == [bits |-> TimeBits, signed |-> TRUE]

OnConnected_Slip(cmd) ==                     \* --use not looked at
  [emerald EXCEPT !.Connected = TRUE, !.server_time = convto_num(time_t, cmd[5]),
                  !.server_version = Tail(cmd[4]), !.select = <<"1">>, !.display_select = FALSE,
                  !.realserver = cmd[1], !.myself = cmd[3], !.displayserver = host]

\* A select that --use names is left for the server to confirm.
OnConnected(cmd) ==
  [emerald EXCEPT !.Connected = TRUE,
                  !.server_time = convto_num(time_t, cmd[5]),
                  !.server_version = Tail(cmd[4]),
                  !.select = IF config.useSelect THEN @ ELSE <<"1">>,
                  !.display_select = IF config.useSelect THEN @ ELSE FALSE,
                  !.realserver = cmd[1],
                  !.myself = cmd[3],
                  !.displayserver = IF config.changeserv THEN cmd[1] \o <<":">> \o port ELSE host]

OnMyUse(cmd) == [emerald EXCEPT !.select = cmd[4], !.display_select = (cmd[4] # <<"1">>)]

MyInfo(cmd) == [emerald EXCEPT !.myself = cmd[3]]

After(f) ==
  CASE f.code = "BRLD_CONNECTED" -> OnConnected(f.params)
    [] f.code = "BRLD_NEW_USE"   -> OnMyUse(f.params)
    [] f.code = "BRLD_MYINFO"    -> MyInfo(f.params)
    [] OTHER                     -> emerald

QuitLength_Slip(user) == Len(user)           \* the user alone

\* OnQuit: "QUIT> " and the nickname of the source.
QuitLength(user) == 6 + Len(user)

(***************************************************************************)
(* The lengths of the texts that the handler formats, in their order:      *)
(* csprint formats its text twice, the two rows of the heading are of a    *)
(* fixed width.                                                            *)
(***************************************************************************)
Texts(f) ==
  CASE f.code = "BRLD_CONNECTED" -> <<62, 156>>
    [] f.code = "BRLD_QUIT"      -> LET n == QuitLength(Head(explode(f.params[1], "!")))
                                    IN  <<n, n>>
    [] f.code = "ERR_CMD_NOFND"  -> <<Len(f.params[4]) + 17>>
    [] f.code = "BRLD_ERROR"     -> <<Len(f.message) + 14>>
    [] f.code = "ERR_WRONG_PASS" -> <<Len(host) + 18>>
    [] OTHER                     -> <<>>

Exits == {"BRLD_ERROR", "ERR_WRONG_PASS", "BRLD_QUITTING"}

\* CommandParser on the next frame.
Parse ==
  /\ status = "running"
  /\ pending = <<>>
  /\ frames # <<>>
  /\ frames' = Tail(frames)
  /\ \E f \in {CommandParser(Head(frames))} :
       /\ parsed' = f
       /\ IF InBounds(f)
          THEN /\ status' = IF f.code \in Exits THEN "leaving" ELSE status
               /\ emerald' = After(f)
               /\ pending' = Texts(f)
               /\ asked' = asked \o Texts(f)
          ELSE status' = "undefined" /\ UNCHANGED <<emerald, pending, asked>>
  /\ UNCHANGED <<config, formatBuffer, printed>>

-----------------------------------------------------------------------------
FormatDone_Slip(n) == n > 0 /\ n <= formatBuffer    \* no room for the NUL

\* What ends the loop of Format, for a text of n bytes.
FormatDone(n) == n > 0 /\ n < formatBuffer

\* What vsnprintf leaves of a text of n bytes in front of its NUL.
Kept(n) == IF n < formatBuffer THEN n ELSE formatBuffer - 1

\* One turn of the loop: vsnprintf, and twice the buffer if that was not it.
Format ==
  /\ pending # <<>>
  /\ status # "aborted"
  /\ IF FormatDone(Head(pending))
     THEN /\ printed' = Append(printed, Kept(Head(pending)))
          /\ pending' = Tail(pending)
          /\ UNCHANGED <<formatBuffer, status>>
     ELSE IF 2 * formatBuffer <= MaxBuffer
     THEN formatBuffer' = 2 * formatBuffer /\ UNCHANGED <<printed, pending, status>>
     ELSE status' = "aborted" /\ UNCHANGED <<printed, pending, formatBuffer>>
  /\ UNCHANGED <<config, frames, parsed, emerald, asked>>

\* exit(0), after the handler has printed.
Leave ==
  /\ status = "leaving"
  /\ pending = <<>>
  /\ status' = "exited"
  /\ UNCHANGED <<config, frames, parsed, emerald, formatBuffer, pending, printed, asked>>

SessionNext == Parse \/ Format \/ Leave

\* HandleMessage has cut a frame, whatever it is.
Comes(frame) ==
  /\ frames' = <<frame>>
  /\ UNCHANGED <<config, parsed, emerald, status, formatBuffer, pending, printed, asked>>

\* Symbols, and the CRLF at the least.
AnyFrame == Seq(STRING) \ {<<>>}

SessionSpec ==
  /\ SessionInit /\ frames = <<>>
  /\ [][SessionNext \/ \E frame \in AnyFrame : Comes(frame)]_sessionVars

-----------------------------------------------------------------------------
(***************************************************************************)
(* Every text is printed in the order of the replies and to its last byte, *)
(* although all of them go through one buffer that grows under way and     *)
(* vsnprintf cuts what does not fit.                                       *)
(***************************************************************************)
PrintedWhole == printed \o pending = asked

(***************************************************************************)
(* No text is empty, for one the buffer would double until there is no     *)
(* more memory.  So the buffer that Format keeps for good is at most twice *)
(* as large as the longest text, and the memory is too small only for a    *)
(* text that takes half of it.                                             *)
(***************************************************************************)
GrowthBounded ==
  /\ \A i \in DOMAIN asked : asked[i] > 0
  /\ formatBuffer = FORMAT_SIZE \/ \E i \in DOMAIN asked : formatBuffer <= 2 * asked[i]
  /\ status = "aborted" => \E i \in DOMAIN asked : 2 * asked[i] > MaxBuffer
=============================================================================
