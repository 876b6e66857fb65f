----------------------------- MODULE MCSession ------------------------------
(***************************************************************************)
(* Replies put together from their parts, ":" source " " code {" "         *)
(* argument} [" :" text] CR LF: every one of a few parts by itself, and    *)
(* every short session of some of them.                                    *)
(***************************************************************************)
EXTENDS Session, Protocol, Splitting

CONSTANTS
  Codes,        \* three-digit codes, with and without a case of their own
  MaxArgs,      \* bound: arguments of a reply
  MaxText,      \* bound: symbols of its text
  MaxSession    \* bound: replies of a session

VARIABLE replies    \* the parts of all frames, NoReply for one of another shape

vars == <<sessionVars, replies>>

NoText == <<"no text">>

\* A word has no space and no colon of its own, unless it is the source.
Sources == {<<"srv">>, <<"nick", "!", "host">>, <<"!", "host">>, <<"host", ":", "port">>, <<>>}
Words   == {<<"w">>, <<"#", "w", "&">>, <<"1">>}
Texts_  == {NoText} \cup BoundedSeq({"w", " ", ":"}, MaxText)

Replies == [source : Sources, code : Codes, args : BoundedSeq(Words, MaxArgs), text : Texts_]

Frame(r) ==
  <<":">> \o r.source \o <<" ", r.code>>
  \o FlattenSeq([i \in 1 .. Len(r.args) |-> <<" ">> \o r.args[i]])
  \o (IF r.text = NoText THEN <<>> ELSE <<" ", ":">> \o r.text)
  \o <<CR, LF>>

\* Frames of another shape.
Others == {<<BRLD_PING, CR, LF>>, <<BRLD_PING, " ", "w", CR, LF>>,
           <<":", CR, LF>>, <<"w", CR, LF>>, <<CR, LF>>, <<":", "srv", CR, LF>>}

NoReply == [source |-> <<>>, code |-> "none", args |-> <<>>, text |-> NoText]

Made(code, args, text) ==
  [source |-> <<"nick", "!", "host">>, code |-> code, args |-> args, text |-> text]

\* The replies of which sessions are made: enough fields, too few, CRLF in the last.
w == <<"w">>
Pool == {Made("108", <<w, w, <<"1">>>>, <<"w">>), Made("108", <<<<"1">>, w>>, NoText),
         Made("161", <<w, <<"1">>>>, <<"w">>),    Made("161", <<w, w, w>>, NoText),
         Made("161", <<w, <<"1">>>>, NoText),     Made("107", <<<<"1">>>>, <<>>),
         Made("511", <<w>>, <<"w", " ", "w">>),   Made("146", <<>>, <<>>),
         Made("142", <<>>, NoText),               Made("158", <<>>, NoText),
         Made("300", <<w>>, <<"w">>)}

Init == SessionInit /\ frames = <<>> /\ replies = <<>>

Arrive(r, frame) == Comes(frame) /\ replies' = Append(replies, r)

Idle == frames = <<>> /\ pending = <<>> /\ status = "running"

\* A frame by itself, whatever it is, for a client of no special settings.
ArriveAlone ==
  /\ Idle /\ replies = <<>>
  /\ ~config.useSelect /\ ~config.changeserv /\ ~emerald.display_select
  /\ \/ \E r \in Replies : Arrive(r, Frame(r))
     \/ \E f \in Others : Arrive(NoReply, f)

\* The next of a session.
ArriveNext ==
  /\ Idle /\ Len(replies) < MaxSession /\ Range(replies) \subseteq Pool
  /\ \E r \in Pool : Arrive(r, Frame(r))

Stopped == status \in {"exited", "undefined", "aborted"} /\ UNCHANGED vars

Silent == Idle /\ UNCHANGED vars

Next == (SessionNext /\ UNCHANGED replies) \/ ArriveAlone \/ ArriveNext \/ Silent \/ Stopped

\* The one thread goes on with what it has begun; nothing has to arrive.
Spec == Init /\ [][Next]_vars /\ WF_vars((Format \/ Leave) /\ UNCHANGED replies)

-----------------------------------------------------------------------------
\* The replies that were handed to CommandParser, and the last of them.
Seen   == Len(replies) - Len(frames)
Parsed == Seen > 0
Reply_ == replies[Seen]

\* What a reply is to the rest of the program, read off its parts.
Meaning(r) == IF r.code \in DOMAIN Case THEN Case[r.code]
              ELSE IF r.text = NoText THEN "bare" ELSE "data"

(***************************************************************************)
(* Link and Peer know a reply only by its class: the bytes of every reply  *)
(* lead CommandParser to the class that its parts mean, whatever is in the *)
(* text, and to no other name than Protocol has; a frame of another shape  *)
(* is never taken for a reply that is counted.                             *)
(***************************************************************************)
ClassIsMeaning ==
  Parsed => /\ parsed.code \in Code
            /\ IF Reply_ = NoReply THEN parsed.code \in {"PING", "junk", "bare"}
               ELSE parsed.code = Meaning(Reply_)

(***************************************************************************)
(* The two parsers of one frame agree with its parts and with each other:  *)
(* the chain of strtok calls recovers code and text although every call    *)
(* writes into the frame and the later ones start anew, and the stream     *)
(* puts source, code and arguments where the handlers index them.  The     *)
(* field that ends the frame keeps its CRLF, an empty text is its LF.      *)
(***************************************************************************)
FieldsRecovered ==
  Parsed /\ Reply_ # NoReply =>
    LET fields == <<Reply_.source, <<Reply_.code>>>> \o Reply_.args
        last   == IF Reply_.text = NoText THEN Len(fields) ELSE 0
    IN  /\ parsed.cmd # <<>> /\ Head(parsed.cmd) = Reply_.code
        /\ parsed.message = CASE Reply_.text = NoText -> <<>>
                              [] Reply_.text = <<>>   -> <<LF>>
                              [] OTHER                -> Reply_.text
        /\ \A k \in 1 .. Len(fields) :
             parsed.params[k] = fields[k] \o (IF k = last THEN <<CR, LF>> ELSE <<>>)

-----------------------------------------------------------------------------
\* The words of a reply as the server wrote them, the CRLF with the last one.
WordsOf(r) ==
  LET frame == Frame(r)
  IN  <<r.source>> \o Split(SubSeq(frame, Len(r.source) + 2, Len(frame)), " ", FALSE)

\* The words that each of these replies must have for its handler.
Needed == [BRLD_CONNECTED |-> 5, BRLD_NEW_USE |-> 4, ERR_CMD_NOFND |-> 4, BRLD_MYINFO |-> 3]

TooShort(r) ==
  LET class == Meaning(r)
  IN  \/ class \in DOMAIN Needed /\ Len(WordsOf(r)) < Needed[class]
      \/ class = "BRLD_QUIT" /\ r.source = <<>>

(***************************************************************************)
(* The handlers index their parameters without a look at how many there    *)
(* are: the behaviour of the client is defined exactly for replies with    *)
(* the words their handler needs, words of the text included.              *)
(***************************************************************************)
IndicesExist ==
  status = "undefined" <=> Parsed /\ Reply_ # NoReply /\ TooShort(Reply_)

\* The position of the last reply seen of these classes, 0 without one.
LastOf(classes) ==
  Max({0} \cup {i \in 1 .. Seen : replies[i] # NoReply /\ Meaning(replies[i]) \in classes})

Word(i, index) == WordsOf(replies[i])[index + 1]

(***************************************************************************)
(* What the client believes of the session follows the replies: its name   *)
(* the last one that had it, server, version and time the last welcome,    *)
(* and the select the last reply that names one, a welcome only when the   *)
(* user asked for none.  The prompt shows every select but "1", which the  *)
(* CRLF of a reply that ends with it makes another one.                    *)
(***************************************************************************)
StateFollowsReplies ==
  status # "undefined" =>
    LET named    == LastOf({"BRLD_CONNECTED", "BRLD_MYINFO"})
        welcome  == LastOf({"BRLD_CONNECTED"})
        selected == LastOf({"BRLD_NEW_USE"} \cup (IF config.useSelect THEN {} ELSE {"BRLD_CONNECTED"}))
    IN  /\ emerald.Connected <=> welcome > 0
        /\ named > 0 => emerald.myself = Word(named, 2)
        /\ welcome > 0 =>
             /\ emerald.realserver = Word(welcome, 0)
             /\ emerald.server_version = Tail(Word(welcome, 3))
             /\ emerald.server_time = IF Head(Word(welcome, 4)) = "1" THEN 1 ELSE 0
             /\ emerald.displayserver \in {host, Word(welcome, 0) \o <<":">> \o port}
        /\ IF selected = 0 THEN emerald.select = <<>>
           ELSE /\ emerald.select = IF Meaning(replies[selected]) = "BRLD_NEW_USE"
                                    THEN Word(selected, 3) ELSE <<"1">>
                /\ emerald.display_select <=> emerald.select # <<"1">>

(***************************************************************************)
(* Every reply is dealt with: its texts come out of Format, and the client *)
(* listens again, or it exits because that was what the reply said.        *)
(***************************************************************************)
Served == (pending # <<>> \/ status = "leaving") ~> (Idle \/ status = "exited")
=============================================================================
