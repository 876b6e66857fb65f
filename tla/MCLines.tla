------------------------------- MODULE MCLines ------------------------------
(***************************************************************************)
(* What a server that reads line by line gets of the bytes that Flush      *)
(* writes, against the abstraction of Workload, Link and Peer: a line is   *)
(* its command word, and either whole or cut.                              *)
(***************************************************************************)
EXTENDS Commands, Splitting

CONSTANTS
  KeyLengths,  \* bound: the values of --length
  MaxTests     \* bound: names in --tests

Letters == <<"k", NUL>>
Root    == <<"A", "A", "A">>
Default == [login |-> Root, pass |-> <<"p">>, select |-> <<>>, tests |-> <<>>, runs |-> 1, length |-> 2]

Names == {"incr", "get", "set", "ldel", "decr", "hdel", "vpush", "lpush"}

\* Every length of key with every few tests (none: the default ones), and the
\* logins; SetAll leaves neither name nor password empty.
AllSettings ==
  {[Default EXCEPT !.tests = t, !.length = n, !.runs = r, !.select = u] :
     t \in BoundedSeq(Names, MaxTests), n \in KeyLengths, r \in 1 .. 2,
     u \in {<<>>, <<"1">>, <<"2">>}}
  \cup
  {[Default EXCEPT !.login = l, !.pass = p] :
     l \in (BoundedSeq({"A", "e", "}", "7", "-", " ", "~"}, 4) \ {<<>>})
           \cup {[i \in 1 .. 15 |-> "A"], [i \in 1 .. 16 |-> "A"]},
     p \in {<<"p">>, <<"p", ":", "q">>, <<"p", " ", "e">>, <<" ">>}}

\* What Link calls Fitting, by the arithmetic of Workload.
Fits(kind) ==
  CASE kind = "ILOGIN" -> 18 + Len(settings.pass) + Len(settings.login) < MSG_LIMIT
    [] kind = "use"    -> 6 + Len(settings.select) < MSG_LIMIT
    [] OTHER           -> Load!LineBytes(kind, settings.length) < MSG_LIMIT

\* Peer!Receive: a cut line is read together with the line behind it.
Garbled == "garbled"
Received(script) ==
  FoldLeft(LAMBDA st, kind :
             IF ~Fits(kind) THEN [st EXCEPT !.partial = TRUE]
             ELSE [read |-> Append(st.read, IF st.partial THEN Garbled ELSE kind), partial |-> FALSE],
           [read |-> <<>>, partial |-> FALSE], script)

\* The lines as the server cuts them, without the CR in front of the LF.
ServerLines ==
  LET pieces == Items(newline_node_stream(bytes, TRUE))
  IN  [i \in 1 .. Len(pieces) - 1 |-> Span(pieces[i], LAMBDA c : c # CR)]

Key == [i \in 1 .. settings.length |-> "k"]

\* What stands between spaces: a field or more of a line, or none.
Words(s) == Split(s, " ", FALSE)

\* The fields that the command of a kind is to have.
FieldsOf(kind) ==
  CASE kind = "flushall"                        -> <<<<kind>>>>
    [] kind = "use"                             -> <<<<kind>>, settings.select>>
    [] kind = "ILOGIN"                          -> <<<<kind>>, <<"emerald">>>> \o Words(settings.pass)
                                                     \o Words(settings.login)
    [] kind \in {"incr", "decr", "get"}         -> <<<<kind>>, Key>>
    [] kind \in {"set", "ldel", "hdel", "vpush"} -> <<<<kind>>, Key, Quoted(Key)>>
    [] kind = "hset"                            -> <<<<kind>>, Key, Key, Quoted(Key)>>

-----------------------------------------------------------------------------
(***************************************************************************)
(* The server gets the script of Workload as Peer says: line by line, each *)
(* of them whole and with all its fields (a key has --length characters,   *)
(* for a length of 0 there is none and the fields behind it move up; what  *)
(* a password or a name has between spaces is a field each), but that a    *)
(* line of MSG_LIMIT bytes or more runs into the line behind.              *)
(***************************************************************************)
ServerReadsScript ==
  stage = "quit" =>
    LET expected == Received(SubSeq(Load!RunScript, 1, Len(Load!RunScript) - 1)).read
        lines    == ServerLines
    IN  /\ Len(lines) = Len(expected)
        /\ \A i \in DOMAIN lines : expected[i] # Garbled =>
             Items(space_node_stream(lines[i], FALSE)) =
               SelectSeq(FieldsOf(expected[i]), LAMBDA field : field # <<>>)

(***************************************************************************)
(* A line keeps its CRLF exactly when all of it fits in front of the NUL   *)
(* that vsnprintf puts into MSG_LIMIT bytes, and it is never longer: that  *)
(* is Fitting, on which Link and Peer rest.                                *)
(***************************************************************************)
FittingIsLength ==
  \A i \in DOMAIN buffer :
    LET line == buffer[i]
        kind == Head(line)
    IN  kind # "QUIT" =>
          /\ BytesIn(line) < MSG_LIMIT
          /\ line[Len(line)] = LF <=> Fits(kind)

(***************************************************************************)
(* LogIn asks nobody whether a name or a password may be sent.  The server *)
(* finds the session, the password and the name where it looks for them,   *)
(* and nothing behind them, exactly when neither has a space in it: with   *)
(* one, a part of it stands in the field of another, or is one too many.   *)
(* The rule for names that the program has, LoginValidator, would keep the *)
(* name in one piece as the last field, whatever the password.             *)
(***************************************************************************)
LoginIsOneField ==
  stage = "flushall" /\ Fits("ILOGIN") =>
    LET fields == Items(space_node_stream(SubSeq(buffer[1], 1, Len(buffer[1]) - 2), FALSE))
        spaced == " " \in Range(settings.pass) \cup Range(settings.login)
    IN  /\ fields = <<<<"ILOGIN">>, <<"emerald">>, settings.pass, settings.login>> <=> ~spaced
        /\ LoginValidator(settings.login) => Last(fields) = settings.login
=============================================================================
