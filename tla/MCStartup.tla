------------------------------ MODULE MCStartup -----------------------------
(***************************************************************************)
(* Every short command line over a few words, every outcome of the lookup  *)
(* and of the connection, and an interrupt at any point.                   *)
(***************************************************************************)
EXTENDS Startup, TLC

Spellings == ("--run" :> <<"--runs">>) @@ ("-r99" :> <<"--runs", "99">>) @@
             ("-b-3" :> <<"--length", "-3">>)

Numbers == ("3" :> 3) @@ ("-3" :> -3) @@ ("99" :> 99)

Lists == [w \in Operand |-> CASE w = "get,QUIT" -> <<"get", "QUIT">>
                           [] w = Empty         -> <<>>
                           [] w = ","           -> <<>>
                           [] OTHER             -> <<w>>]

AddressLists == {<<>>, <<"a">>, <<"a", "b">>}

-----------------------------------------------------------------------------
Spelled(i) == Head(Exact(<<args[i]>>))
Joined(i)  == Len(Exact(<<args[i]>>)) = 2
Taking(i)  == Spelled(i) \in DOMAIN Takes

\* The positions at which getopt_long stands: not those of arguments, none
\* behind a "--".
Reached(P, i) ==
  \/ i = 1
  \/ i - 1 \in P /\ args[i - 1] # "--" /\ (~Taking(i - 1) \/ Joined(i - 1))
  \/ i - 2 \in P /\ Taking(i - 2) /\ ~Joined(i - 2)

Looked ==
  CHOOSE P \in SUBSET (1 .. Len(args)) :
    \A i \in 1 .. Len(args) : i \in P <=> Reached(P, i)

\* The last word given for a field, Empty when there is none.
GivenAt(i) == (Exact(<<args[i]>>) \o SubSeq(args, i + 1, Len(args)))[2]
Places(f)  == {i \in Looked : Taking(i) /\ Takes[Spelled(i)] = f}

LastGiven(f) ==
  LET last == CHOOSE i \in Places(f) : \A j \in Places(f) : j <= i
  IN  IF Places(f) = {} THEN Empty ELSE GivenAt(last)

Fits(w) == w \in DOMAIN ReadsAs /\ ReadsAs[w] <= IntMax /\ -ReadsAs[w] <= IntMax + 1

\* The defaults; README.md or the manual page names most of them.
Documented == [times |-> 1, length |-> 2, runs |-> DEFAULT_CHECK, host |-> "localhost",
               port |-> "6378", pass |-> "default", login |-> "root"]

(***************************************************************************)
(* Whatever the order and repetition of options, and whatever looks like   *)
(* an option but is the argument of another one, each setting is the last  *)
(* one given, an int when it fits one and 0 when not, or its default.      *)
(***************************************************************************)
ConfigFollowsArgs ==
  stage \in {"resolve", "connect", "login", "loop"} =>
    \A f \in DOMAIN config :
      LET w == LastGiven(f)
      IN  config[f] = IF w = Empty THEN (IF f \in DOMAIN Documented THEN Documented[f] ELSE Empty)
                      ELSE IF f \in Numeric THEN (IF Fits(w) THEN ReadsAs[w] ELSE 0)
                      ELSE w

(***************************************************************************)
(* No name is looked up and nobody is connected to for a command line that *)
(* has a mistake in it, asks for the version, or comes from root: exit(0)  *)
(* in ShowHelp and the checks before Initialize leave no way around them.  *)
(***************************************************************************)
NoConnectionUnasked ==
  stage \in {"connect", "login", "loop"} =>
    /\ ~root
    /\ \A i \in Looked : /\ Spelled(i) \notin Strange \cup {"--version"}
                         /\ Taking(i) => Joined(i) \/ i < Len(args)

(***************************************************************************)
(* What Link takes for granted of its buffer when the loop starts holds    *)
(* for every command line: lines it knows, and QUIT last and only there,   *)
(* and none with a key of fewer than no characters.                        *)
(***************************************************************************)
ReadyForLink ==
  stage = "loop" =>
    LET script == Load!RunScript
    IN  /\ script # <<>> /\ script[Len(script)] = "QUIT"
        /\ \A i \in 1 .. Len(script) - 1 :
             /\ script[i] \in Load!Line \ {"QUIT", "PONG"}
             /\ script[i] \in Load!Test =>
                  LET n == LastGiven("length") IN ~(Fits(n) /\ ReadsAs[n] < 0)

(***************************************************************************)
(* Start-up comes to an end: the loop, an exit, an early SIGINT, or the    *)
(* exception for a length below zero.                                      *)
(***************************************************************************)
Settles == <>(stage \in {"loop", "exited", "killed", "aborted"})

-----------------------------------------------------------------------------
(***************************************************************************)
(* What the documents say, checked where the code does otherwise.          *)
(***************************************************************************)

\* README.md and ShowHelp, "Usage": a command line made of the options of
\* that list, each with its argument, is not refused.
UsageOptions == {"--login", "--host", "--password", "--port", "--times", "--use",
                 "--runs", "--length", "--tests"}

UsageAccepted ==
  /\ Len(args) % 2 = 0
  /\ \A i \in 1 .. Len(args) : i % 2 = 1 => args[i] \in UsageOptions
  => cause # "help"

\* The manual page, "EXIT CODES": 4 "because an invalid argument was
\* provided to the command line", 5 "because a problem with the the socket
\* stream", 6 "because it was started as root".
StatusTellsCause ==
  stage = "exited" =>
    /\ cause = "help" => status = 4
    /\ cause \in {"socket", "connect"} => status = 5
    /\ cause = "root" => status = 6
=============================================================================
