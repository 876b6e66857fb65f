------------------------------ MODULE Commands ------------------------------
(***************************************************************************)
(* The lines themselves: the keys that Rand draws, what class Methods      *)
(* prints with them, what Write keeps of it and what Flush gives to        *)
(* write().  A line is a sequence of symbols; a command word is one symbol *)
(* of as many bytes as it has letters, any other symbol is one byte.       *)
(* Which tests are queued is Workload's, here with one action for each.    *)
(***************************************************************************)
EXTENDS NodeStream

CONSTANTS
  MSG_LIMIT,   \* the room for a line and the NUL behind it
  alphanum,    \* the array that Rand draws from, with the NUL that ends it
  RAND_MAX,    \* the largest result of rand()
  Settings     \* the settings a run may have: login, pass, select, tests, runs, length

ASSUME CommandsAssumption ==
  /\ MSG_LIMIT \in Nat /\ MSG_LIMIT > 10
  /\ RAND_MAX \in Nat
  /\ alphanum # <<>> /\ alphanum[Len(alphanum)] = NUL

VARIABLES
  settings,    \* Configuration
  stage,       \* "login", "flushall", "tests", "loop", "quit"
  left,        \* the tests that Run has still to queue
  rval,        \* Handlers::rval
  buffer,      \* Server::buffer
  bytes        \* all that was given to write()

UseSelect == settings.select \notin {<<>>, <<"1">>}

Load == INSTANCE Workload WITH
          Runs      <- settings.runs,
          Times     <- 1,
          Tests     <- settings.tests,
          Divided   <- settings.tests # <<>>,
          UseSelect <- UseSelect

vars == <<settings, stage, left, rval, buffer, bytes>>

Init ==
  /\ settings \in Settings
  /\ stage = "login"
  /\ left = Load!Suite
  /\ rval = <<>>
  /\ buffer = <<>>
  /\ bytes = <<>>

-----------------------------------------------------------------------------
Bytes(c) ==
  CASE c = "flushall"                                 -> 8
    [] c = "emerald"                                  -> 7
    [] c = "ILOGIN"                                   -> 6
    [] c = "vpush"                                    -> 5
    [] c \in {"incr", "decr", "ldel", "hset", "hdel"} -> 4
    [] c \in {"get", "set", "use"}                    -> 3
    [] OTHER                                          -> 1

BytesIn(s) == FoldLeft(LAMBDA n, c : n + Bytes(c), 0, s)

\* c_str(): what "%s" and std::string see of it.
c_str(s) == Span(s, LAMBDA c : c # NUL)

Kept_Slip(text) ==                           \* the NUL forgotten
  SubSeq(text, 1, Max({n \in 0 .. Len(text) : BytesIn(SubSeq(text, 1, n)) <= MSG_LIMIT}))

\* vsnprintf: what fits in front of the NUL; its result is not looked at.
Kept(text) ==
  SubSeq(text, 1, Max({n \in 0 .. Len(text) : BytesIn(SubSeq(text, 1, n)) < MSG_LIMIT}))

\* Server::Write, once for each text; its malloc is taken not to fail.
Write(texts) == buffer \o [i \in DOMAIN texts |-> c_str(Kept(texts[i]))]

\* A format of class Methods: its words with spaces between them and CRLF.
Joined(words) ==
  FoldLeft(LAMBDA s, w : IF s = <<>> THEN w ELSE s \o <<" ">> \o w, <<>>, words) \o <<CR, LF>>

Quoted(value) == <<Quote>> \o c_str(value) \o <<Quote>>

\* Methods::Incr, Decr, Get, LDel, VPush, HDel, Set, HSet for one key.
Command(test, key) ==
  Joined(CASE test \in {"incr", "decr", "get"}          -> <<<<test>>, c_str(key)>>
          [] test \in {"ldel", "vpush", "hdel", "set"} -> <<<<test>>, c_str(key), Quoted(key)>>
          [] test = "hset" -> <<<<test>>, c_str(key), c_str(key), Quoted(key)>>)

-----------------------------------------------------------------------------
LoginWords_Slip == <<<<"ILOGIN">>, <<"emerald">>, settings.login, settings.pass>>

\* The words of the login: session, password and name, whatever is in them.
LoginWords == <<<<"ILOGIN">>, <<"emerald">>, settings.pass, settings.login>>

\* Methods::LogIn, and Methods::use for a select of the user's own.
LogIn ==
  /\ stage = "login"
  /\ LET use == Joined(<<<<"use">>, settings.select>>)
     IN  buffer' = Write(<<Joined(LoginWords)>> \o (IF UseSelect THEN <<use>> ELSE <<>>))
  /\ stage' = "flushall"
  /\ UNCHANGED <<settings, left, rval, bytes>>

\* Methods::FlushAll, the first line of Handlers::Run.
FlushAll ==
  /\ stage = "flushall"
  /\ buffer' = Write(<<Joined(<<<<"flushall">>>>)>>)
  /\ stage' = "tests"
  /\ UNCHANGED <<settings, left, rval, bytes>>

\* The character that Rand takes for r: the NUL is left out.
Drawn(r) == alphanum[1 + (r % (Len(alphanum) - 1))]

Rand_Slip ==                                 \* <= for <
  [1 .. settings.length + 1 -> {Drawn(r) : r \in 0 .. RAND_MAX}]

\* What Rand may leave in rval.
Rand == [1 .. settings.length -> {Drawn(r) : r \in 0 .. RAND_MAX}]

\* DoIncr, DoGet, ...: one key, and runs times the same line.
DoTest ==
  /\ stage = "tests"
  /\ left # <<>>
  /\ rval' \in Rand
  /\ buffer' = Write([i \in 1 .. settings.runs |-> Command(Head(left), rval')])
  /\ left' = Tail(left)
  /\ UNCHANGED <<settings, stage, bytes>>

RunEnd ==
  /\ stage = "tests"
  /\ left = <<>>
  /\ buffer' = Write(<<<<"QUIT">>>>)
  /\ stage' = "loop"
  /\ UNCHANGED <<settings, left, rval, bytes>>

\* Server::Flush with room in the socket: the line goes out as it is.
Flush ==
  /\ stage = "loop"
  /\ IF Head(buffer) = <<"QUIT">>
     THEN stage' = "quit" /\ UNCHANGED <<buffer, bytes>>
     ELSE /\ bytes' = bytes \o c_str(Head(buffer))
          /\ buffer' = Tail(buffer)
          /\ UNCHANGED stage
  /\ UNCHANGED <<settings, left, rval>>

Next == LogIn \/ FlushAll \/ DoTest \/ RunEnd \/ Flush

Spec == Init /\ [][Next]_vars

-----------------------------------------------------------------------------
\* 'A' .. '}': capitals, small letters, and what ASCII has between and behind.
Letter(c) ==
  c \in {"A", "B", "C", "D", "E", "F", "G", "H", "I", "J", "K", "L", "M",
         "N", "O", "P", "Q", "R", "S", "T", "U", "V", "W", "X", "Y", "Z",
         "[", "backslash", "]", "^", "_", "backquote",
         "a", "b", "c", "d", "e", "f", "g", "h", "i", "j", "k", "l", "m",
         "n", "o", "p", "q", "r", "s", "t", "u", "v", "w", "x", "y", "z",
         "{", "|", "}"}

\* Daemon::LoginValidator: the rule for names, which LogIn does not apply.
LoginValidator(login) ==
  /\ Len(login) \in 3 .. 15
  /\ \A i \in DOMAIN login : Letter(login[i]) \/ (i > 1 /\ (IsDigit(login[i]) \/ login[i] = "-"))
=============================================================================
