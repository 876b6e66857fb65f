------------------------------- MODULE Startup ------------------------------
(***************************************************************************)
(* The way from main() to the event loop: the constructor of Emerald       *)
(* checks for root, reads the command line, fills in Configuration, sets   *)
(* the signal handlers and enters Server::Initialize, which connects and   *)
(* queues the script.  Words of the command line are atoms.                *)
(***************************************************************************)
EXTENDS Integers, Sequences

CONSTANTS
  Word,          \* the words a command line is made of
  MaxWords,      \* bound: words of a command line
  Stands,        \* what an abbreviated word stands for, or one that has its
                 \* argument joined to it
  ReadsAs,       \* the integer that >> reads from a word, if there is one
  IntMax,        \* the largest int
  DEFAULT_CHECK, \* the default of --runs, 100 in the code
  TokensOf,      \* the items of a word between its commas
  Lookups        \* the address lists getaddrinfo may give, <<>> is an error

(***************************************************************************)
(* The options with an argument: longopts and the letters, by their field. *)
(***************************************************************************)
Takes ==
  [w \in {"--port", "-p", "--times", "-i", "--host", "-h", "--pass", "-d", "--login", "-l",
          "--use", "-u", "--runs", "-r", "--length", "-b", "--tests", "-t"} |->
     CASE w \in {"--port", "-p"}   -> "port"   [] w \in {"--times", "-i"}  -> "times"
       [] w \in {"--host", "-h"}   -> "host"   [] w \in {"--pass", "-d"}   -> "pass"
       [] w \in {"--login", "-l"}  -> "login"  [] w \in {"--use", "-u"}    -> "select"
       [] w \in {"--runs", "-r"}   -> "runs"   [] w \in {"--length", "-b"} -> "length"
       [] w \in {"--tests", "-t"}  -> "tests"]

\* The words that an option may have as its argument.
Operand == Word \cup {Stands[w][2] : w \in {v \in DOMAIN Stands : Len(Stands[v]) = 2}}

\* A string without a character: an option that is not given leaves its field so.
Empty == ""

\* What is joined to an option that takes nothing makes it a word of Strange.
ASSUME StartupAssumption ==
  /\ Empty \in Word
  /\ MaxWords \in Nat
  /\ IntMax \in Nat
  /\ DEFAULT_CHECK \in 0 .. IntMax
  /\ \A w \in DOMAIN ReadsAs : ReadsAs[w] \in Int
  /\ Empty \notin DOMAIN ReadsAs
  /\ "--" \notin DOMAIN Stands
  /\ \A w \in DOMAIN Stands :
       /\ Stands[w] \in Seq(STRING) /\ Len(Stands[w]) \in {1, 2}
       /\ Len(Stands[w]) = 2 => Stands[w][1] \in DOMAIN Takes
  /\ TokensOf \in [Operand -> Seq(STRING)]

VARIABLES
  args,          \* the command line
  root,          \* whether the group or the user is 0
  stage,         \* how far the constructor has come
  argv,          \* the words getopt_long has not looked at yet
  usercmd,       \* Configuration::usercmd, and select
  do_version,    \* the flag of --version
  config,        \* Configuration, once SetAll has run
  addrs,         \* the addresses p still walks over
  conn,          \* the socket, named by its address
  s_signal,      \* Emerald::s_signal
  cause,         \* why the process exited
  status         \* what it told its parent

lineVars == <<args, root>>
optVars  == <<argv, usercmd, do_version>>
sockVars == <<addrs, conn>>
vars     == <<lineVars, stage, optVars, config, sockVars, s_signal, cause, status>>

Field   == {"port", "times", "host", "pass", "login", "select", "runs", "length", "tests"}
Numeric  == {"times", "length", "runs"}
NotYet   == "not yet"
NoStatus == -1

Init ==
  /\ args \in UNION {[1 .. n -> Word] : n \in 0 .. MaxWords}
  /\ root \in BOOLEAN
  /\ stage = "root"
  /\ argv = args
  /\ usercmd = [f \in Field |-> Empty]
  /\ do_version = FALSE
  /\ config = [f \in Field |-> IF f \in Numeric THEN 0 ELSE Empty]
  /\ addrs = <<>>
  /\ conn = NotYet
  /\ s_signal = NotYet
  /\ cause = NotYet
  /\ status = NoStatus

\* exit(0), and what is open is closed with the process.
Exit(why) ==
  /\ stage' = "exited"
  /\ cause' = why
  /\ status' = 0

Go(next) == stage' = next /\ UNCHANGED <<cause, status>>

CheckRoot ==
  /\ stage = "root"
  /\ IF root THEN Exit("root") ELSE Go("options")
  /\ UNCHANGED <<lineVars, optVars, config, sockVars, s_signal>>

-----------------------------------------------------------------------------
Flags == {"--version", "--debug"}

\* Options that getopt_long does not know or cannot tell apart, that have an
\* argument too many, or that CommandLine has no case for.
Strange == {"--password", "--config", "--help", "--t", "--version=1", "-j"}

\* getopt_long (external): "--runs=3" and "-r3" are an option with its
\* argument, "--run" is the one option that begins like this.
Exact(words) ==
  IF Head(words) \in DOMAIN Stands THEN Stands[Head(words)] \o Tail(words) ELSE words

\* The options are over.
Over(words) == words = <<>> \/ Head(words) = "--"

Refused_Slip(words) ==                       \* no default case
  Head(words) \in DOMAIN Takes /\ Len(words) = 1

\* The cases that end in ShowHelp: unknown, or its argument is missing.
Refused(words) ==
  \/ Head(words) \in Strange
  \/ Head(words) \in DOMAIN Takes /\ Len(words) = 1

Rest_Slip(words) ==                          \* a word that is no option stays
  IF Head(words) \in DOMAIN Takes THEN SubSeq(words, 3, Len(words))
  ELSE IF Head(words) \in Flags THEN Tail(words) ELSE words

\* The words behind this option; a word that is no option is passed over.
Rest(words) ==
  IF Head(words) \in DOMAIN Takes THEN SubSeq(words, 3, Len(words)) ELSE Tail(words)

\* What an option with its argument leaves in usercmd.
Assign_Slip(words) ==                        \* the first one given stays
  IF usercmd[Takes[Head(words)]] # Empty THEN usercmd
  ELSE [usercmd EXCEPT ![Takes[Head(words)]] = words[2]]

Assign(words) == [usercmd EXCEPT ![Takes[Head(words)]] = words[2]]

\* One call of getopt_long and its case; the last call ends the loop.
GetOpt ==
  /\ stage = "options"
  /\ IF Over(argv)
     THEN /\ IF do_version THEN Exit("version") ELSE Go("settings")
          /\ UNCHANGED optVars
     ELSE LET words == Exact(argv)
          IN  IF Refused(words)
              THEN Exit("help") /\ UNCHANGED optVars
              ELSE /\ Go("options")
                   /\ do_version' = (do_version \/ Head(words) = "--version")
                   /\ usercmd' = IF Head(words) \in DOMAIN Takes THEN Assign(words) ELSE usercmd
                   /\ argv' = Rest(words)
  /\ UNCHANGED <<lineVars, config, sockVars, s_signal>>

-----------------------------------------------------------------------------
\* convto_num<int>: what >> cannot read, or cannot hold, is 0.
convto_num(w) ==
  IF w \in DOMAIN ReadsAs /\ ReadsAs[w] \in -IntMax - 1 .. IntMax THEN ReadsAs[w] ELSE 0

DEFAULT_LENGTH == 2

Given(f, value, default) == IF usercmd[f] = Empty THEN default ELSE value

\* SetAll: a field that is empty gets its default.
Settings ==
  [times  |-> Given("times", convto_num(usercmd["times"]), 1),
   length |-> Given("length", convto_num(usercmd["length"]), DEFAULT_LENGTH),
   runs   |-> Given("runs", convto_num(usercmd["runs"]), DEFAULT_CHECK),
   host   |-> Given("host", usercmd["host"], "localhost"),
   port   |-> Given("port", usercmd["port"], "6378"),
   pass   |-> Given("pass", usercmd["pass"], "default"),
   login  |-> Given("login", usercmd["login"], "root"),
   tests  |-> usercmd["tests"],
   select |-> usercmd["select"]]

SetAll ==
  /\ stage = "settings"
  /\ config' = Settings
  /\ Go("resolve")
  /\ UNCHANGED <<lineVars, optVars, sockVars, s_signal>>

-----------------------------------------------------------------------------
\* getaddrinfo.
Resolve ==
  /\ stage = "resolve"
  /\ addrs' \in Lookups
  /\ IF addrs' = <<>> THEN Exit("resolve") ELSE Go("connect")
  /\ UNCHANGED <<lineVars, optVars, config, conn, s_signal>>

GiveUp_Slip(why) == Go("connect")            \* only the continue

\* After a failure: the exit(0) in front of the continue ends the walk.
GiveUp(why) == Exit(why)

(***************************************************************************)
(* One turn of the walk over the addresses.  connect() may be refused, may *)
(* run into SO_SNDTIMEO or be interrupted by a signal: all are -1.  Should *)
(* the walk end without a connection, Initialize returns to the            *)
(* constructor and main, which would then delete Kernel twice.             *)
(***************************************************************************)
Connect ==
  /\ stage = "connect"
  /\ IF addrs = <<>>
     THEN stage' = "returned" /\ UNCHANGED <<sockVars, cause, status>>
     ELSE \/ /\ GiveUp("socket") \/ GiveUp("connect")
             /\ addrs' = Tail(addrs)
             /\ UNCHANGED conn
          \/ /\ Go("login")
             /\ addrs' = <<>>
             /\ conn' = Head(addrs)
  /\ UNCHANGED <<lineVars, optVars, config, s_signal>>

\* The script that LogIn and Run queue for these settings.
Load == INSTANCE Workload WITH
          Runs      <- config.runs,
          Times     <- config.times,
          Tests     <- TokensOf[config.tests],
          Divided   <- config.tests # Empty,
          UseSelect <- config.select \notin {Empty, "1"}

\* Rand, which every Do* function calls first, reserves a negative length.
Throws ==
  /\ config.length < 0
  /\ Load!Iterations(config.times) > 0
  /\ Load!Suite # <<>>

\* LogIn and Run; the event loop begins, unless Rand's length_error ends it.
Queue ==
  /\ stage = "login"
  /\ IF Throws
     THEN stage' = "aborted" /\ cause' = "length" /\ UNCHANGED status
     ELSE Go("loop")
  /\ UNCHANGED <<lineVars, optVars, config, sockVars, s_signal>>

\* SIGINT: fatal until Signalizers has run, then only a note.
Interrupt ==
  /\ s_signal = NotYet
  /\ stage \notin {"exited", "killed", "aborted", "returned", "loop"}
  /\ IF stage \in {"root", "options", "settings"}
     THEN stage' = "killed" /\ UNCHANGED s_signal
     ELSE s_signal' = "SIGINT" /\ UNCHANGED stage
  /\ UNCHANGED <<lineVars, optVars, config, sockVars, cause, status>>

Step == CheckRoot \/ GetOpt \/ SetAll \/ Resolve \/ Connect \/ Queue

Settled == stage \in {"loop", "exited", "killed", "aborted"} /\ UNCHANGED vars

Next == Step \/ Interrupt \/ Settled

\* The one thread goes on; getaddrinfo and connect (SO_SNDTIMEO) return.
Spec == Init /\ [][Next]_vars /\ WF_vars(Step)

-----------------------------------------------------------------------------
(***************************************************************************)
(* Initialize never returns to the constructor, where the assignment in    *)
(* main would delete Kernel, which already owns the object, a second time. *)
(***************************************************************************)
NeverReturns == stage # "returned"
=============================================================================
