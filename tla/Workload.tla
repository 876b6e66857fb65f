------------------------------ MODULE Workload ------------------------------
(***************************************************************************)
(* The script of a run: the lines that Methods::LogIn and Handlers::Run    *)
(* push on Link's buffer before the event loop starts.  The nested loops   *)
(* of the code are written as the sequence they produce, by index.         *)
(***************************************************************************)
EXTENDS Protocol

CONSTANTS
  Times,      \* Config->times, an int taken from --times
  Divided,    \* whether --tests is given (and not empty)
  Tests,      \* the names of --tests in order
  UseSelect   \* whether --use names a select other than "1"

ASSUME WorkloadAssumption ==
  /\ Times \in Int
  /\ Divided \in BOOLEAN
  /\ Tests \in Seq(STRING)
  /\ UseSelect \in BOOLEAN

\* The number of iterations of for (int i = 0; i < n; i++).
Iterations(n) == IF n > 0 THEN n ELSE 0

\* Methods::LogIn.
LogIn == <<"ILOGIN">> \o (IF UseSelect THEN <<"use">> ELSE <<>>)

\* Handlers::RunDefault, in the order of its calls.
RunDefault == <<"incr", "get", "set", "vpush", "hset", "ldel", "decr", "hdel">>

\* The names that RunDivided compares a token with.
Divisible == {"incr", "set", "ldel", "hdel", "vpush", "get", "decr"}

\* Handlers::RunDivided: a token that matches no name does nothing.
RunDivided ==
  LET queued[i \in 0 .. Len(Tests)] ==
        IF i = 0 THEN <<>>
        ELSE IF Tests[i] \in Divisible THEN Append(queued[i - 1], Tests[i])
        ELSE queued[i - 1]
  IN  queued[Len(Tests)]

\* The tests of one pass.
Suite == IF Divided THEN RunDivided ELSE RunDefault

\* One pass: each Do* function queues its command Config->runs times.
Pass == [i \in 1 .. Len(Suite) * Iterations(Runs) |->
           Suite[((i - 1) \div Iterations(Runs)) + 1]]

\* The passes, one after the other.
Passes == [i \in 1 .. Iterations(Times) * Len(Pass) |->
             Pass[((i - 1) % Len(Pass)) + 1]]

Run_Slip == <<"flushall">> \o Passes          \* the QUIT forgotten

\* Handlers::Run.
Run == <<"flushall">> \o Passes \o <<"QUIT">>

\* All that Server::Initialize queues before it enters its loop.
RunScript == LogIn \o Run

\* The bytes of the line that Methods prints for a key of n characters.
LineBytes(kind, n) ==
  CASE kind = "flushall"                -> 10
    [] kind = "get"                     -> n + 6
    [] kind \in {"incr", "decr"}        -> n + 7
    [] kind = "set"                     -> 2 * n + 9
    [] kind \in {"ldel", "hdel"}        -> 2 * n + 10
    [] kind = "vpush"                   -> 2 * n + 11
    [] kind = "hset"                    -> 3 * n + 11
    [] OTHER                            -> 0

(***************************************************************************)
(* The rows a run should print: one for each test of each pass.            *)
(***************************************************************************)
ExpectedRows ==
  [i \in 1 .. (IF Runs > 0 THEN Iterations(Times) * Len(Suite) ELSE 0) |->
     Suite[((i - 1) % Len(Suite)) + 1]]
=============================================================================
