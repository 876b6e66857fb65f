----------------------------- MODULE MCBenchmark ----------------------------
(***************************************************************************)
(* Small instances of Benchmark for TLC: the scripts of Workload, and the  *)
(* peers that the runs put at the other end.                               *)
(***************************************************************************)
EXTENDS Benchmark, Workload

\* The lists given to --tests (a cfg cannot write a sequence).
TestsDefault == <<>>
TestsTwo     == <<"set", "get">>
TestsCut     == <<"set", "vpush">>
TestsListed  == <<"get", "hset", "lpush">>

\* The kinds of line that keep their CRLF: all of them, and those shorter
\* than a limit which a set still meets and a vpush no longer.
AllFit     == Line
LongAreCut == {kind \in Line : LineBytes(kind, 8) < 26}

(***************************************************************************)
(* A peer that answers each command with one line of data, which may come  *)
(* in two reads, and anything else with what the protocol has for it.      *)
(***************************************************************************)
AnswersOrderly ==
  [k \in Line \cup {Garbled} |->
     CASE k = "ILOGIN"  -> {<<"BRLD_CONNECTED", "BRLD_MYINFO">>, <<"ERR_WRONG_PASS">>}
       [] k = "use"     -> {<<"BRLD_NEW_USE">>}
       [] k = Garbled   -> {<<"ERR_CMD_NOFND">>}
       [] k \in Test    -> {<<"data">>, <<"frag", "data">>}
       [] OTHER         -> {<<"data">>}]

\* A peer that may answer anything, at most one line of it data.
AnswersLoose ==
  [k \in Line \cup {Garbled} |->
     CASE k = "ILOGIN" -> {<<"BRLD_CONNECTED", "BRLD_MYINFO">>, <<"BRLD_ERROR">>}
       [] k = Garbled  -> {<<"ERR_CMD_NOFND">>}
       [] k = "vpush"  -> {<<"data">>, <<"frag", "data">>}
       [] k = "set"    -> {<<"data">>, <<"bare">>}
       [] OTHER        -> {<<"data">>}]

\* A peer that never refuses the login and answers each line once.
AnswersPlain ==
  [k \in Line \cup {Garbled} |->
     IF k = "ILOGIN" THEN {<<"BRLD_CONNECTED", "BRLD_MYINFO">>} ELSE {<<"data">>}]

(***************************************************************************)
(* Refinement: under strict alternation the program keeps what Report      *)
(* promises, with the rows that Deliver prints as the printed table.       *)
(***************************************************************************)
Promise == INSTANCE Report WITH
             Ops <- Runs, Table <- ExpectedRows, printed <- rows, state <- Outcome

KeepsPromise == Promise!Spec

-----------------------------------------------------------------------------
(***************************************************************************)
(* What the documents say, checked where the code does otherwise.          *)
(***************************************************************************)

\* README.md: "By default, benchmark will run 100 operations on these
\* tests", and a table in which each row counts the operations of its test.
RowsCountOwnReplies ==
  \A i \in 1 .. Len(rows) : rows[i].own = Runs /\ rows[i].begin = rows[i].test

\* README.md and ShowHelp, of --tests: "incr,get,set,lpush,ldel,hset,hdel,
\* vpush".  Each of them that is asked for has its row in a finished table.
ListedTests == {"incr", "get", "set", "lpush", "ldel", "hset", "hdel", "vpush"}

RequestedTestsReported ==
  exit = "quit" =>
    \A i \in 1 .. Len(Tests) : Tests[i] \in ListedTests =>
      \E j \in 1 .. Len(rows) : rows[j].test = Tests[i]
=============================================================================
