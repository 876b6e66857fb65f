------------------------------ MODULE Protocol ------------------------------
(***************************************************************************)
(* The vocabulary shared by the modules of the benchmark client: the kinds *)
(* of line it sends, the tests it counts, and the classes of reply that    *)
(* CommandParser tells apart.  A line is its command word: the random key  *)
(* and the value are payload that the client never looks at again.         *)
(***************************************************************************)
EXTENDS Integers, Sequences

CONSTANT Runs        \* Config->runs, an int taken from --runs

ASSUME RunsAssumption == Runs \in Int

(***************************************************************************)
(* The nine commands that Flush recognises by prefix and that Deliver      *)
(* keeps a counter for (Server::current is 1..9 for them, 0 for "none").   *)
(***************************************************************************)
Test == {"get", "lpush", "vpush", "hset", "incr", "set", "ldel", "decr", "hdel"}

None == "none"

Line == Test \cup {"ILOGIN", "use", "flushall", "QUIT", "PONG"}

(***************************************************************************)
(* What one piece of the incoming stream is to CommandParser.              *)
(*   frag   bytes that do not complete a frame: no CRLF yet                *)
(*   PING   a frame that starts with the digits of BRLD_PING               *)
(*   junk   a frame without a leading ':' or shorter than four bytes       *)
(*   data   a code with no case of its own, with a trailing text           *)
(*   bare   the same without a trailing text (p.message is NULL)           *)
(* The other names are the codes with a case of their own.                 *)
(***************************************************************************)
ExitCode   == {"ERR_WRONG_PASS", "BRLD_ERROR", "BRLD_QUITTING"}
NoticeCode == {"BRLD_MYINFO", "BRLD_NEW_USE", "BRLD_QUIT", "ERR_CMD_NOFND"}
Code       == ExitCode \cup NoticeCode \cup
              {"BRLD_CONNECTED", "frag", "PING", "junk", "data", "bare"}
=============================================================================
