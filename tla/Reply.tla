-------------------------------- MODULE Reply -------------------------------
(***************************************************************************)
(* CommandParser on one frame: the chain of strtok calls that finds its    *)
(* fields, the second pass over a copy (space_node_stream) that gives the  *)
(* handlers their parameters, and the dispatch on the code.  A frame is a  *)
(* sequence of symbols: the characters the parser looks for, words for any *)
(* other text, and a three-digit code as one symbol.  None of them is      *)
(* shorter than a byte.                                                    *)
(***************************************************************************)
EXTENDS NodeStream

BRLD_PING == "110"

\* The codes with a case of their own.
Case == ("107" :> "BRLD_MYINFO")   @@ ("108" :> "BRLD_CONNECTED") @@
        ("142" :> "BRLD_ERROR")    @@ ("146" :> "BRLD_QUIT")      @@
        ("158" :> "BRLD_QUITTING") @@ ("161" :> "BRLD_NEW_USE")   @@
        ("511" :> "ERR_CMD_NOFND") @@ ("536" :> "ERR_WRONG_PASS")

-----------------------------------------------------------------------------
(***************************************************************************)
(* strtok (external): it writes NULs into the frame and keeps a hidden     *)
(* position for the calls that pass NULL.  Positions count from 1 here,    *)
(* and 0 is the null pointer.                                              *)
(***************************************************************************)
null == 0

At(mem, p) == IF p > Len(mem) THEN NUL ELSE mem[p]

From(mem, p, Test(_)) ==
  CHOOSE q \in p .. Len(mem) + 1 :
    Test(At(mem, q)) /\ \A r \in p .. q - 1 : ~Test(At(mem, r))

strtok(lib, s, delims) ==
  LET start == IF s = null THEN lib.save ELSE s
      tok   == From(lib.mem, start, LAMBDA c : c \notin delims)
      end   == From(lib.mem, tok, LAMBDA c : c \in delims \cup {NUL})
  IN  IF At(lib.mem, tok) = NUL
      THEN [lib EXCEPT !.save = tok, !.result = null]
      ELSE IF At(lib.mem, end) = NUL
      THEN [lib EXCEPT !.save = end, !.result = tok]
      ELSE [mem |-> [lib.mem EXCEPT ![end] = NUL], save |-> end + 1, result |-> tok]

\* The string that a pointer stands for; a stream prints nothing for NULL.
String(mem, p) ==
  IF p = null THEN <<>>
  ELSE SubSeq(mem, p, From(mem, p, LAMBDA c : c = NUL) - 1)

-----------------------------------------------------------------------------
Chain_Slip == <<                              \* the message after the command
  [to |-> "prefix",   s |-> "request", delims |-> {" "}],
  [to |-> "suffix",   s |-> "NULL",    delims |-> {":"}],
  [to |-> "nickname", s |-> "prefix",  delims |-> {"!"}],
  [to |-> "command",  s |-> "suffix",  delims |-> {"#", "&", " "}],
  [to |-> "message",  s |-> "NULL",    delims |-> {CR}],
  [to |-> "cmd",      s |-> "suffix",  delims |-> {"#", "&", " "}] >>

(***************************************************************************)
(* The calls in their order.  The message is taken while the hidden        *)
(* position still stands behind the suffix; the later calls go back into   *)
(* the prefix and the suffix, and cmd reads the suffix a second time.      *)
(***************************************************************************)
Chain == <<
  [to |-> "prefix",   s |-> "request", delims |-> {" "}],
  [to |-> "suffix",   s |-> "NULL",    delims |-> {":"}],
  [to |-> "message",  s |-> "NULL",    delims |-> {CR}],
  [to |-> "nickname", s |-> "prefix",  delims |-> {"!"}],
  [to |-> "command",  s |-> "suffix",  delims |-> {"#", "&", " "}],
  [to |-> "channel",  s |-> "NULL",    delims |-> {" ", CR}],
  [to |-> "params",   s |-> "NULL",    delims |-> {":", CR}],
  [to |-> "cmd",      s |-> "suffix",  delims |-> {"#", "&", " "}] >>

\* The char* variables and the two constant arguments.
Pointers == {"request", "NULL"} \cup {Chain[i].to : i \in DOMAIN Chain}

\* One call of the chain on pointers p; the prefix leaves the colon out.
Call(state, call) ==
  LET lib == strtok(state.lib, state.p[call.s], call.delims)
      ptr == IF call.to = "prefix" THEN lib.result + 1 ELSE lib.result
  IN  [lib |-> lib, p |-> [state.p EXCEPT ![call.to] = ptr]]

Fields(request) ==
  LET after[n \in 0 .. Len(Chain)] ==
        IF n = 0
        THEN [lib |-> [mem |-> request, save |-> null, result |-> null],
              p   |-> [x \in Pointers |-> IF x = "request" THEN 1 ELSE null]]
        ELSE Call(after[n - 1], Chain[n])
  IN  after[Len(Chain)]

Params_Slip(modified) ==                      \* no erase(0, 1)
  Items(space_node_stream(modified, FALSE))

\* What the handlers are given: the items of the frame, without its colon.
Params(modified) ==
  LET items == Items(space_node_stream(modified, FALSE))
  IN  [items EXCEPT ![1] = Tail(@)]

\* A frame without fields, as far as the handlers look.
Nothing(code) == [code |-> code, cmd |-> <<>>, message |-> <<>>, params |-> <<>>]

\* The fields of a frame and the name under which Protocol knows it.
CommandParser(request) ==
  LET f   == Fields(request)
      cmd == String(f.lib.mem, f.p["cmd"])
      Fielded(code) == [code    |-> code,
                        cmd     |-> cmd,
                        message |-> String(f.lib.mem, f.p["message"]),
                        params  |-> Params(request)]
  IN  IF Head(request) = BRLD_PING THEN Nothing("PING")
      ELSE IF Head(request) # ":" \/ Len(request) < 4 THEN Nothing("junk")
      ELSE IF cmd # <<>> /\ Head(cmd) \in DOMAIN Case THEN Fielded(Case[Head(cmd)])
      ELSE Fielded(IF f.p["message"] = null THEN "bare" ELSE "data")
=============================================================================
