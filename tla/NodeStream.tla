----------------------------- MODULE NodeStream -----------------------------
(***************************************************************************)
(* engine::node_stream and engine::token_node_stream: the two cursors that *)
(* cut a string into items.  A string is a sequence of characters, and a   *)
(* position counts from 0 as in the code.                                  *)
(***************************************************************************)
EXTENDS Converter

CONSTANT npos     \* std::string::npos, above the length of any string

ASSUME NposAssumption == npos \in Nat

\* The least position from p on whose character satisfies Test.
FirstFrom(s, p, Test(_)) ==
  LET hits == {q \in p .. Len(s) - 1 : Test(s[q + 1])}
  IN  IF hits = {} THEN npos ELSE Min(hits)

find(s, c, p) == FirstFrom(s, p, LAMBDA x : x = c)

find_first_not_of(s, c, p) == FirstFrom(s, p, LAMBDA x : x # c)

\* The n characters from position p, or as many as there are.
assign(s, p, n) ==
  SubSeq(s, p + 1, IF p + n < Len(s) THEN p + n ELSE Len(s))

-----------------------------------------------------------------------------
node_stream(source, separator, allowempty) ==
  [tokens |-> source, sep |-> separator, pos |-> 0, allow_empty |-> allowempty]

comma_node_stream(source, allowempty)   == node_stream(source, ",", allowempty)
newline_node_stream(source, allowempty) == node_stream(source, LF, allowempty)
space_node_stream(source, allowempty)   == node_stream(source, " ", allowempty)

stream_finish(st) == st.pos > Len(st.tokens)

get_remaining(st) ==
  IF stream_finish(st) THEN <<>> ELSE assign(st.tokens, st.pos, npos)

\* Where the next item begins: separators are skipped unless they count.
ItemStart(st) ==
  IF st.allow_empty THEN st.pos ELSE find_first_not_of(st.tokens, st.sep, st.pos)

ItemEnd_Slip(st, start) ==                   \* the last item forgotten
  LET p == find(st.tokens, st.sep, start)
  IN  IF p = npos THEN start ELSE p

\* Where it ends: at the next separator or with the string.
ItemEnd(st, start) ==
  LET p == find(st.tokens, st.sep, start)
  IN  IF p = npos THEN Len(st.tokens) ELSE p

Advance_Slip(st, p) == [st EXCEPT !.pos = p]     \* stays on the separator

\* Past the separator; past the end of the string after the last item.
Advance(st, p) == [st EXCEPT !.pos = p + 1]

\* One call: whether there was an item, which, and the stream after it.
items_extract(st) ==
  LET start == ItemStart(st)
      end   == ItemEnd(st, start)
  IN  IF stream_finish(st)
      THEN [ok |-> FALSE, token |-> <<>>, stream |-> st]
      ELSE IF start = npos
      THEN [ok |-> FALSE, token |-> <<>>, stream |-> Advance(st, Len(st.tokens))]
      ELSE [ok |-> TRUE, token |-> assign(st.tokens, start, end - start),
            stream |-> Advance(st, end)]

\* while (items_extract(token)): the items in order.
Items(st) ==
  LET from[p \in 0 .. Len(st.tokens) + 1] ==
        LET r == items_extract([st EXCEPT !.pos = p])
        IN  IF r.ok THEN <<r.token>> \o from[r.stream.pos] ELSE <<>>
  IN  from[st.pos]

contains_Slip(st, value) ==                  \* from the start each time
  LET r == Items([st EXCEPT !.pos = 0])
  IN  [ok |-> \E i \in DOMAIN r : r[i] = value, stream |-> st]

\* Items are taken until one is the value: what was passed is gone.
contains(st, value) ==
  LET from[p \in 0 .. Len(st.tokens) + 1] ==
        LET r == items_extract([st EXCEPT !.pos = p])
        IN  IF ~r.ok \/ r.token = value THEN [ok |-> r.ok, stream |-> r.stream]
            ELSE from[r.stream.pos]
  IN  from[st.pos]

\* items_extract and then convto_num<T>; the token stays as it is without an item.
GetNumericToken(T, st) ==
  LET r == items_extract(st)
  IN  [ok |-> r.ok, token |-> IF r.ok THEN convto_num(T, r.token) ELSE 0, stream |-> r.stream]

-----------------------------------------------------------------------------
\* The part of msg that begins at start and has no more than end characters.
token_node_stream(msg, start, end) == [message |-> assign(msg, start, end), position |-> 0]

\* The next word; runs of spaces separate words.
get_middle(ts) ==
  LET separator == find(ts.message, " ", ts.position)
  IN  IF ts.position >= Len(ts.message)
      THEN [ok |-> FALSE, token |-> <<>>, stream |-> ts]
      ELSE IF separator = npos
      THEN [ok |-> TRUE, token |-> assign(ts.message, ts.position, npos),
            stream |-> [ts EXCEPT !.position = Len(ts.message)]]
      ELSE [ok |-> TRUE, token |-> assign(ts.message, ts.position, separator - ts.position),
            stream |-> [ts EXCEPT !.position =
                          find_first_not_of(ts.message, " ", separator)]]

get_trailing_Slip(ts) == get_middle(ts)      \* the colon not looked at

\* The same, but a word that starts with a colon is all the rest.
get_trailing(ts) ==
  IF ts.position < Len(ts.message) /\ ts.message[ts.position + 1] = ":"
  THEN [ok |-> TRUE, token |-> assign(ts.message, ts.position + 1, npos),
        stream |-> [ts EXCEPT !.position = Len(ts.message)]]
  ELSE get_middle(ts)
=============================================================================
