------------------------------- MODULE MCText -------------------------------
(***************************************************************************)
(* The strings of the program: a caller that takes one item of a string    *)
(* after the other, and the conversions, each against a definition that    *)
(* looks at the whole string, or the set of all numbers, at once.          *)
(***************************************************************************)
EXTENDS NodeStream, Splitting

CONSTANTS
  Alphabet,      \* the characters of a list, among them " " and ":"
  MaxLength,     \* bound: the length of a list
  Symbols,       \* the characters of other strings
  MaxSymbols,    \* bound: their length
  Bits           \* the width of the integers

VARIABLES
  source,        \* the string
  how,           \* the cursor: "items", "empties" (allowempty), "words" or
                 \* "numbers", or "string" for a string nobody walks over
  numbers,       \* the numbers that were printed into the string
  stream,        \* the object
  out,           \* the items taken so far
  done           \* a call has returned false

textVars == <<source, how, numbers, stream, out, done>>

Int8   == [bits |-> Bits, signed |-> TRUE]
UInt8  == [bits |-> Bits, signed |-> FALSE]
Ints   == Lowest(Int8) .. Highest(Int8)
Edges  == {Lowest(Int8), -10, -1, 0, 9, 10, Highest(Int8)}

\* The numbers printed one after the other, with commas between them.
Printed(ns) ==
  LET text[n \in 0 .. Len(ns)] ==
        IF n = 0 THEN <<>>
        ELSE (IF n = 1 THEN <<>> ELSE text[n - 1] \o <<",">>) \o convto_string(ns[n])
  IN  text[Len(ns)]

Lists == {<<n>> : n \in Ints} \cup BoundedSeq(Edges, 3)

\* What ^ means, of which the provers know nothing, at the widths in use.
ASSUME BitsAssumption ==
  Bits \in Nat \ {0} /\ \A n \in 0 .. 2 * Bits : 2 ^ n \in Nat /\ 2 ^ (n + 1) = 2 * 2 ^ n

ASSUME TextAssumption ==
  /\ MaxLength \in Nat /\ MaxLength < npos          \* npos is the length of no string
  /\ \A ns \in Lists : Len(Printed(ns)) < npos
  /\ Edges \subseteq Ints                           \* -10 and 10 are numbers of the type

TextInit ==
  /\ \/ /\ how \in {"items", "empties"}
        /\ source \in BoundedSeq(Alphabet, MaxLength)
        /\ stream = space_node_stream(source, how = "empties")
        /\ numbers = <<>>
     \/ /\ how = "words"
        /\ \E msg \in BoundedSeq(Alphabet, MaxLength) :
             \E start \in {0, 1} \cap 0 .. Len(msg), end \in {3, npos} :
               /\ stream = token_node_stream(msg, start, end)
               /\ source = SubSeq(msg, start + 1, Min({Len(msg), start + end}))
        /\ numbers = <<>>
     \/ /\ how = "numbers"
        /\ numbers \in Lists
        /\ source = Printed(numbers)
        /\ stream = comma_node_stream(source, FALSE)
     \/ /\ how = "string"
        /\ source \in BoundedSeq(Symbols, MaxSymbols)
        /\ stream = newline_node_stream(source, FALSE)
        /\ numbers = <<>>
  /\ out = <<>>
  /\ done = FALSE

Take(result) ==
  /\ ~done
  /\ stream' = result.stream
  /\ done' = ~result.ok
  /\ out' = IF result.ok THEN Append(out, result.token) ELSE out
  /\ UNCHANGED <<source, how, numbers>>

NextItem   == how \in {"items", "empties"} /\ Take(items_extract(stream))
NextWord   == how = "words" /\ Take(get_trailing(stream))
NextNumber == how = "numbers" /\ Take(GetNumericToken(Int8, stream))

TextNext == NextItem \/ NextWord \/ NextNumber

TextSpec == TextInit /\ [][TextNext]_textVars

-----------------------------------------------------------------------------
\* What the stream st has still to give.
Rest(st) ==
  IF stream_finish(st) THEN <<>> ELSE Split(get_remaining(st), st.sep, st.allow_empty)

\* The words of s up to a trailing parameter, the rest after " :".
Parameters(s) ==
  LET starts == {i \in 1 .. Len(s) : s[i] = ":" /\ (i = 1 \/ s[i - 1] = " ")}
      colon  == IF starts = {} THEN Len(s) + 1 ELSE Min(starts)
  IN  Split(SubSeq(s, 1, colon - 1), " ", FALSE) \o
      (IF starts = {} THEN <<>> ELSE <<SubSeq(s, colon + 1, Len(s))>>)

(***************************************************************************)
(* items_extract loses, repeats and invents nothing: after any number of   *)
(* calls the items taken and the items of get_remaining() are the fields   *)
(* of the source, also at a separator that begins or ends the string.      *)
(***************************************************************************)
NothingLost ==
  how \in {"items", "empties"} =>
    out \o Rest(stream) = Split(source, " ", stream.allow_empty)

(***************************************************************************)
(* get_trailing keeps everything behind " :" in one piece, spaces and      *)
(* colons included, and gives the words before it one at a time.  The code *)
(* does not skip spaces in front of the first word: it is then empty.      *)
(***************************************************************************)
TrailingKept ==
  how = "words" /\ done =>
    out = (IF source # <<>> /\ Head(source) = " " THEN <<<<>>>> ELSE <<>>) \o Parameters(source)

(***************************************************************************)
(* contains asks the items that are left, not those already taken, and it  *)
(* takes what it passes: after it the stream goes on behind the first      *)
(* match, or is at its end.                                                *)
(***************************************************************************)
ContainsTakes ==
  how \in {"items", "empties"} =>
    \A value \in {<<>>, <<"a">>, <<":">>} :
      LET left == Rest(stream)
          at   == {i \in DOMAIN left : left[i] = value}
          r    == contains(stream, value)
      IN  /\ r.ok <=> at # {}
          /\ Rest(r.stream) = IF at = {} THEN <<>> ELSE SubSeq(left, Min(at) + 1, Len(left))

\* Bytes whose bits are the characters of s, taken one by one.
AsBytes(s) == [i \in DOMAIN s |-> (IF IsDigit(s[i]) THEN ValueOf(s[i]) ELSE Len(s)) % 2 ^ 3]

(***************************************************************************)
(* What convto_string prints, GetNumericToken reads: every number of the   *)
(* type comes back, also the least one (whose magnitude the type does not  *)
(* have) and zero, alone and between commas.  What to_bin writes,          *)
(* to_string reads, zero bytes too, and no further than the bits go.       *)
(***************************************************************************)
PrintedReturns ==
  /\ how = "numbers" /\ done => out = numbers
  /\ how = "string" =>
       LET data == AsBytes(source)
       IN  \A behind \in {<<>>, <<"x">> \o to_bin(3, data)} :
             to_string(3, to_bin(3, data) \o behind) = data

-----------------------------------------------------------------------------
IsZero(c) == c = "0"

\* The number of type T that a string begins with, by its printed form:
\* blanks, zeros in front and a plus do not count.
NumbersOf(T, s) ==
  LET t     == Behind(s, IsBlank)
      signs == IF t # <<>> /\ IsSign(Head(t)) THEN <<Head(t)>> ELSE <<>>
      zeros == Behind(SubSeq(t, Len(signs) + 1, Len(t)), IsZero)
      shown == (IF signs = <<"-">> THEN signs ELSE <<>>) \o Span(zeros, IsDigit)
  IN  {n \in Lowest(T) .. Highest(T) : conv_numeric(n) = shown}

(***************************************************************************)
(* convto_num gives the number that the string begins with and 0 when      *)
(* there is none or none that fits, whatever is behind it; the detour of   *)
(* convto_num<char> over a wider type changes nothing, and that of         *)
(* convto_num<unsigned char> nothing but what a minus does.                *)
(***************************************************************************)
ReadsWhatFits ==
  how = "string" =>
    LET one == NumbersOf(Int8, source)
    IN  /\ convto_num(Int8, source) = IF one = {} THEN 0 ELSE CHOOSE n \in one : TRUE
        /\ convto_num_char(Int8, source) = convto_num(Int8, source)
        /\ (\A i \in DOMAIN source : source[i] # "-") =>
             convto_num_char(UInt8, source) = convto_num(UInt8, source)

(***************************************************************************)
(* is_number takes every number that conv_numeric prints, and any string   *)
(* of signs in front and digits behind them; with dots, also a plus, a dot *)
(* and an "e" anywhere.  That is more than numbers, and so not what its    *)
(* comment says (converter.h:65, "Checks if a number is a number or not"): *)
(* the empty string and signs alone are taken, with dots "." and "e" too.  *)
(* A quote it never takes, nor, without dots, a sign behind a digit.       *)
(***************************************************************************)
NumberLanguage ==
  /\ how = "string" =>
       \A dots \in BOOLEAN :
         is_number(source, dots) <=>
           \E k \in 0 .. Len(source) :
             /\ \A i \in 1 .. k : IsSign(source[i])
             /\ \A i \in k + 1 .. Len(source) :
                  IsDigit(source[i]) \/ (dots /\ source[i] \in {".", "+", "e"})
  /\ how = "numbers" /\ Len(numbers) = 1 => is_number(source, FALSE)

(***************************************************************************)
(* stripe undoes the quotes that Methods puts around a value, whatever it  *)
(* is and also when it is empty, and loses no digit or sign of a number    *)
(* that conv_numeric prints.  This is said of no other string: one without *)
(* quotes may lose two characters that are none, and a lone quote stays,   *)
(* against its comment (converter.h:96, "Removes quote marks").            *)
(***************************************************************************)
StripeUnquotes ==
  /\ how = "string" =>
       LET quoted == <<Quote>> \o source \o <<Quote>>
       IN  /\ is_correct(quoted) /\ stripe(quoted) = source
           /\ is_positive_number(source) => stripe(source) = source
  /\ how = "numbers" /\ Len(numbers) = 1 => stripe(source) = source

=============================================================================
