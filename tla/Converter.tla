------------------------------ MODULE Converter -----------------------------
(***************************************************************************)
(* converter.h: numbers and bytes to strings and back.  A string is a      *)
(* sequence of characters, a byte a number below 2^8 (2^width here).  A    *)
(* type of the code is a record of its bits and whether it has a sign.     *)
(***************************************************************************)
EXTENDS Integers, SequencesExt

\* Characters that have no letter of their own.
CR    == "CR"
LF    == "LF"
NUL   == "NUL"
Quote == "quote"

Numeral == <<"0", "1", "2", "3", "4", "5", "6", "7", "8", "9">>
IsDigit(c) == \E i \in 1 .. 10 : Numeral[i] = c
ValueOf(c) == CHOOSE v \in 0 .. 9 : Numeral[v + 1] = c

Lowest(T)  == IF T.signed THEN -(2 ^ (T.bits - 1)) ELSE 0
Highest(T) == IF T.signed THEN 2 ^ (T.bits - 1) - 1 ELSE 2 ^ T.bits - 1

\* The longest beginning of s whose characters all satisfy Test, and the rest.
Span(s, Test(_)) ==
  SubSeq(s, 1, Max({n \in 0 .. Len(s) : \A i \in 1 .. n : Test(s[i])}))
Behind(s, Test(_)) == SubSeq(s, Len(Span(s, Test)) + 1, Len(s))

-----------------------------------------------------------------------------
\* / and % of C: the quotient is rounded toward zero.
Quotient(a, b)  == IF a < 0 THEN -((-a) \div b) ELSE a \div b
Remainder(a, b) == a - b * Quotient(a, b)
Absolute(a)     == IF a < 0 THEN -a ELSE a

\* The digits of q from the last to the first, one turn of the loop each.
DigitsOf(q) ==
  LET out[n \in 0 .. Absolute(q)] == IF n = 0 THEN q ELSE Quotient(out[n - 1], 10)
      turns == CHOOSE n \in 0 .. Absolute(q) : out[n] = 0 /\ \A m \in 0 .. n - 1 : out[m] # 0
  IN  [n \in 1 .. turns |-> Numeral[1 + Absolute(Remainder(out[n - 1], 10))]]

conv_numeric_Slip(in) ==                     \* the sign asked of the quotient
  IF in = 0 THEN <<"0">> ELSE Reverse(DigitsOf(in))

conv_numeric(in) ==
  IF in = 0 THEN <<"0">>
  ELSE Reverse(DigitsOf(in) \o (IF in < 0 THEN <<"-">> ELSE <<>>))

\* convto_string of an int; what Deliver prints of a counter.
convto_string(input) == conv_numeric(input)

IsBlank(c) == c \in {" ", CR, LF}
IsSign(c)  == c \in {"-", "+"}

\* The number that digits stand for, the first of them the highest.
NumberOf(base, digits) ==
  LET value[n \in 0 .. Len(digits)] ==
        IF n = 0 THEN 0 ELSE base * value[n - 1] + ValueOf(digits[n])
  IN  value[Len(digits)]

(***************************************************************************)
(* istringstream >> T (external): blanks, a sign and digits, and whatever  *)
(* is behind them is left.  Without a digit it fails; so it does when the  *)
(* magnitude does not fit, but a type without a sign takes a minus and     *)
(* wraps around.                                                           *)
(***************************************************************************)
Extract(T, str) ==
  LET text   == Behind(str, IsBlank)
      minus  == text # <<>> /\ Head(text) = "-"
      digits == Span(IF text # <<>> /\ IsSign(Head(text)) THEN Tail(text) ELSE text, IsDigit)
      size   == NumberOf(10, digits)
      value  == IF minus THEN -size ELSE size
  IN  [ok    |-> digits # <<>> /\ (IF T.signed THEN value >= Lowest(T) /\ value <= Highest(T)
                                   ELSE size <= Highest(T)),
       value |-> IF T.signed THEN value ELSE value % 2 ^ T.bits]

convto_num(T, str) ==
  LET tmp == Extract(T, str) IN IF tmp.ok THEN tmp.value ELSE 0

\* A type of twice the width, which the specialisations for char go through.
Wider(T) == [T EXCEPT !.bits = 2 * @]

convto_num_char_Slip(T, str) ==              \* the cast without the check
  LET value == convto_num(Wider(T), str)
      low   == value % 2 ^ T.bits
  IN  IF low > Highest(T) THEN low - 2 ^ T.bits ELSE low

\* convto_num<char> and convto_num<unsigned char>.
convto_num_char(T, str) ==
  LET value == convto_num(Wider(T), str)
  IN  IF value >= Lowest(T) /\ value <= Highest(T) THEN value ELSE 0

-----------------------------------------------------------------------------
is_number_Slip(str, allowdots) ==            \* counter not looked at
  \A i \in 1 .. Len(str) :
    IsDigit(str[i]) \/ IsSign(str[i]) \/ (allowdots /\ str[i] \in {".", "e"})

\* The walk over the characters: signs are free until something is counted.
is_number(str, allowdots) ==
  LET Look(st, c) ==
        IF ~st.ok \/ (st.counter = 0 /\ IsSign(c)) THEN st
        ELSE IF IsDigit(c) \/ (allowdots /\ c \in {".", "+", "e"}) THEN [st EXCEPT !.counter = @ + 1]
        ELSE [st EXCEPT !.ok = FALSE]
      seen[n \in 0 .. Len(str)] ==
        IF n = 0 THEN [ok |-> TRUE, counter |-> 0] ELSE Look(seen[n - 1], str[n])
  IN  seen[Len(str)].ok

is_positive_number(str) == \A i \in 1 .. Len(str) : IsDigit(str[i])

\* Whether a string is in quotes; a quote alone is its own start and end.
is_correct(str) == str # <<>> /\ Head(str) = Quote /\ Last(str) = Quote

stripe_Slip(str) ==                          \* no pop_back
  IF is_number(str, TRUE) \/ Len(str) = 1 THEN str ELSE SubSeq(str, 2, Len(str))

\* A number as it is, anything else without its first and last character.
stripe(str) ==
  IF is_number(str, TRUE) \/ Len(str) = 1 THEN str ELSE SubSeq(str, 2, Len(str) - 1)

-----------------------------------------------------------------------------
\* bitset<width> of a byte as a string, the highest bit first, and back.
BitsOf(width, byte) ==
  [i \in 1 .. width |-> IF (byte \div 2 ^ (width - i)) % 2 = 1 THEN "1" ELSE "0"]
ByteOf(bits) == NumberOf(2, bits)

to_bin(width, data) ==
  LET result[n \in 0 .. Len(data)] ==
        IF n = 0 THEN <<>> ELSE result[n - 1] \o BitsOf(width, data[n])
  IN  result[Len(data)]

IsBit(c) == c \in {"0", "1"}

\* while (sstream >> bits): blanks are skipped, width bits or fewer taken.
to_string(width, data) ==
  LET from[p \in 1 .. Len(data) + 1] ==
        LET text == Behind(SubSeq(data, p, Len(data)), IsBlank)
            bits == Span(SubSeq(text, 1, Min({width, Len(text)})), IsBit)
            next == Len(data) + 1 - (Len(text) - Len(bits))
        IN  IF bits = <<>> THEN <<>> ELSE <<ByteOf(bits)>> \o from[next]
  IN  from[1]
=============================================================================
